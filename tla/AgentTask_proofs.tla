------------------------- MODULE AgentTask_proofs ---------------------------
(***************************************************************************)
(* Proofs about AgentTask for every set of coroutines, tasks and Tools and *)
(* for every bound.  The last part is about one coroutine at a time inside *)
(* the coordinator (the agent loop's _processing_lock, for chat turns):    *)
(* its results assume Actor = {self}, and what they need besides in their  *)
(* own statement.                                                          *)
(***************************************************************************)
EXTENDS AgentTask, FiniteSetTheorems, TLAPS

-----------------------------------------------------------------------------
(* Types.  That a carried phase is one an invocation can have rests on      *)
(* Known: an identity is stored only once the Gateway has admitted the      *)
(* POST, and a record nobody has appended has never been posted.            *)

Known ==
  \A r \in Rec :
    /\ rec[r].status = "absent" => remote[r] = "none" /\ ~rec[r].inv
    /\ rec[r].inv => remote[r] \notin {"none", "sent"}

TypeInv == TypeOK /\ Known

Env == /\ act \in [Actor -> ActRow]
       /\ reconciled \in BOOLEAN
       /\ crashes \in 0..MaxCrashes

(* What a coroutine may carry. *)
LEMMA Rows ==
  /\ Idle \in ActRow
  /\ \A t \in TaskId : \A p \in {"cancel", "capture", "verify"} :
       [pc |-> p, task |-> t] \in ActRow
  /\ \A t \in TaskId, q \in Request :
       \A s \in {"wanted", "held", "none", "clean", "late"} :
         [pc |-> "admit", task |-> t, req |-> q, snap |-> s] \in ActRow
  /\ \A r \in Rec : \A p \in {"query", "post"} : [pc |-> p, rec |-> r] \in ActRow
  /\ \A r \in Rec, ph \in Phase : [pc |-> "observe", rec |-> r, phase |-> ph] \in ActRow
  /\ \A d \in SUBSET Rec : [pc |-> "reconcile", todo |-> d] \in ActRow
  /\ \A d \in SUBSET Rec, r \in Rec : \A ph \in Phase \cup {"error"} :
       [pc |-> "reread", todo |-> d, rec |-> r, phase |-> ph] \in ActRow
BY DEF ActRow, Idle, Phase, Settled

LEMMA AwaitType ==
  ASSUME Env, NEW a \in Actor, NEW w \in ActRow, Await(a, w)
  PROVE  Env'
BY DEF Env, Await

LEMMA DieType ==
  ASSUME Env, Die
  PROVE  Env'
<1>1. act' \in [Actor -> ActRow]
  BY Rows DEF Die
<1>2. reconciled' \in BOOLEAN
  BY DEF Die
<1>3. crashes' \in 0..MaxCrashes
  BY BoundsAssumption DEF Env, Die, BoundsAssumption
<1> QED BY <1>1, <1>2, <1>3 DEF Env

LEMMA ReturnType ==
  ASSUME Env, NEW a \in Actor, Return(a)
  PROVE  Env'
BY Rows, AwaitType DEF Return

LEMMA StayType ==
  ASSUME Env, UNCHANGED <<act, reconciled, crashes>>
  PROVE  Env'
BY DEF Env

(* The row a reconciling coroutine carries. *)
LEMMA ReconcileRow ==
  ASSUME NEW w \in ActRow, w.pc = "reconcile"
  PROVE  w.todo \in SUBSET Rec
BY DEF ActRow

LEMMA RereadRow ==
  ASSUME NEW w \in ActRow, w.pc = "reread"
  PROVE  w.todo \in SUBSET Rec /\ w.rec \in Rec /\ w.phase \in Phase \cup {"error"}
BY DEF ActRow, Phase

-----------------------------------------------------------------------------
(* Task calls *)

LEMMA Outcomes ==
  ASSUME NEW t \in TaskId
  PROVE  /\ CancelStatus(t) \in {"cancelled", "failed"}
         /\ FactsStatus(t) \in {"succeeded", "failed"}
         /\ \A v : VerdictStatus(t, v) \in {"succeeded", "failed", "awaiting_replan"}
<1>1. CancelStatus(t) \in {"cancelled", "failed"}
  BY DEF CancelStatus
<1>2. FactsStatus(t) \in {"succeeded", "failed"}
  BY DEF FactsStatus
<1>3. ASSUME NEW v
      PROVE  VerdictStatus(t, v) \in {"succeeded", "failed", "awaiting_replan"}
  BY <1>2 DEF VerdictStatus
<1> QED BY <1>1, <1>2, <1>3

LEMMA CommitType ==
  ASSUME TypeInv, NEW a \in Actor, NEW t \in TaskId, NEW row \in TaskRow,
         Commit(a, t, row)
  PROVE  TypeInv'
<1>1. task' \in [TaskId -> TaskRow]
  BY DEF TypeInv, TypeOK, Commit
<1>2. bound' \subseteq TaskId
  BY DEF TypeInv, TypeOK, Commit, Released
<1>3. Env'
  BY ReturnType, DieType DEF TypeInv, TypeOK, Env, Commit, Torn
<1>4. UNCHANGED <<rec, remote, tracked>>
  BY DEF Commit
<1> QED BY <1>1, <1>2, <1>3, <1>4 DEF TypeInv, TypeOK, Known, Env

LEMMA TaskCallType ==
  ASSUME TypeInv, NEW a \in Actor, TaskCall(a)
  PROVE  TypeInv'
<1> USE DEF TypeInv, TypeOK
<1>1. ASSUME NEW t \in TaskId, NEW m \in Modes, CreateTask(a, t, m)
      PROVE  TypeInv'
  <2> DEFINE row == [NoTask EXCEPT !.status = "executing", !.mode = m, !.revs = 1]
  <2>0. NoTask \in TaskRow
    BY DEF NoTask, TaskRow, TaskStatus
  <2>9. m \in {"off", "audit", "enforce", "recovery"} /\ "executing" \in TaskStatus
    BY RequestAssumption DEF RequestAssumption, TaskStatus, ActiveTask
  <2>8. row \in TaskRow
    BY <2>0, <2>9 DEF TaskRow
  <2>1. task' \in [TaskId -> TaskRow]
    BY <1>1, <2>8 DEF CreateTask
  <2>2. Env'
    BY <1>1, ReturnType, DieType DEF Env, CreateTask, Torn
  <2>3. bound' \subseteq TaskId /\ UNCHANGED <<rec, remote, tracked>>
    BY <1>1 DEF CreateTask
  <2> QED BY <2>1, <2>2, <2>3 DEF Known, Env
<1>2. ASSUME NEW t \in TaskId, BeginRevision(a, t)
      PROVE  TypeInv'
  <2>1. [task[t] EXCEPT !.status = "failed"] \in TaskRow
    BY DEF TaskRow, TaskStatus, TerminalTask
  <2>8. task[t] \in TaskRow /\ task[t].revs + 1 \in Nat /\ "executing" \in TaskStatus
    BY DEF TaskRow, TaskStatus, ActiveTask
  <2>2. [task[t] EXCEPT !.status = "executing", !.revs = @ + 1] \in TaskRow
    BY <2>8 DEF TaskRow
  <2> QED BY <1>2, <2>1, <2>2, CommitType DEF BeginRevision
<1>3. ASSUME NEW t \in TaskId, NEW asked \in BOOLEAN, ApplyCancel(a, t, asked)
      PROVE  TypeInv'
  <2> DEFINE s == IF asked \/ \E r \in RecordsOf(t) : Owned(r)
                    THEN "cancelling" ELSE CancelStatus(t)
  <2>1. s \in TaskStatus
    BY Outcomes DEF TaskStatus, ActiveTask, TerminalTask
  <2>2. [task[t] EXCEPT !.cancelReq = TRUE, !.status = s] \in TaskRow
    BY <2>1 DEF TaskRow
  <2> QED BY <1>3, <2>2, CommitType DEF ApplyCancel
<1>4. ASSUME NEW t \in TaskId, NEW p \in {"cancel", "capture", "verify"},
             Await(a, [pc |-> p, task |-> t]), UNCHANGED <<store, remote, guards>>
      PROVE  TypeInv'
  BY <1>4, Rows, AwaitType DEF Env, Known, store, guards
<1>5. ASSUME NEW t \in TaskId, NEW s \in TaskStatus,
             Commit(a, t, [task[t] EXCEPT !.status = s])
      PROVE  TypeInv'
  <2>1. [task[t] EXCEPT !.status = s] \in TaskRow
    BY DEF TaskRow
  <2> QED BY <1>5, <2>1, CommitType
<1>6. CASE \E t \in TaskId : RequestCancel(a, t)
  BY <1>6, <1>3, <1>4 DEF RequestCancel
<1>7. CASE \E t \in TaskId : RequestFinalize(a, t)
  BY <1>7, <1>4 DEF RequestFinalize
<1>8. CASE FinishCancel(a)
  BY <1>8, <1>3 DEF FinishCancel
<1>9. CASE FinishFromFacts(a)
  BY <1>9, <1>5, Outcomes DEF FinishFromFacts, TaskStatus, TerminalTask
<1>10. CASE StartVerification(a)
  BY <1>10, <1>4 DEF StartVerification
<1>11. CASE VerificationError(a)
  BY <1>11, <1>5, Outcomes DEF VerificationError, TaskStatus, TerminalTask
<1>12. ASSUME NEW v, ApplyVerdict(a, v)
       PROVE  TypeInv'
  BY <1>12, <1>5, Outcomes DEF ApplyVerdict, TaskStatus, TerminalTask, ActiveTask
<1> QED
  BY <1>1, <1>2, <1>6, <1>7, <1>8, <1>9, <1>10, <1>11, <1>12 DEF TaskCall

-----------------------------------------------------------------------------
(* Tool calls *)

LEMMA AppendType ==
  ASSUME TypeInv, NEW r \in Rec, Append(r)
  PROVE  /\ rec' = [rec EXCEPT ![r] = [status |-> "pending", inv |-> FALSE, warned |-> FALSE]]
         /\ rec' \in [Rec -> RecRow]
         /\ rec[r].status = "absent" /\ remote[r] = "none"
<1>1. [status |-> "pending", inv |-> FALSE, warned |-> FALSE] \in RecRow
  BY DEF RecRow, ToolStatus
<1> QED BY <1>1 DEF Append, NewRecord, TypeInv, TypeOK, Known

(* Storing an outcome, with or without an identity, keeps both invariants. *)
LEMMA StatusType ==
  ASSUME TypeInv, NEW r \in Rec, NEW s \in ToolStatus \ {"absent"},
         rec' = [rec EXCEPT ![r].status = s], UNCHANGED remote
  PROVE  rec' \in [Rec -> RecRow] /\ Known'
<1>1. [rec[r] EXCEPT !.status = s] \in RecRow
  BY DEF TypeInv, TypeOK, RecRow
<1>2. rec' \in [Rec -> RecRow]
  BY <1>1 DEF TypeInv, TypeOK
<1>3. ASSUME NEW x \in Rec
      PROVE  rec'[x].inv = rec[x].inv /\ (rec'[x].status = "absent" => rec[x].status = "absent")
  <2>1. CASE x = r
    BY <2>1 DEF TypeInv, TypeOK, RecRow
  <2>2. CASE x # r
    BY <2>2 DEF TypeInv, TypeOK
  <2> QED BY <2>1, <2>2
<1> QED BY <1>2, <1>3 DEF TypeInv, Known

LEMMA IdentifyType ==
  ASSUME TypeInv, NEW a \in Actor, NEW r \in Rec, NEW s \in {"accepted", "unknown"},
         Identify(a, r, s)
  PROVE  TypeInv'
<1>1. PICK w \in BOOLEAN :
        rec' = [rec EXCEPT ![r] = [status |-> s, inv |-> TRUE, warned |-> w]]
  BY DEF Identify
<1>2. [status |-> s, inv |-> TRUE, warned |-> w] \in RecRow
  BY DEF RecRow, ToolStatus, TerminalTool
<1>3. rec' \in [Rec -> RecRow]
  BY <1>1, <1>2 DEF TypeInv, TypeOK
<1>4. Env'
  BY ReturnType, DieType DEF Identify, Torn, TypeInv, TypeOK, Env
<1>5. tracked' \subseteq Rec
  BY DEF Identify, TypeInv, TypeOK
<1>6. Known'
  BY <1>1 DEF Identify, Known, TypeInv, TypeOK
<1> QED BY <1>3, <1>4, <1>5, <1>6 DEF Identify, TypeInv, TypeOK, Env

(* A phase is asked for only where an identity is stored. *)
LEMMA ReportedType ==
  ASSUME TypeInv, NEW r \in Rec, rec[r].inv
  PROVE  Reported(r) \subseteq Phase
BY DEF TypeInv, TypeOK, Known, Reported, Phase, RemoteStatus, Settled

LEMMA ObserveType ==
  ASSUME TypeInv, NEW r \in Rec, NEW ph \in Phase, Observe(r, ph), UNCHANGED remote
  PROVE  rec' \in [Rec -> RecRow] /\ Known' /\ tracked' \subseteq Rec
<1>1. CASE UNCHANGED <<rec, tracked>>
  BY <1>1 DEF TypeInv, TypeOK, Known
<1>2. CASE rec' = [rec EXCEPT ![r].status = ph]
  <2>1. ph \in ToolStatus \ {"absent"}
    BY DEF Phase, Settled, ToolStatus, TerminalTool
  <2>2. tracked' \subseteq Rec
    BY DEF Observe, TypeInv, TypeOK
  <2> QED BY <1>2, <2>1, <2>2, StatusType
<1> QED BY <1>1, <1>2 DEF Observe

LEMMA ToolCallType ==
  ASSUME TypeInv, NEW a \in Actor, ToolCall(a)
  PROVE  TypeInv'
<1> USE DEF TypeInv, TypeOK, Env
<1>1. ASSUME NEW r \in Rec, StartQuery(a, r)
      PROVE  TypeInv'
  <2>1. Env'
    BY <1>1, Rows, AwaitType DEF StartQuery
  <2>2. rec' \in [Rec -> RecRow] /\ Known'
    BY <1>1, AppendType DEF StartQuery, Known
  <2> QED BY <1>1, <2>1, <2>2 DEF StartQuery, guards
<1>2. ASSUME NEW r \in Rec, StartSession(a, r)
      PROVE  TypeInv'
  <2>1. Env'
    BY <1>2, Rows, AwaitType DEF StartSession
  <2>2. rec' \in [Rec -> RecRow] /\ Known' /\ remote' \in [Rec -> RemoteStatus]
    BY <1>2, AppendType DEF StartSession, Known, RemoteStatus
  <2> QED BY <1>2, <2>1, <2>2 DEF StartSession, guards
<1>3. ASSUME NEW r \in Rec, ReadInvocation(a, r)
      PROVE  TypeInv'
  <2>1. Env'
    BY <1>3, Rows, AwaitType, ReportedType DEF ReadInvocation
  <2> QED BY <1>3, <2>1 DEF ReadInvocation, store, guards, Known
<1>4. ASSUME NEW t \in TaskId, NEW q \in Request, CheckAction(a, t, q)
      PROVE  TypeInv'
  <2>1. Env'
    BY <1>4, Rows, AwaitType DEF CheckAction
  <2> QED BY <1>4, <2>1 DEF CheckAction, store, guards, Known
<1>5. CASE TakeSnapshot(a)
  <2>1. Env'
    BY <1>5, Rows, AwaitType DEF TakeSnapshot
  <2> QED BY <1>5, <2>1 DEF TakeSnapshot, store, guards, Known
<1>6. CASE DispatchAction(a)
  <2>1. PICK r \in Rec, s \in {"held", "none", "clean", "late"} :
          /\ task' = IF s = "held" THEN task ELSE [task EXCEPT ![r.task].before = s]
          /\ \/ /\ Append(r)
                /\ remote' = [remote EXCEPT ![r] = "sent"]
                /\ Await(a, [pc |-> "post", rec |-> r])
             \/ Return(a) /\ UNCHANGED <<rec, remote>>
    BY <1>6 DEF DispatchAction
  <2>2. task' \in [TaskId -> TaskRow]
    <3>1. r.task \in TaskId
      BY DEF Rec
    <3>2. s # "held" => [task[r.task] EXCEPT !.before = s] \in TaskRow
      BY <3>1 DEF TaskRow
    <3> QED BY <2>1, <3>1, <3>2
  <2>3. CASE Append(r) /\ remote' = [remote EXCEPT ![r] = "sent"]
               /\ Await(a, [pc |-> "post", rec |-> r])
    <3>1. Env'
      BY <2>3, Rows, AwaitType
    <3>2. rec' \in [Rec -> RecRow] /\ Known' /\ remote' \in [Rec -> RemoteStatus]
      BY <2>3, AppendType DEF Known, RemoteStatus
    <3> QED BY <1>6, <2>2, <3>1, <3>2 DEF DispatchAction, guards
  <2>4. CASE Return(a) /\ UNCHANGED <<rec, remote>>
    <3>1. Env'
      BY <2>4, ReturnType
    <3> QED BY <1>6, <2>2, <2>4, <3>1 DEF DispatchAction, guards, Known
  <2> QED BY <2>1, <2>3, <2>4
<1>7. CASE Admitted(a)
  BY <1>7, IdentifyType DEF Admitted
<1>8. CASE PostFails(a)
  <2>1. PICK r \in Rec : \/ Identify(a, r, "unknown")
                         \/ /\ rec' = [rec EXCEPT ![r].status = "unknown"]
                            /\ Return(a)
                            /\ UNCHANGED <<task, remote, guards>>
    BY <1>8 DEF PostFails
  <2>2. CASE Identify(a, r, "unknown")
    BY <2>2, IdentifyType
  <2>3. CASE /\ rec' = [rec EXCEPT ![r].status = "unknown"]
             /\ Return(a)
             /\ UNCHANGED <<task, remote, guards>>
    <3>1. rec' \in [Rec -> RecRow] /\ Known'
      BY <2>3, StatusType DEF ToolStatus, TerminalTool
    <3>2. Env'
      BY <2>3, ReturnType
    <3> QED BY <2>3, <3>1, <3>2 DEF guards
  <2> QED BY <2>1, <2>2, <2>3
<1>9. CASE FinishQuery(a)
  <2>1. PICK r \in Rec : \E s \in {"succeeded", "unknown"} : rec' = [rec EXCEPT ![r].status = s]
    BY <1>9 DEF FinishQuery
  <2>2. rec' \in [Rec -> RecRow] /\ Known'
    BY <1>9, <2>1, StatusType DEF FinishQuery, ToolStatus, TerminalTool
  <2>3. Env'
    BY <1>9, ReturnType DEF FinishQuery
  <2> QED BY <1>9, <2>2, <2>3 DEF FinishQuery, guards
<1>10. CASE ApplyObservation(a)
  <2>1. PICK r \in Rec, ph \in Phase : Observe(r, ph)
    BY <1>10 DEF ApplyObservation, Phase
  <2>2. rec' \in [Rec -> RecRow] /\ Known' /\ tracked' \subseteq Rec
    BY <1>10, <2>1, ObserveType DEF ApplyObservation
  <2>3. Env'
    BY <1>10, ReturnType DEF ApplyObservation
  <2> QED BY <1>10, <2>2, <2>3 DEF ApplyObservation
<1> QED
  BY <1>1, <1>2, <1>3, <1>4, <1>5, <1>6, <1>7, <1>8, <1>9, <1>10 DEF ToolCall

-----------------------------------------------------------------------------
(* Recovery, the environment, and the theorem *)

LEMMA ReconcileType ==
  ASSUME TypeInv, NEW a \in Actor, Reconcile(a)
  PROVE  TypeInv'
<1> USE DEF TypeInv, TypeOK, Env
<1>1. CASE StartReconcile(a)
  <2>1. PICK t \in TaskId, d \in SUBSET Rec :
          bound' = bound \cup {t} /\ Await(a, [pc |-> "reconcile", todo |-> d])
    BY <1>1 DEF StartReconcile, RecordsOf
  <2>2. Env'
    BY <2>1, Rows, AwaitType
  <2> QED BY <1>1, <2>1, <2>2 DEF StartReconcile, store, Known
<1>2. CASE NothingToReconcile(a)
  BY <1>2 DEF NothingToReconcile, store, guards, Known
<1>3. CASE ReconcileIntent(a)
  <2>1. act[a].todo \in SUBSET Rec
    BY <1>3, ReconcileRow DEF ReconcileIntent
  <2>2. PICK r \in act[a].todo :
          /\ rec' = [rec EXCEPT ![r].status = "unknown"]
          /\ Await(a, [pc |-> "reconcile", todo |-> act[a].todo \ {r}])
    BY <1>3 DEF ReconcileIntent
  <2>4. Env'
    BY <2>1, <2>2, Rows, AwaitType
  <2>5. rec' \in [Rec -> RecRow] /\ Known'
    BY <1>3, <2>1, <2>2, StatusType DEF ReconcileIntent, ToolStatus, TerminalTool
  <2> QED BY <1>3, <2>4, <2>5 DEF ReconcileIntent, guards
<1>4. CASE ReconcileRead(a)
  <2>1. act[a].todo \in SUBSET Rec
    BY <1>4, ReconcileRow DEF ReconcileRead
  <2>2. PICK r \in act[a].todo :
          /\ rec[r].inv /\ tracked' = tracked \cup {r}
          /\ \E ph \in Reported(r) \cup {"error"} :
               Await(a, [pc |-> "reread", todo |-> act[a].todo \ {r}, rec |-> r, phase |-> ph])
    BY <1>4 DEF ReconcileRead
  <2>5. PICK ph \in Reported(r) \cup {"error"} :
          Await(a, [pc |-> "reread", todo |-> act[a].todo \ {r}, rec |-> r, phase |-> ph])
    BY <2>2
  <2>3. ph \in Phase \cup {"error"} /\ r \in Rec
    BY <2>1, <2>2, ReportedType
  <2>4. Env'
    BY <2>1, <2>3, <2>5, Rows, AwaitType
  <2> QED BY <1>4, <2>2, <2>3, <2>4 DEF ReconcileRead, store, Known
<1>5. CASE ReconcileApply(a)
  <2>1. act[a].todo \in SUBSET Rec /\ act[a].rec \in Rec /\ act[a].phase \in Phase \cup {"error"}
    BY <1>5, RereadRow DEF ReconcileApply
  <2>2. Env'
    BY <1>5, <2>1, Rows, AwaitType DEF ReconcileApply
  <2>3. rec' \in [Rec -> RecRow] /\ Known' /\ tracked' \subseteq Rec
    <3>1. CASE act[a].phase = "error"
      BY <1>5, <2>1, <3>1, StatusType DEF ReconcileApply, ToolStatus, TerminalTool
    <3>2. CASE act[a].phase # "error"
      BY <1>5, <2>1, <3>2, ObserveType DEF ReconcileApply
    <3> QED BY <3>1, <3>2
  <2> QED BY <1>5, <2>2, <2>3 DEF ReconcileApply
<1>6. CASE FinishReconcile(a)
  BY <1>6, Rows DEF FinishReconcile, store, guards, Known
<1> QED BY <1>1, <1>2, <1>3, <1>4, <1>5, <1>6 DEF Reconcile

LEMMA TypeInit == Init => TypeInv
<1> SUFFICES ASSUME Init PROVE TypeInv
  OBVIOUS
<1>1. NoTask \in TaskRow /\ NoRec \in RecRow /\ "none" \in RemoteStatus
  BY DEF NoTask, TaskRow, TaskStatus, NoRec, RecRow, ToolStatus, RemoteStatus
<1>2. task \in [TaskId -> TaskRow] /\ rec \in [Rec -> RecRow] /\ remote \in [Rec -> RemoteStatus]
  BY <1>1 DEF Init
<1>3. act \in [Actor -> ActRow]
  BY Rows DEF Init
<1>4. crashes \in 0..MaxCrashes
  BY BoundsAssumption DEF Init, BoundsAssumption
<1>5. Known
  BY DEF Init, Known, NoRec
<1> QED BY <1>2, <1>3, <1>4, <1>5 DEF Init, TypeInv, TypeOK

LEMMA TypeStep == TypeInv /\ [Next]_vars => TypeInv'
<1> SUFFICES ASSUME TypeInv, [Next]_vars PROVE TypeInv'
  OBVIOUS
<1> USE DEF TypeInv, TypeOK, Env
<1>1. ASSUME NEW a \in Actor, TaskCall(a) PROVE TypeInv'
  BY <1>1, TaskCallType
<1>2. ASSUME NEW a \in Actor, ToolCall(a) PROVE TypeInv'
  BY <1>2, ToolCallType
<1>3. ASSUME NEW a \in Actor, Reconcile(a) PROVE TypeInv'
  BY <1>3, ReconcileType
<1>4. ASSUME NEW a \in Actor, Abandon(a) \/ Interrupt(a) PROVE TypeInv'
  <2>1. Env'
    BY <1>4, ReturnType DEF Abandon, Interrupt
  <2> QED BY <1>4, <2>1 DEF Abandon, Interrupt, store, guards, Known
<1>5. CASE Gateway
  <2>1. PICK r \in Rec : GatewayAdmits(r) \/ GatewaySettles(r)
    BY <1>5 DEF Gateway
  <2>2. PICK s \in Settled \cup {"running"} : remote' = [remote EXCEPT ![r] = s]
    BY <2>1 DEF GatewayAdmits, GatewaySettles, Settled
  <2>3. remote[r] # "none"
    BY <2>1 DEF GatewayAdmits, GatewaySettles
  <2>4. UNCHANGED <<task, rec, tracked, bound, act, reconciled, crashes>>
    BY <2>1 DEF GatewayAdmits, GatewaySettles, store, guards, proc
  <2> QED BY <2>2, <2>3, <2>4 DEF Known, RemoteStatus, Settled
<1>6. CASE Crash
  <2>1. Env'
    BY <1>6, DieType DEF Crash
  <2> QED BY <1>6, <2>1 DEF Crash, store, guards, Known
<1>7. CASE UNCHANGED vars
  BY <1>7 DEF vars, Known
<1> QED BY <1>1, <1>2, <1>3, <1>4, <1>5, <1>6, <1>7 DEF Next

LEMMA TypeInvariant == Spec => []TypeInv
BY TypeInit, TypeStep, PTL DEF Spec

(* Every reachable state is well formed; a coroutine never carries an       *)
(* answer for an invocation the Gateway does not know (observe_action and   *)
(* observe_session are only reached with a stored identity).                *)
THEOREM TypeCorrect == Spec => []TypeOK
<1>1. TypeInv => TypeOK
  BY DEF TypeInv
<1> QED BY <1>1, TypeInvariant, PTL

-----------------------------------------------------------------------------
(* Facts.  FactsAuthoritative is not inductive: an answer is read in one    *)
(* step and stored in another, so the answers under way must be right too.  *)

Justified(w) ==
  /\ w.pc \in {"observe", "reread"} => (w.phase \in Settled => remote[w.rec] = w.phase)
  /\ w.pc = "query" => Sem[w.rec.req] = "query"

FactsInv == FactsAuthoritative /\ \A a \in Actor : Justified(act[a])

(* What a step may do to the three pieces of state. *)
FinalStays == \A r \in Rec : remote[r] \in Settled => remote'[r] = remote[r]

FactsKept ==
  \A r \in Rec :
    \/ Sem[r.req] = "query"
    \/ rec'[r].status \notin Settled
    \/ rec'[r].status = rec[r].status
    \/ rec'[r].status = remote[r]

AnswersKept == \A a \in Actor : act'[a] = act[a] \/ Justified(act'[a])

LEMMA FactsPreserved ==
  ASSUME TypeInv', FactsInv, FinalStays, FactsKept, AnswersKept
  PROVE  FactsInv'
<1>1. FactsAuthoritative'
  BY DEF FactsInv, FactsAuthoritative, FinalStays, FactsKept
<1>2. ASSUME NEW a \in Actor
      PROVE  Justified(act[a])'
  <2>1. Justified(act'[a])
    BY DEF FactsInv, AnswersKept
  <2>2. (act'[a].pc \in {"observe", "reread"} /\ act'[a].phase \in Settled) =>
          remote[act'[a].rec] = act'[a].phase
    BY <2>1 DEF Justified
  <2>3. act'[a].pc \in {"observe", "reread"} => act'[a].rec \in Rec
    <3>1. act'[a] \in ActRow
      BY DEF TypeInv, TypeOK
    <3> QED BY <3>1 DEF ActRow
  <2> QED BY <2>1, <2>2, <2>3 DEF Justified, FinalStays
<1> QED BY <1>1, <1>2 DEF FactsInv

LEMMA Plain ==
  /\ Justified(Idle)
  /\ \A t : \A p \in {"cancel", "capture", "verify"} : Justified([pc |-> p, task |-> t])
  /\ \A t, q, s : Justified([pc |-> "admit", task |-> t, req |-> q, snap |-> s])
  /\ \A r : Justified([pc |-> "post", rec |-> r])
  /\ \A d : Justified([pc |-> "reconcile", todo |-> d])
BY DEF Justified, Idle

LEMMA AwaitKeeps ==
  ASSUME TypeInv, NEW a \in Actor, NEW w, Await(a, w), Justified(w)
  PROVE  AnswersKept
BY DEF TypeInv, TypeOK, Await, AnswersKept

LEMMA ReturnKeeps ==
  ASSUME TypeInv, NEW a \in Actor, Return(a)
  PROVE  AnswersKept
BY AwaitKeeps, Plain DEF Return

LEMMA DieKeeps ==
  ASSUME Die
  PROVE  AnswersKept
BY Plain DEF Die, AnswersKept

LEMMA CommitKeeps ==
  ASSUME TypeInv, NEW a \in Actor, NEW t, NEW row, Commit(a, t, row)
  PROVE  AnswersKept /\ UNCHANGED <<rec, remote>>
BY ReturnKeeps, DieKeeps DEF Commit, Torn

LEMMA TaskCallKeeps ==
  ASSUME TypeInv, NEW a \in Actor, TaskCall(a)
  PROVE  AnswersKept /\ UNCHANGED <<rec, remote>>
<1>1. ASSUME NEW t \in TaskId, NEW m \in Modes, CreateTask(a, t, m)
      PROVE  AnswersKept /\ UNCHANGED <<rec, remote>>
  BY <1>1, ReturnKeeps, DieKeeps DEF CreateTask, Torn
<1>2. ASSUME NEW t \in TaskId, BeginRevision(a, t)
      PROVE  AnswersKept /\ UNCHANGED <<rec, remote>>
  BY <1>2, CommitKeeps DEF BeginRevision
<1>3. ASSUME NEW t \in TaskId, RequestCancel(a, t)
      PROVE  AnswersKept /\ UNCHANGED <<rec, remote>>
  BY <1>3, CommitKeeps, AwaitKeeps, Plain DEF RequestCancel, ApplyCancel, store
<1>4. ASSUME NEW t \in TaskId, RequestFinalize(a, t)
      PROVE  AnswersKept /\ UNCHANGED <<rec, remote>>
  BY <1>4, AwaitKeeps, Plain DEF RequestFinalize, store
<1>5. CASE FinishCancel(a)
  BY <1>5, CommitKeeps DEF FinishCancel, ApplyCancel
<1>6. CASE FinishFromFacts(a)
  BY <1>6, CommitKeeps DEF FinishFromFacts
<1>7. CASE StartVerification(a)
  BY <1>7, AwaitKeeps, Plain DEF StartVerification, store
<1>8. CASE VerificationError(a)
  BY <1>8, CommitKeeps DEF VerificationError
<1>9. ASSUME NEW v, ApplyVerdict(a, v)
      PROVE  AnswersKept /\ UNCHANGED <<rec, remote>>
  BY <1>9, CommitKeeps DEF ApplyVerdict
<1> QED
  BY <1>1, <1>2, <1>3, <1>4, <1>5, <1>6, <1>7, <1>8, <1>9 DEF TaskCall

(* A status that is no definite outcome, or the Gateway's own, is justified. *)
LEMMA StatusKeeps ==
  ASSUME TypeInv, NEW r \in Rec, NEW s, rec' = [rec EXCEPT ![r].status = s],
         s \notin Settled \/ s = remote[r] \/ Sem[r.req] = "query"
  PROVE  FactsKept
<1>1. ASSUME NEW x \in Rec
      PROVE  IF x = r THEN rec'[x].status = s ELSE rec'[x].status = rec[x].status
  BY DEF TypeInv, TypeOK, RecRow
<1> QED BY <1>1 DEF FactsKept

LEMMA AppendKeeps ==
  ASSUME TypeInv, NEW r \in Rec, Append(r)
  PROVE  /\ FactsKept
         /\ UNCHANGED remote => FinalStays
         /\ remote' = [remote EXCEPT ![r] = "sent"] => FinalStays
<1>1. rec' = [rec EXCEPT ![r] = [status |-> "pending", inv |-> FALSE, warned |-> FALSE]]
        /\ remote[r] = "none"
  BY AppendType
<1>2. FactsKept
  BY <1>1 DEF FactsKept, Settled, TypeInv, TypeOK
<1> QED BY <1>1, <1>2 DEF FinalStays, Settled, TypeInv, TypeOK

LEMMA IdentifyKeeps ==
  ASSUME TypeInv, NEW a \in Actor, NEW r \in Rec, NEW s \in {"accepted", "unknown"},
         Identify(a, r, s)
  PROVE  FactsKept /\ AnswersKept /\ UNCHANGED remote
<1>1. AnswersKept /\ UNCHANGED remote
  BY ReturnKeeps, DieKeeps DEF Identify, Torn
<1>2. PICK w \in BOOLEAN :
        rec' = [rec EXCEPT ![r] = [status |-> s, inv |-> TRUE, warned |-> w]]
  BY DEF Identify
<1>3. FactsKept
  BY <1>2 DEF FactsKept, Settled, TypeInv, TypeOK
<1> QED BY <1>1, <1>3

LEMMA ObserveKeeps ==
  ASSUME TypeInv, NEW r \in Rec, NEW ph, Observe(r, ph), ph \in Settled => remote[r] = ph
  PROVE  FactsKept
<1>1. CASE UNCHANGED rec
  BY <1>1 DEF FactsKept
<1>2. CASE rec' = [rec EXCEPT ![r].status = ph]
  BY <1>2, StatusKeeps
<1> QED BY <1>1, <1>2 DEF Observe

Kept == FinalStays /\ FactsKept /\ AnswersKept

LEMMA Idles ==
  ASSUME UNCHANGED <<rec, remote>>, AnswersKept
  PROVE  Kept
BY DEF Kept, FinalStays, FactsKept

LEMMA ToolCallKeeps ==
  ASSUME TypeInv, FactsInv, NEW a \in Actor, ToolCall(a)
  PROVE  Kept
<1>1. ASSUME NEW r \in Rec, StartQuery(a, r)
      PROVE  Kept
  <2>1. Justified([pc |-> "query", rec |-> r])
    BY <1>1 DEF StartQuery, Justified
  <2>2. AnswersKept
    BY <1>1, <2>1, AwaitKeeps DEF StartQuery
  <2> QED BY <1>1, <2>2, AppendKeeps DEF StartQuery, Kept
<1>2. ASSUME NEW r \in Rec, StartSession(a, r)
      PROVE  Kept
  <2>1. AnswersKept
    BY <1>2, Plain, AwaitKeeps DEF StartSession
  <2> QED BY <1>2, <2>1, AppendKeeps DEF StartSession, Kept
<1>3. ASSUME NEW r \in Rec, ReadInvocation(a, r)
      PROVE  Kept
  <2>1. PICK ph \in Reported(r) : Await(a, [pc |-> "observe", rec |-> r, phase |-> ph])
    BY <1>3 DEF ReadInvocation
  <2>2. Justified([pc |-> "observe", rec |-> r, phase |-> ph])
    BY <2>1 DEF Justified, Reported, Settled
  <2>3. AnswersKept
    BY <2>1, <2>2, AwaitKeeps
  <2> QED BY <1>3, <2>3, Idles DEF ReadInvocation, store
<1>4. ASSUME NEW t \in TaskId, NEW q \in Request, CheckAction(a, t, q)
      PROVE  Kept
  BY <1>4, Plain, AwaitKeeps, Idles DEF CheckAction, store
<1>5. CASE TakeSnapshot(a)
  BY <1>5, Plain, AwaitKeeps, Idles DEF TakeSnapshot, store
<1>6. CASE DispatchAction(a)
  <2>1. PICK r \in Rec :
          \/ /\ Append(r)
             /\ remote' = [remote EXCEPT ![r] = "sent"]
             /\ Await(a, [pc |-> "post", rec |-> r])
          \/ Return(a) /\ UNCHANGED <<rec, remote>>
    BY <1>6 DEF DispatchAction
  <2>2. CASE Return(a) /\ UNCHANGED <<rec, remote>>
    BY <2>2, ReturnKeeps, Idles
  <2>3. CASE /\ Append(r)
             /\ remote' = [remote EXCEPT ![r] = "sent"]
             /\ Await(a, [pc |-> "post", rec |-> r])
    BY <2>3, Plain, AwaitKeeps, AppendKeeps DEF Kept
  <2> QED BY <2>1, <2>2, <2>3
<1>7. CASE Admitted(a)
  BY <1>7, IdentifyKeeps DEF Admitted, Kept, FinalStays
<1>8. CASE PostFails(a)
  <2>1. PICK r \in Rec : \/ Identify(a, r, "unknown")
                         \/ /\ rec' = [rec EXCEPT ![r].status = "unknown"]
                            /\ Return(a)
                            /\ UNCHANGED remote
    BY <1>8 DEF PostFails
  <2>2. CASE Identify(a, r, "unknown")
    BY <2>2, IdentifyKeeps DEF Kept, FinalStays
  <2>3. CASE rec' = [rec EXCEPT ![r].status = "unknown"] /\ Return(a) /\ UNCHANGED remote
    BY <2>3, ReturnKeeps, StatusKeeps DEF Kept, FinalStays, Settled
  <2> QED BY <2>1, <2>2, <2>3
<1>9. CASE FinishQuery(a)
  <2>1. PICK r \in Rec : /\ act[a] = [pc |-> "query", rec |-> r]
                         /\ \E s : rec' = [rec EXCEPT ![r].status = s]
    BY <1>9 DEF FinishQuery
  <2>2. Sem[r.req] = "query"
    BY <2>1 DEF FactsInv, Justified
  <2> QED BY <1>9, <2>1, <2>2, ReturnKeeps, StatusKeeps DEF FinishQuery, Kept, FinalStays
<1>10. CASE ApplyObservation(a)
  <2>1. PICK r \in Rec, ph \in Phase :
          act[a] = [pc |-> "observe", rec |-> r, phase |-> ph] /\ Observe(r, ph)
    BY <1>10 DEF ApplyObservation
  <2>2. ph \in Settled => remote[r] = ph
    BY <2>1 DEF FactsInv, Justified
  <2> QED
    BY <1>10, <2>1, <2>2, ReturnKeeps, ObserveKeeps DEF ApplyObservation, Kept, FinalStays
<1> QED
  BY <1>1, <1>2, <1>3, <1>4, <1>5, <1>6, <1>7, <1>8, <1>9, <1>10 DEF ToolCall

LEMMA ReconcileKeeps ==
  ASSUME TypeInv, FactsInv, NEW a \in Actor, Reconcile(a)
  PROVE  Kept
<1>1. CASE StartReconcile(a)
  BY <1>1, Plain, AwaitKeeps, Idles DEF StartReconcile, store
<1>2. CASE NothingToReconcile(a)
  BY <1>2, Idles DEF NothingToReconcile, store, AnswersKept
<1>3. CASE ReconcileIntent(a)
  <2>1. PICK r \in Rec : rec' = [rec EXCEPT ![r].status = "unknown"]
    BY <1>3, ReconcileRow DEF ReconcileIntent, TypeInv, TypeOK
  <2>2. AnswersKept
    BY <1>3, Plain, AwaitKeeps DEF ReconcileIntent
  <2> QED BY <1>3, <2>1, <2>2, StatusKeeps DEF ReconcileIntent, Kept, FinalStays, Settled
<1>4. CASE ReconcileRead(a)
  <2>1. PICK r \in act[a].todo : \E ph \in Reported(r) \cup {"error"} :
          Await(a, [pc |-> "reread", todo |-> act[a].todo \ {r}, rec |-> r, phase |-> ph])
    BY <1>4 DEF ReconcileRead
  <2>2. PICK ph \in Reported(r) \cup {"error"} :
          Await(a, [pc |-> "reread", todo |-> act[a].todo \ {r}, rec |-> r, phase |-> ph])
    BY <2>1
  <2>3. Justified([pc |-> "reread", todo |-> act[a].todo \ {r}, rec |-> r, phase |-> ph])
    BY <2>2 DEF Justified, Reported, Settled
  <2> QED BY <1>4, <2>2, <2>3, AwaitKeeps, Idles DEF ReconcileRead, store
<1>5. CASE ReconcileApply(a)
  <2>1. act[a].rec \in Rec /\ (act[a].phase \in Settled => remote[act[a].rec] = act[a].phase)
    BY <1>5, RereadRow DEF ReconcileApply, FactsInv, Justified, TypeInv, TypeOK
  <2>2. FactsKept
    BY <1>5, <2>1, StatusKeeps, ObserveKeeps DEF ReconcileApply, Settled
  <2> QED BY <1>5, <2>2, Plain, AwaitKeeps DEF ReconcileApply, Kept, FinalStays
<1>6. CASE FinishReconcile(a)
  BY <1>6, Plain, Idles DEF FinishReconcile, store, AnswersKept, TypeInv, TypeOK
<1> QED BY <1>1, <1>2, <1>3, <1>4, <1>5, <1>6 DEF Reconcile

LEMMA FactsStep == TypeInv /\ TypeInv' /\ FactsInv /\ [Next]_vars => FactsInv'
<1> SUFFICES ASSUME TypeInv, TypeInv', FactsInv, [Next]_vars PROVE Kept
  BY FactsPreserved DEF Kept
<1>1. ASSUME NEW a \in Actor, TaskCall(a) PROVE Kept
  BY <1>1, TaskCallKeeps, Idles
<1>2. ASSUME NEW a \in Actor, ToolCall(a) PROVE Kept
  BY <1>2, ToolCallKeeps
<1>3. ASSUME NEW a \in Actor, Reconcile(a) PROVE Kept
  BY <1>3, ReconcileKeeps
<1>4. ASSUME NEW a \in Actor, Abandon(a) \/ Interrupt(a) PROVE Kept
  BY <1>4, ReturnKeeps, Idles DEF Abandon, Interrupt, store
<1>5. CASE Gateway
  BY <1>5 DEF Gateway, GatewayAdmits, GatewaySettles, Kept, FinalStays, FactsKept,
              AnswersKept, Settled, store, proc, TypeInv, TypeOK
<1>6. CASE Crash
  BY <1>6, DieKeeps, Idles DEF Crash, store
<1>7. CASE UNCHANGED vars
  BY <1>7, Idles DEF vars, AnswersKept
<1> QED BY <1>1, <1>2, <1>3, <1>4, <1>5, <1>6, <1>7 DEF Next

LEMMA FactsInvariant == Spec => [](TypeInv /\ FactsInv)
<1>1. Init => FactsInv
  BY DEF Init, FactsInv, FactsAuthoritative, Justified, NoRec, Idle, Settled
<1> QED BY <1>1, TypeInvariant, FactsStep, PTL DEF Spec

(* Forge owns the execution facts, for any number of turns, crashes,        *)
(* interrupts and lost answers: a definite outcome stored by start_action,  *)
(* observe_action or reconcile_nonterminal is the one the Gateway reached.  *)
THEOREM FactsCorrect == Spec => []FactsAuthoritative
<1>1. FactsInv => FactsAuthoritative
  BY DEF FactsInv
<1> QED BY <1>1, FactsInvariant, PTL

-----------------------------------------------------------------------------
(* Sending.  Only the append of a fresh intent makes a POST leave. *)

LEMMA SendStep ==
  ASSUME TypeInv, [Next]_vars, NEW r \in Rec, remote[r] # "sent", remote'[r] = "sent"
  PROVE  rec[r].status = "absent" /\ rec'[r].status = "pending"
<1>1. ASSUME NEW x \in Rec, Append(x), remote' = [remote EXCEPT ![x] = "sent"]
      PROVE  rec[r].status = "absent" /\ rec'[r].status = "pending"
  <2>1. r = x
    BY <1>1 DEF TypeInv, TypeOK
  <2> QED BY <1>1, <2>1, AppendType DEF TypeInv, TypeOK
<1>2. ASSUME NEW a \in Actor, TaskCall(a) PROVE FALSE
  BY <1>2, TaskCallKeeps
<1>3. ASSUME NEW a \in Actor, ToolCall(a) PROVE rec[r].status = "absent" /\ rec'[r].status = "pending"
  <2>1. \/ UNCHANGED remote
        \/ \E x \in Rec : Append(x) /\ remote' = [remote EXCEPT ![x] = "sent"]
    BY <1>3 DEF ToolCall, StartQuery, StartSession, ReadInvocation, CheckAction, TakeSnapshot,
                DispatchAction, Admitted, PostFails, Identify, FinishQuery, ApplyObservation, store
  <2> QED BY <1>1, <2>1
<1>4. ASSUME NEW a \in Actor, Reconcile(a) PROVE FALSE
  BY <1>4 DEF Reconcile, StartReconcile, NothingToReconcile, ReconcileIntent, ReconcileRead,
              ReconcileApply, FinishReconcile, store
<1>5. ASSUME NEW a \in Actor, Abandon(a) \/ Interrupt(a) PROVE FALSE
  BY <1>5 DEF Abandon, Interrupt, store
<1>6. CASE Gateway
  BY <1>6 DEF Gateway, GatewayAdmits, GatewaySettles, TypeInv, TypeOK
<1>7. CASE Crash \/ UNCHANGED vars
  BY <1>7 DEF Crash, store, vars
<1> QED BY <1>2, <1>3, <1>4, <1>5, <1>6, <1>7 DEF Next

(* The POST of an Action or Session leaves together with its stored intent  *)
(* and never a second time, whatever times out, crashes or is interrupted:  *)
(* recovery only reads ("never repeats the POST blindly").                  *)
THEOREM NoResend == Spec => IntentBeforePost
<1>1. TypeInv /\ [Next]_vars =>
        \A r \in Rec : remote[r] # "sent" /\ remote'[r] = "sent" =>
           rec[r].status = "absent" /\ rec'[r].status = "pending"
  BY SendStep
<1> QED BY <1>1, TypeInvariant, PTL DEF Spec, IntentBeforePost

-----------------------------------------------------------------------------
(* The replan budget *)

Budget(row) ==
  /\ row.revs <= MaxReplans + 1
  /\ row.status = "awaiting_replan" => row.revs <= MaxReplans

LEMMA CommitBudget ==
  ASSUME TypeInv, ReplanAffordable, NEW a \in Actor, NEW t \in TaskId,
         NEW row \in TaskRow, Budget(row), Commit(a, t, row)
  PROVE  ReplanAffordable'
BY DEF TypeInv, TypeOK, ReplanAffordable, Commit, Budget

LEMMA BudgetStep == TypeInv /\ ReplanAffordable /\ [Next]_vars => ReplanAffordable'
<1> SUFFICES ASSUME TypeInv, ReplanAffordable, [Next]_vars PROVE ReplanAffordable'
  OBVIOUS
<1> USE BoundsAssumption DEF BoundsAssumption
<1>0. ASSUME NEW t \in TaskId
      PROVE  task[t].revs \in Nat /\ Budget(task[t]) /\ task[t] \in TaskRow
  BY DEF TypeInv, TypeOK, TaskRow, ReplanAffordable, Budget
<1>1. ASSUME NEW a \in Actor, NEW t \in TaskId,
             NEW s \in TaskStatus, Commit(a, t, [task[t] EXCEPT !.status = s]),
             s = "awaiting_replan" => task[t].revs <= MaxReplans
      PROVE  ReplanAffordable'
  <2>1. [task[t] EXCEPT !.status = s] \in TaskRow /\ Budget([task[t] EXCEPT !.status = s])
    BY <1>0, <1>1 DEF TaskRow, Budget
  <2> QED BY <1>1, <2>1, CommitBudget
<1>2. ASSUME NEW a \in Actor, NEW t \in TaskId, NEW m \in Modes, CreateTask(a, t, m)
      PROVE  ReplanAffordable'
  <2> DEFINE row == [NoTask EXCEPT !.status = "executing", !.mode = m, !.revs = 1]
  <2>0. NoTask \in TaskRow
    BY DEF NoTask, TaskRow, TaskStatus
  <2>9. row.status = "executing" /\ row.revs = 1
    BY <2>0 DEF TaskRow
  <2>1. ASSUME NEW u \in TaskId
        PROVE  \/ task'[u] = task[u]
               \/ task'[u].status = "executing" /\ task'[u].revs = 1
    BY <1>2, <2>9 DEF CreateTask, TypeInv, TypeOK
  <2> QED BY <2>1, <1>0 DEF ReplanAffordable, Budget
<1>3. ASSUME NEW a \in Actor, NEW t \in TaskId, BeginRevision(a, t)
      PROVE  ReplanAffordable'
  <2>1. CASE Commit(a, t, [task[t] EXCEPT !.status = "failed"])
    BY <2>1, <1>1 DEF TaskStatus, TerminalTask
  <2>2. CASE task[t].revs - 1 < MaxReplans
             /\ Commit(a, t, [task[t] EXCEPT !.status = "executing", !.revs = @ + 1])
    <3> DEFINE row == [task[t] EXCEPT !.status = "executing", !.revs = @ + 1]
    <3>0. task[t].revs + 1 \in Nat /\ "executing" \in TaskStatus
      BY <1>0 DEF TaskStatus, ActiveTask
    <3>1. row \in TaskRow /\ row.status = "executing" /\ row.revs = task[t].revs + 1
      BY <1>0, <3>0 DEF TaskRow
    <3>2. Budget(row)
      BY <3>1, <2>2, <1>0 DEF Budget
    <3> QED BY <2>2, <3>1, <3>2, CommitBudget
  <2> QED BY <1>3, <2>1, <2>2 DEF BeginRevision
<1>4. ASSUME NEW a \in Actor, NEW t \in TaskId, NEW asked \in BOOLEAN, ApplyCancel(a, t, asked)
      PROVE  ReplanAffordable'
  <2> DEFINE s == IF asked \/ \E r \in RecordsOf(t) : Owned(r)
                    THEN "cancelling" ELSE CancelStatus(t)
             row == [task[t] EXCEPT !.cancelReq = TRUE, !.status = s]
  <2>1. s \in TaskStatus /\ s # "awaiting_replan"
    BY Outcomes DEF TaskStatus, ActiveTask, TerminalTask
  <2>2. row \in TaskRow /\ Budget(row)
    BY <2>1, <1>0 DEF TaskRow, Budget
  <2> QED BY <1>4, <2>2, CommitBudget DEF ApplyCancel
<1>5. ASSUME NEW a \in Actor, NEW v, ApplyVerdict(a, v)
      PROVE  ReplanAffordable'
  <2>1. PICK t \in TaskId : Commit(a, t, [task[t] EXCEPT !.status = VerdictStatus(t, v)])
    BY <1>5 DEF ApplyVerdict
  <2>2. VerdictStatus(t, v) \in TaskStatus
    BY Outcomes DEF TaskStatus, ActiveTask, TerminalTask
  <2>3. VerdictStatus(t, v) = "awaiting_replan" => task[t].revs <= MaxReplans
    BY <1>0, Outcomes DEF VerdictStatus
  <2> QED BY <2>1, <2>2, <2>3, <1>1
<1>6. ASSUME NEW a \in Actor, FinishFromFacts(a) \/ VerificationError(a)
      PROVE  ReplanAffordable'
  BY <1>6, <1>1, Outcomes DEF FinishFromFacts, VerificationError, TaskStatus, TerminalTask
<1>7. ASSUME NEW a \in Actor, TaskCall(a) PROVE ReplanAffordable'
  <2>1. ASSUME NEW t \in TaskId, RequestCancel(a, t)
        PROVE  ReplanAffordable'
    BY <2>1, <1>4 DEF RequestCancel, store, ReplanAffordable
  <2>2. CASE FinishCancel(a)
    BY <2>2, <1>4 DEF FinishCancel
  <2>3. CASE StartVerification(a) \/ \E t \in TaskId : RequestFinalize(a, t)
    BY <2>3 DEF StartVerification, RequestFinalize, store, ReplanAffordable
  <2> QED BY <1>7, <1>2, <1>3, <1>5, <1>6, <2>1, <2>2, <2>3 DEF TaskCall
<1>8. CASE UNCHANGED task
  BY <1>8 DEF ReplanAffordable
<1>9. ASSUME NEW a \in Actor, DispatchAction(a)
      PROVE  ReplanAffordable'
  <2>1. PICK r \in Rec, s \in {"held", "none", "clean", "late"} :
          task' = IF s = "held" THEN task ELSE [task EXCEPT ![r.task].before = s]
    BY <1>9 DEF DispatchAction
  <2>2. ASSUME NEW t \in TaskId
        PROVE  task'[t].revs = task[t].revs /\ task'[t].status = task[t].status
    BY <2>1 DEF TypeInv, TypeOK, TaskRow, Rec
  <2> QED BY <2>2 DEF ReplanAffordable
<1>10. ASSUME NEW a \in Actor, ToolCall(a), ~DispatchAction(a)
       PROVE  UNCHANGED task
  BY <1>10 DEF ToolCall, StartQuery, StartSession, ReadInvocation, CheckAction, TakeSnapshot,
               Admitted, PostFails, Identify, FinishQuery, ApplyObservation, store
<1>11. ASSUME NEW a \in Actor, Reconcile(a) \/ Abandon(a) \/ Interrupt(a)
       PROVE  UNCHANGED task
  BY <1>11 DEF Reconcile, StartReconcile, NothingToReconcile, ReconcileIntent, ReconcileRead,
               ReconcileApply, FinishReconcile, Abandon, Interrupt, store
<1>12. CASE Gateway \/ Crash \/ UNCHANGED vars
  BY <1>12, <1>8 DEF Gateway, GatewayAdmits, GatewaySettles, Crash, store, vars
<1> QED BY <1>7, <1>8, <1>9, <1>10, <1>11, <1>12 DEF Next

(* begin_revision, finalize_task and their races never take a task past     *)
(* max_replans, nor leave it waiting for a replan it can no longer have.    *)
THEOREM BudgetCorrect == Spec => []ReplanAffordable
<1>1. Init => ReplanAffordable
  BY BoundsAssumption DEF Init, ReplanAffordable, NoTask, BoundsAssumption
<1> QED BY <1>1, TypeInvariant, BudgetStep, PTL DEF Spec

-----------------------------------------------------------------------------
(* Cancellation *)

LEMMA CommitSets ==
  ASSUME TypeInv, NEW a \in Actor, NEW u \in TaskId, NEW t \in TaskId, NEW s,
         task'[t].status # task[t].status,
         Commit(a, u, [task[u] EXCEPT !.status = s])
  PROVE  u = t /\ task'[t].status = s
BY DEF TypeInv, TypeOK, TaskRow, Commit

LEMMA CancelStep ==
  ASSUME TypeInv, FactsInv, [Next]_vars, NEW t \in TaskId,
         task[t].status # "cancelled", task'[t].status = "cancelled"
  PROVE  \A r \in RecordsOf(t) : Owned(r) => remote[r] \in {"cancelled", "stopped"}
<1> SUFFICES CancelStatus(t) = "cancelled"
  BY DEF CancelStatus, RecordsOf, Owned, FactsInv, FactsAuthoritative, Settled
<1>0. task'[t].status # task[t].status
  OBVIOUS
<1>1. ASSUME NEW a \in Actor, NEW u \in TaskId, NEW m \in Modes, CreateTask(a, u, m)
      PROVE  FALSE
  <2> DEFINE row == [NoTask EXCEPT !.status = "executing", !.mode = m, !.revs = 1]
  <2>1. NoTask \in TaskRow
    BY DEF NoTask, TaskRow, TaskStatus
  <2>2. row.status = "executing"
    BY <2>1 DEF TaskRow
  <2>3. task' = [task EXCEPT ![u] = row] \/ UNCHANGED task
    BY <1>1 DEF CreateTask
  <2> QED BY <2>2, <2>3 DEF TypeInv, TypeOK
<1>2. ASSUME NEW a \in Actor, NEW u \in TaskId, BeginRevision(a, u)
      PROVE  FALSE
  <2>1. CASE Commit(a, u, [task[u] EXCEPT !.status = "failed"])
    BY <1>0, <2>1, CommitSets
  <2>2. CASE Commit(a, u, [task[u] EXCEPT !.status = "executing", !.revs = @ + 1])
    BY <2>2 DEF TypeInv, TypeOK, TaskRow, Commit
  <2> QED BY <1>2, <2>1, <2>2 DEF BeginRevision
<1>3. ASSUME NEW a \in Actor, NEW u \in TaskId, NEW asked \in BOOLEAN, ApplyCancel(a, u, asked)
      PROVE  CancelStatus(t) = "cancelled"
  <2> DEFINE s == IF asked \/ \E r \in RecordsOf(u) : Owned(r)
                    THEN "cancelling" ELSE CancelStatus(u)
  <2>1. Commit(a, u, [task[u] EXCEPT !.cancelReq = TRUE, !.status = s])
    BY <1>3 DEF ApplyCancel
  <2>2. u = t /\ s = "cancelled"
    <3> HIDE DEF s
    <3> QED BY <2>1 DEF TypeInv, TypeOK, TaskRow, Commit
  <2> QED BY <2>2
<1>4. ASSUME NEW a \in Actor, TaskCall(a)
      PROVE  CancelStatus(t) = "cancelled"
  <2>1. ASSUME NEW u \in TaskId, RequestCancel(a, u)
        PROVE  CancelStatus(t) = "cancelled"
    BY <1>0, <1>3, <2>1 DEF RequestCancel, store
  <2>2. CASE FinishCancel(a)
    BY <1>3, <2>2 DEF FinishCancel
  <2>3. CASE FinishFromFacts(a)
    <3>1. PICK u \in TaskId : Commit(a, u, [task[u] EXCEPT
            !.status = IF task[u].cancelReq THEN CancelStatus(u) ELSE FactsStatus(u)])
      BY <2>3 DEF FinishFromFacts
    <3> QED BY <1>0, <3>1, CommitSets, Outcomes
  <2>4. CASE VerificationError(a)
    <3>1. PICK u \in TaskId : Commit(a, u, [task[u] EXCEPT
            !.status = IF task[u].mode = "audit" THEN FactsStatus(u) ELSE "failed"])
      BY <2>4 DEF VerificationError
    <3> QED BY <1>0, <3>1, CommitSets, Outcomes
  <2>5. ASSUME NEW v, ApplyVerdict(a, v)
        PROVE  FALSE
    <3>1. PICK u \in TaskId : Commit(a, u, [task[u] EXCEPT !.status = VerdictStatus(u, v)])
      BY <2>5 DEF ApplyVerdict
    <3> QED BY <1>0, <3>1, CommitSets, Outcomes
  <2>6. CASE StartVerification(a) \/ \E u \in TaskId : RequestFinalize(a, u)
    BY <1>0, <2>6 DEF StartVerification, RequestFinalize, store
  <2> QED BY <1>1, <1>2, <1>4, <2>1, <2>2, <2>3, <2>4, <2>5, <2>6 DEF TaskCall
<1>5. ASSUME NEW a \in Actor, DispatchAction(a)
      PROVE  FALSE
  BY <1>0, <1>5 DEF DispatchAction, TypeInv, TypeOK, TaskRow, Rec
<1>6. ASSUME NEW a \in Actor, ToolCall(a), ~DispatchAction(a)
      PROVE  FALSE
  BY <1>0, <1>6 DEF ToolCall, StartQuery, StartSession, ReadInvocation, CheckAction, TakeSnapshot,
                    Admitted, PostFails, Identify, FinishQuery, ApplyObservation, store
<1>7. ASSUME NEW a \in Actor, Reconcile(a) \/ Abandon(a) \/ Interrupt(a)
      PROVE  FALSE
  BY <1>0, <1>7 DEF Reconcile, StartReconcile, NothingToReconcile, ReconcileIntent, ReconcileRead,
                    ReconcileApply, FinishReconcile, Abandon, Interrupt, store
<1>8. CASE Gateway \/ Crash \/ UNCHANGED vars
  BY <1>0, <1>8 DEF Gateway, GatewayAdmits, GatewaySettles, Crash, store, vars
<1> QED BY <1>4, <1>5, <1>6, <1>7, <1>8 DEF Next

(* "cancelled" is reported only when every Action and task Session of the   *)
(* task has been seen to stop by the Gateway, even when cancel_task,        *)
(* finalize_task and observations of two turns interleave.                  *)
THEOREM CancelledCorrect == Spec => CancelledIsStopped
<1>1. TypeInv /\ FactsInv /\ [Next]_vars =>
        \A t \in TaskId :
          task[t].status # "cancelled" /\ task'[t].status = "cancelled" =>
            \A r \in RecordsOf(t) : Owned(r) => remote[r] \in {"cancelled", "stopped"}
  BY CancelStep
<1> QED BY <1>1, FactsInvariant, PTL DEF Spec, CancelledIsStopped

-----------------------------------------------------------------------------
(* The Runtime under a live invocation.  An identity that is stored is       *)
(* tracked in the same step, or its record says why not; it leaves the       *)
(* Runtime only when the Gateway has settled it.                             *)

Guarded(r) == rec[r].inv => r \in tracked \/ rec[r].warned \/ remote[r] # "running"

GuardInv == \A r \in Rec : Guarded(r)

(* What a step may do: identities come with their guard, the guard is given  *)
(* back for a settled invocation only, and only a POST without an identity   *)
(* starts to run.                                                            *)
GuardKept ==
  \A r \in Rec :
    /\ rec'[r].inv => \/ rec[r].inv /\ (rec[r].warned => rec'[r].warned)
                      \/ r \in tracked' \/ rec'[r].warned
    /\ r \in tracked => r \in tracked' \/ remote[r] \in Settled
    /\ remote'[r] = "running" => remote[r] = "running" \/ ~rec[r].inv

LEMMA GuardPreserved ==
  ASSUME GuardInv, FinalStays, GuardKept
  PROVE  GuardInv'
<1> SUFFICES ASSUME NEW r \in Rec, rec'[r].inv, remote'[r] = "running"
             PROVE  r \in tracked' \/ rec'[r].warned
  BY DEF GuardInv, Guarded
<1>1. remote[r] = "running" \/ ~rec[r].inv
  BY DEF GuardKept
<1>2. remote[r] \notin Settled
  BY DEF FinalStays, Settled
<1>3. rec[r].inv => r \in tracked \/ rec[r].warned \/ remote[r] # "running"
  BY DEF GuardInv, Guarded
<1>4. r \in tracked => r \in tracked'
  BY <1>2 DEF GuardKept
<1>5. \/ rec[r].inv /\ (rec[r].warned => rec'[r].warned)
      \/ r \in tracked' \/ rec'[r].warned
  BY DEF GuardKept
<1> QED BY <1>1, <1>3, <1>4, <1>5

LEMMA StoreKept ==
  ASSUME UNCHANGED <<rec, remote>>, tracked \subseteq tracked'
  PROVE  GuardKept
BY DEF GuardKept

LEMMA StatusGuard ==
  ASSUME TypeInv, NEW r \in Rec, NEW s, rec' = [rec EXCEPT ![r].status = s],
         UNCHANGED remote, tracked \subseteq tracked' \cup {r},
         r \in tracked' \/ remote[r] \in Settled \/ r \notin tracked
  PROVE  GuardKept
<1>1. ASSUME NEW x \in Rec
      PROVE  rec'[x].inv = rec[x].inv /\ rec'[x].warned = rec[x].warned
  BY DEF TypeInv, TypeOK, RecRow
<1> QED BY <1>1 DEF GuardKept

LEMMA AppendGuard ==
  ASSUME TypeInv, NEW r \in Rec, Append(r), UNCHANGED tracked,
         UNCHANGED remote \/ remote' = [remote EXCEPT ![r] = "sent"]
  PROVE  GuardKept
BY AppendType DEF GuardKept, TypeInv, TypeOK, RecRow

LEMMA IdentifyGuard ==
  ASSUME TypeInv, "torn" \notin Faults, NEW a \in Actor, NEW r \in Rec, NEW s, Identify(a, r, s)
  PROVE  GuardKept
<1>1. CASE /\ rec' = [rec EXCEPT ![r] = [status |-> s, inv |-> TRUE, warned |-> FALSE]]
           /\ tracked' = tracked \cup {r}
  BY <1>1 DEF Identify, GuardKept, TypeInv, TypeOK
<1>2. CASE /\ rec' = [rec EXCEPT ![r] = [status |-> s, inv |-> TRUE, warned |-> TRUE]]
           /\ UNCHANGED tracked
  BY <1>2 DEF Identify, GuardKept, TypeInv, TypeOK
<1> QED BY <1>1, <1>2 DEF Identify, Torn

LEMMA ObserveGuard ==
  ASSUME TypeInv, NEW r \in Rec, NEW ph, Observe(r, ph), ph \in Settled => remote[r] = ph,
         UNCHANGED remote
  PROVE  GuardKept
<1>1. CASE UNCHANGED <<rec, tracked>>
  BY <1>1, StoreKept
<1>2. CASE /\ rec' = [rec EXCEPT ![r].status = ph]
           /\ tracked' = IF ph \in Settled THEN tracked \ {r} ELSE tracked
  BY <1>2, StatusGuard
<1> QED BY <1>1, <1>2 DEF Observe

LEMMA ToolCallGuard ==
  ASSUME TypeInv, FactsInv, "torn" \notin Faults, NEW a \in Actor, ToolCall(a)
  PROVE  GuardKept
<1>1. ASSUME NEW r \in Rec, StartQuery(a, r) \/ StartSession(a, r)
      PROVE  GuardKept
  BY <1>1, AppendGuard DEF StartQuery, StartSession, guards
<1>2. ASSUME \/ \E r \in Rec : ReadInvocation(a, r)
             \/ \E t \in TaskId, q \in Request : CheckAction(a, t, q)
             \/ TakeSnapshot(a)
      PROVE  GuardKept
  BY <1>2, StoreKept DEF ReadInvocation, CheckAction, TakeSnapshot, store, guards
<1>3. CASE DispatchAction(a)
  BY <1>3, AppendGuard, StoreKept DEF DispatchAction, guards
<1>4. CASE Admitted(a)
  BY <1>4, IdentifyGuard DEF Admitted
<1>5. CASE PostFails(a)
  BY <1>5, IdentifyGuard, StatusGuard DEF PostFails, guards
<1>6. CASE FinishQuery(a)
  BY <1>6, StatusGuard DEF FinishQuery, guards
<1>7. CASE ApplyObservation(a)
  <2>1. PICK r \in Rec, ph \in Phase :
          act[a] = [pc |-> "observe", rec |-> r, phase |-> ph] /\ Observe(r, ph)
    BY <1>7 DEF ApplyObservation
  <2>2. ph \in Settled => remote[r] = ph
    BY <2>1 DEF FactsInv, Justified
  <2> QED BY <1>7, <2>1, <2>2, ObserveGuard DEF ApplyObservation
<1> QED BY <1>1, <1>2, <1>3, <1>4, <1>5, <1>6, <1>7 DEF ToolCall

LEMMA ReconcileGuard ==
  ASSUME TypeInv, FactsInv, NEW a \in Actor, Reconcile(a)
  PROVE  GuardKept
<1>1. CASE StartReconcile(a) \/ NothingToReconcile(a) \/ FinishReconcile(a) \/ ReconcileRead(a)
  BY <1>1, StoreKept
     DEF StartReconcile, NothingToReconcile, FinishReconcile, ReconcileRead, store, guards
<1>2. CASE ReconcileIntent(a)
  <2>1. PICK r \in Rec : rec' = [rec EXCEPT ![r].status = "unknown"]
    BY <1>2, ReconcileRow DEF ReconcileIntent, TypeInv, TypeOK
  <2> QED BY <1>2, <2>1, StatusGuard DEF ReconcileIntent, guards
<1>3. CASE ReconcileApply(a)
  <2>1. act[a].rec \in Rec /\ (act[a].phase \in Settled => remote[act[a].rec] = act[a].phase)
    BY <1>3, RereadRow DEF ReconcileApply, FactsInv, Justified, TypeInv, TypeOK
  <2> QED BY <1>3, <2>1, StatusGuard, ObserveGuard DEF ReconcileApply
<1> QED BY <1>1, <1>2, <1>3 DEF Reconcile

LEMMA GuardStep ==
  ASSUME "torn" \notin Faults
  PROVE  TypeInv /\ FactsInv /\ GuardInv /\ [Next]_vars => GuardInv'
<1> SUFFICES ASSUME TypeInv, FactsInv, GuardInv, [Next]_vars PROVE FinalStays /\ GuardKept
  BY GuardPreserved
<1>1. ASSUME NEW a \in Actor, TaskCall(a) PROVE FinalStays /\ GuardKept
  <2>1. UNCHANGED <<rec, remote>>
    BY <1>1, TaskCallKeeps
  <2>2. UNCHANGED tracked
    BY <1>1 DEF TaskCall, CreateTask, BeginRevision, RequestCancel, RequestFinalize, FinishCancel,
                FinishFromFacts, StartVerification, VerificationError, ApplyVerdict, ApplyCancel,
                Commit, guards
  <2> QED BY <2>1, <2>2, StoreKept DEF FinalStays
<1>2. ASSUME NEW a \in Actor, ToolCall(a) PROVE FinalStays /\ GuardKept
  BY <1>2, ToolCallKeeps, ToolCallGuard DEF Kept
<1>3. ASSUME NEW a \in Actor, Reconcile(a) PROVE FinalStays /\ GuardKept
  BY <1>3, ReconcileKeeps, ReconcileGuard DEF Kept
<1>4. ASSUME NEW a \in Actor, Abandon(a) \/ Interrupt(a) PROVE FinalStays /\ GuardKept
  BY <1>4, StoreKept DEF Abandon, Interrupt, store, guards, FinalStays
<1>5. CASE Gateway
  <2>1. PICK r \in Rec : GatewayAdmits(r) \/ GatewaySettles(r)
    BY <1>5 DEF Gateway
  <2>2. UNCHANGED <<rec, tracked>>
    BY <2>1 DEF GatewayAdmits, GatewaySettles, store, guards
  <2>3. FinalStays
    BY <2>1 DEF GatewayAdmits, GatewaySettles, FinalStays, Settled, TypeInv, TypeOK
  <2>4. \A x \in Rec : remote'[x] = "running" => remote[x] = "running" \/ ~rec[x].inv
    BY <2>1 DEF GatewayAdmits, GatewaySettles, TypeInv, TypeOK, Known
  <2> QED BY <2>2, <2>3, <2>4 DEF GuardKept
<1>6. CASE Crash \/ UNCHANGED vars
  BY <1>6, StoreKept DEF Crash, store, guards, vars, FinalStays
<1> QED BY <1>1, <1>2, <1>3, <1>4, <1>5, <1>6 DEF Next

(* Unless the process dies between the write of an identity and the write   *)
(* of the Runtime state, a live invocation whose identity is stored keeps   *)
(* ForgeRuntimeService from stopping its Runtime, for any number of turns,  *)
(* lost answers and interrupts; a tracking failure leaves its warning.      *)
THEOREM GuardedUntorn ==
  ASSUME "torn" \notin Faults
  PROVE  Spec => []RuntimeGuarded
<1>1. Init => GuardInv
  BY DEF Init, GuardInv, Guarded, NoRec
<1>2. GuardInv => RuntimeGuarded
  BY DEF GuardInv, Guarded, RuntimeGuarded
<1> QED BY <1>1, <1>2, FactsInvariant, GuardStep, PTL DEF Spec

-----------------------------------------------------------------------------
(* The ledger.  A coroutine that awaits the answer to a query or a POST is   *)
(* the only one that works on that record, which still waits for it: a new   *)
(* record belongs to its creator, and the recovery, which may take records   *)
(* without an identity, is over before a turn creates one.                   *)

Recovering == {"idle", "reconcile", "reread"}

(* What a coroutine may rely on when it returns from its await. *)
Expects(w) ==
  /\ w.pc = "admit" => Sem[w.req] = "action"
  /\ w.pc = "query" => Sem[w.rec.req] = "query" /\ rec[w.rec].status = "pending"
  /\ w.pc = "post" =>
       Sem[w.rec.req] # "query" /\ rec[w.rec].status = "pending" /\ ~rec[w.rec].inv
  /\ w.pc \in {"observe", "reread"} => rec[w.rec].inv
  /\ w.pc \in {"reconcile", "reread"} =>
       \A r \in w.todo : Sem[r.req] # "query" /\ rec[r].status # "absent"

AwaitsAnswer(w, r) == w.pc \in {"query", "post"} /\ w.rec = r
MayRecover(w, r) == w.pc \in {"reconcile", "reread"} /\ r \in w.todo

Apart(v, w) ==
  /\ w.pc \in {"query", "post"} => ~AwaitsAnswer(v, w.rec)
  /\ w.pc = "post" => ~MayRecover(v, w.rec)
  /\ v.pc = "post" => ~MayRecover(w, v.rec)

Stored(r) ==
  /\ rec[r].inv => Sem[r.req] # "query"
  /\ Sem[r.req] # "query" /\ ~rec[r].inv => rec[r].status \in {"absent", "pending", "unknown"}

LedgerInv ==
  /\ \A a \in Actor : Expects(act[a])
  /\ \A a, b \in Actor : a # b => Apart(act[a], act[b])
  /\ \A r \in Rec : Stored(r)
  /\ reconciled \/ \A a \in Actor : act[a].pc \in Recovering

LEMMA ApartBothWays ==
  ASSUME NEW v, NEW w, Apart(v, w)
  PROVE  Apart(w, v)
BY DEF Apart, AwaitsAnswer

(* What a step of one coroutine may do to a record it writes. *)
Written(a, r) ==
  /\ rec'[r].status # "absent" /\ (rec[r].inv => rec'[r].inv)
  /\ Stored(r)'
  /\ \A b \in Actor \ {a} : ~AwaitsAnswer(act[b], r)

LEMMA LedgerMoves ==
  ASSUME TypeInv, LedgerInv, NEW a \in Actor, NEW w,
         act' = [act EXCEPT ![a] = w], reconciled' = reconciled,
         \A r \in Rec : rec'[r] = rec[r] \/ Written(a, r),
         Expects(w)', \A b \in Actor \ {a} : Apart(w, act[b]),
         reconciled \/ w.pc \in Recovering
  PROVE  LedgerInv'
<1>1. act'[a] = w /\ \A b \in Actor \ {a} : act'[b] = act[b]
  BY DEF TypeInv, TypeOK
<1>2. ASSUME NEW b \in Actor PROVE Expects(act[b])'
  <2>1. CASE b = a
    BY <1>1, <2>1 DEF Expects
  <2>2. CASE b # a
    <3>1. act'[b] = act[b] /\ act[b] \in ActRow
      BY <1>1, <2>2 DEF TypeInv, TypeOK
    <3>2. act[b].pc \in {"query", "post", "observe", "reread"} => act[b].rec \in Rec
      BY <3>1 DEF ActRow
    <3>3. act[b].pc \in {"reconcile", "reread"} => act[b].todo \subseteq Rec
      BY <3>1 DEF ActRow
    <3>4. act[b].pc \in {"query", "post"} => rec'[act[b].rec] = rec[act[b].rec]
      BY <2>2, <3>2 DEF Written, AwaitsAnswer
    <3>5. Expects(act[b])
      BY DEF LedgerInv
    <3>6. act[b].pc \in {"observe", "reread"} => rec'[act[b].rec].inv
      BY <3>2, <3>5 DEF Written, Expects
    <3>7. act[b].pc \in {"reconcile", "reread"} =>
            \A r \in act[b].todo : Sem[r.req] # "query" /\ rec'[r].status # "absent"
      BY <3>3, <3>5 DEF Written, Expects
    <3> QED BY <3>1, <3>4, <3>5, <3>6, <3>7 DEF Expects
  <2> QED BY <2>1, <2>2
<1>3. ASSUME NEW b \in Actor, NEW c \in Actor, b # c PROVE Apart(act[b], act[c])'
  <2>1. CASE b = a
    BY <1>1, <1>3, <2>1 DEF Apart, AwaitsAnswer, MayRecover
  <2>2. CASE c = a
    <3>1. Apart(act[b], w)
      BY <1>3, <2>2, ApartBothWays
    <3> QED BY <1>1, <1>3, <2>2, <3>1 DEF Apart, AwaitsAnswer, MayRecover
  <2>3. CASE b # a /\ c # a
    BY <1>1, <1>3, <2>3 DEF LedgerInv, Apart, AwaitsAnswer, MayRecover
  <2> QED BY <2>1, <2>2, <2>3
<1>4. ASSUME NEW r \in Rec PROVE Stored(r)'
  BY DEF LedgerInv, Written, Stored
<1>5. reconciled' \/ \A b \in Actor : act'[b].pc \in Recovering
  BY <1>1 DEF LedgerInv
<1> QED BY <1>2, <1>3, <1>4, <1>5 DEF LedgerInv

LEMMA IdleApart ==
  /\ Expects(Idle)' /\ Idle.pc \in Recovering
  /\ \A v : Apart(Idle, v) /\ Apart(v, Idle)
BY DEF Expects, Idle, Recovering, Apart, AwaitsAnswer, MayRecover

LEMMA LedgerReturns ==
  ASSUME TypeInv, LedgerInv, NEW a \in Actor, Return(a),
         \A r \in Rec : rec'[r] = rec[r] \/ Written(a, r)
  PROVE  LedgerInv'
BY IdleApart, LedgerMoves DEF Return, Await

LEMMA LedgerDies ==
  ASSUME LedgerInv, Die, \A r \in Rec : Stored(r)'
  PROVE  LedgerInv'
<1>1. \A a \in Actor : act'[a] = Idle
  BY DEF Die
<1>2. \A a \in Actor : Expects(act[a])'
  BY <1>1 DEF Expects, Idle
<1>3. \A a, b \in Actor : Apart(act[a], act[b])'
  BY <1>1 DEF Apart, Idle, AwaitsAnswer, MayRecover
<1> QED BY <1>1, <1>2, <1>3 DEF LedgerInv, Idle, Recovering

Claims == [r \in Rec |-> rec[r].status]
Named == [r \in Rec |-> rec[r].inv]
LedgerStep == [Ledger!Next]_(Ledger!vars)

LEMMA LedgerRests ==
  ASSUME UNCHANGED <<rec, remote>>
  PROVE  LedgerStep
BY DEF LedgerStep, Ledger!vars

LEMMA Updated ==
  ASSUME NEW r \in Rec, \A y \in Rec : y # r => rec'[y] = rec[y]
  PROVE  /\ Claims' = [Claims EXCEPT ![r] = rec'[r].status]
         /\ Named' = [Named EXCEPT ![r] = rec'[r].inv]
<1>1. [Claims EXCEPT ![r] = rec'[r].status] = [y \in Rec |-> rec'[y].status]
  BY DEF Claims
<1>2. [Named EXCEPT ![r] = rec'[r].inv] = [y \in Rec |-> rec'[y].inv]
  BY DEF Named
<1> QED BY <1>1, <1>2 DEF Claims, Named

(* A record written as a whole, or its status alone, on the ledger. *)
LEMMA RowClaimed ==
  ASSUME TypeInv, NEW r \in Rec, NEW s, NEW i, NEW x,
         rec' = [rec EXCEPT ![r] = [status |-> s, inv |-> i, warned |-> x]]
  PROVE  /\ Claims' = [Claims EXCEPT ![r] = s] /\ Named' = [Named EXCEPT ![r] = i]
         /\ rec'[r].status = s /\ rec'[r].inv = i
         /\ \A y \in Rec : y # r => rec'[y] = rec[y]
<1>1. rec'[r] = [status |-> s, inv |-> i, warned |-> x]
  BY DEF TypeInv, TypeOK
<1>2. \A y \in Rec : y # r => rec'[y] = rec[y]
  BY DEF TypeInv, TypeOK
<1>3. Claims' = [Claims EXCEPT ![r] = s] /\ Named' = [Named EXCEPT ![r] = i]
  BY <1>1, <1>2, Updated
<1> QED BY <1>1, <1>2, <1>3

LEMMA StatusClaimed ==
  ASSUME TypeInv, NEW r \in Rec, NEW s, rec' = [rec EXCEPT ![r].status = s]
  PROVE  /\ Claims' = [Claims EXCEPT ![r] = s] /\ Named' = Named
         /\ rec'[r].status = s /\ rec'[r].inv = rec[r].inv
         /\ \A y \in Rec : y # r => rec'[y] = rec[y]
<1>1. rec'[r].status = s /\ rec'[r].inv = rec[r].inv
  BY DEF TypeInv, TypeOK, RecRow
<1>2. \A y \in Rec : y # r => rec'[y] = rec[y]
  BY DEF TypeInv, TypeOK
<1>3. Claims' = [Claims EXCEPT ![r] = s] /\ Named' = [Named EXCEPT ![r] = rec[r].inv]
  BY <1>1, <1>2, Updated
<1>4. [Named EXCEPT ![r] = rec[r].inv] = Named
  BY DEF Named
<1> QED BY <1>1, <1>2, <1>3, <1>4

(* The creator of a record is alone with it. *)
LEMMA NewIntent ==
  ASSUME TypeInv, LedgerInv, NEW a \in Actor, NEW r \in Rec, Ready(a) \/ reconciled, Append(r),
         NEW p \in {"query", "post"}, Await(a, [pc |-> p, rec |-> r]),
         p = "query" => Sem[r.req] = "query" /\ UNCHANGED remote,
         p = "post" => Sem[r.req] # "query" /\ remote' = [remote EXCEPT ![r] = "sent"]
  PROVE  LedgerInv' /\ LedgerStep
<1> DEFINE w == [pc |-> p, rec |-> r]
<1>1. /\ rec' = [rec EXCEPT ![r] = [status |-> "pending", inv |-> FALSE, warned |-> FALSE]]
      /\ rec[r].status = "absent" /\ remote[r] = "none" /\ ~rec[r].inv
  BY AppendType DEF TypeInv, Known
<1>2. /\ Claims' = [Claims EXCEPT ![r] = "pending"] /\ Named' = [Named EXCEPT ![r] = FALSE]
      /\ rec'[r].status = "pending" /\ rec'[r].inv = FALSE
      /\ \A y \in Rec : y # r => rec'[y] = rec[y]
  BY <1>1, RowClaimed
<1>3. ASSUME NEW b \in Actor PROVE ~AwaitsAnswer(act[b], r) /\ ~MayRecover(act[b], r)
  BY <1>1 DEF LedgerInv, Expects, AwaitsAnswer, MayRecover
<1>4. LedgerInv'
  <2>1. act' = [act EXCEPT ![a] = w] /\ reconciled' = reconciled /\ reconciled
    BY DEF Await, Ready
  <2>2. Written(a, r)
    BY <1>1, <1>2, <1>3 DEF Written, Stored
  <2>3. Expects(w)'
    BY <1>2 DEF Expects
  <2>4. \A b \in Actor \ {a} : Apart(w, act[b])
    BY <1>3 DEF Apart, AwaitsAnswer, MayRecover
  <2> QED BY <1>2, <2>1, <2>2, <2>3, <2>4, LedgerMoves
<1>5. Named' = Named
  <2>1. rec[r].inv = FALSE
    BY <1>1 DEF TypeInv, TypeOK, RecRow
  <2>2. [Named EXCEPT ![r] = FALSE] = Named
    BY <2>1 DEF Named
  <2> QED BY <1>2, <2>2
<1>6. Claims[r] = "absent"
  BY <1>1 DEF Claims
<1>7. remote' = IF r \in {x \in Rec : Sem[x.req] # "query"}
                  THEN [remote EXCEPT ![r] = "sent"] ELSE remote
  OBVIOUS
<1>8. Ledger!Intend(r)
  BY <1>1, <1>2, <1>5, <1>6, <1>7 DEF Ledger!Intend, Ledger!Claim, Claims, Named
<1> QED BY <1>4, <1>8 DEF LedgerStep, Ledger!Next

(* The answer to a POST is stored on the intent that waits for it. *)
LEMMA Acknowledged ==
  ASSUME TypeInv, LedgerInv, NEW a \in Actor, NEW r \in Rec, NEW s \in {"accepted", "unknown"},
         act[a] = [pc |-> "post", rec |-> r], Identify(a, r, s)
  PROVE  LedgerInv' /\ LedgerStep
<1>1. Sem[r.req] # "query" /\ rec[r].status = "pending" /\ ~rec[r].inv
  BY DEF LedgerInv, Expects
<1>2. PICK x \in BOOLEAN : rec' = [rec EXCEPT ![r] = [status |-> s, inv |-> TRUE, warned |-> x]]
  BY DEF Identify
<1>3. /\ Claims' = [Claims EXCEPT ![r] = s] /\ Named' = [Named EXCEPT ![r] = TRUE]
      /\ rec'[r].status = s /\ rec'[r].inv = TRUE
      /\ \A y \in Rec : y # r => rec'[y] = rec[y]
  BY <1>2, RowClaimed
<1>4. Stored(r)'
  BY <1>1, <1>3 DEF Stored
<1>5. Written(a, r)
  BY <1>3, <1>4 DEF Written, LedgerInv, Apart, AwaitsAnswer
<1>6. \A y \in Rec : Stored(y)'
  BY <1>3, <1>4 DEF LedgerInv, Stored
<1>7. LedgerInv'
  BY <1>3, <1>5, <1>6, LedgerReturns, LedgerDies DEF Identify, Torn
<1>8. Claims[r] = "pending" /\ ~Named[r]
  BY <1>1 DEF Claims, Named
<1>9. Ledger!Acknowledge(r)
  BY <1>1, <1>3, <1>8 DEF Ledger!Acknowledge, Ledger!Claim, Identify, Claims, Named
<1> QED BY <1>7, <1>9 DEF LedgerStep, Ledger!Next

(* An answer without an identity, or a recovery without one. *)
LEMMA GivenUp ==
  ASSUME TypeInv, LedgerInv, NEW r \in Rec, ~rec[r].inv, Sem[r.req] # "query",
         rec[r].status # "absent",
         rec' = [rec EXCEPT ![r].status = "unknown"], UNCHANGED remote
  PROVE  LedgerStep
<1>1. rec[r].status \in {"pending", "unknown"}
  BY DEF LedgerInv, Stored
<1>2. Claims' = [Claims EXCEPT ![r] = "unknown"] /\ Named' = Named
  BY StatusClaimed
<1>3. CASE rec[r].status = "unknown"
  <2>1. Claims' = Claims
    BY <1>2, <1>3 DEF Claims
  <2> QED BY <1>2, <2>1 DEF LedgerStep, Ledger!vars, Claims, Named
<1>4. CASE rec[r].status = "pending"
  <2>1. Claims[r] = "pending" /\ ~Named[r]
    BY <1>4 DEF Claims, Named
  <2>2. Ledger!GiveUp(r)
    BY <1>2, <2>1 DEF Ledger!GiveUp, Ledger!Claim, Claims, Named
  <2> QED BY <2>2 DEF LedgerStep, Ledger!Next
<1> QED BY <1>1, <1>3, <1>4

(* A reading of an invocation that can be named. *)
LEMMA ReadBack ==
  ASSUME TypeInv, NEW r \in Rec, rec[r].inv, UNCHANGED remote,
         NEW s \in {"pending", "running", "unknown"} \cup ({remote[r]} \cap Settled),
         rec' = [rec EXCEPT ![r].status = s]
  PROVE  LedgerStep
<1>1. Claims' = [Claims EXCEPT ![r] = s] /\ Named' = Named
  BY StatusClaimed
<1>2. Named[r] /\ s \in {"pending", "running", "unknown"} \cup ({remote[r]} \cap Ledger!Definite)
  BY DEF Named, Settled, Ledger!Definite
<1>3. Ledger!Observe(r)
  BY <1>1, <1>2 DEF Ledger!Observe, Ledger!Claim, Claims, Named
<1> QED BY <1>3 DEF LedgerStep, Ledger!Next

LEMMA ObservedClaim ==
  ASSUME TypeInv, LedgerInv, NEW a \in Actor, NEW r \in Rec, rec[r].inv, UNCHANGED remote,
         NEW ph \in Phase, ph \in Settled => remote[r] = ph, Observe(r, ph)
  PROVE  LedgerStep /\ \A x \in Rec : rec'[x] = rec[x] \/ Written(a, x)
<1>1. CASE UNCHANGED rec
  BY <1>1, LedgerRests
<1>2. CASE rec' = [rec EXCEPT ![r].status = ph]
  <2>1. LedgerStep
    BY <1>2, ReadBack DEF Phase
  <2>2. /\ rec'[r].status = ph /\ rec'[r].inv
        /\ \A y \in Rec : y # r => rec'[y] = rec[y]
    BY <1>2, StatusClaimed
  <2>3. Sem[r.req] # "query"
    BY DEF LedgerInv, Stored
  <2>4. \A b \in Actor : ~AwaitsAnswer(act[b], r)
    BY <2>3 DEF LedgerInv, Expects, AwaitsAnswer
  <2>5. Written(a, r)
    BY <2>2, <2>3, <2>4 DEF Written, Stored, Phase, Settled
  <2> QED BY <2>1, <2>2, <2>5
<1> QED BY <1>1, <1>2 DEF Observe

-----------------------------------------------------------------------------
(* Steps that write no record *)

LEMMA LedgerAwaits ==
  ASSUME TypeInv, LedgerInv, NEW a \in Actor, NEW w, Await(a, w), reconciled,
         w.pc \in {"cancel", "capture", "verify", "admit"},
         w.pc = "admit" => Sem[w.req] = "action", UNCHANGED <<rec, remote>>
  PROVE  LedgerInv' /\ LedgerStep
<1>1. Expects(w)' /\ \A v : Apart(w, v)
  BY DEF Expects, Apart, AwaitsAnswer, MayRecover
<1>2. act' = [act EXCEPT ![a] = w] /\ reconciled' = reconciled /\ \A r \in Rec : rec'[r] = rec[r]
  BY DEF Await
<1> QED BY <1>1, <1>2, LedgerMoves, LedgerRests

LEMMA LedgerEnds ==
  ASSUME TypeInv, LedgerInv, NEW a \in Actor, Return(a) \/ Die, UNCHANGED <<rec, remote>>
  PROVE  LedgerInv' /\ LedgerStep
<1>1. \A r \in Rec : Stored(r)'
  BY DEF LedgerInv, Stored
<1> QED BY <1>1, LedgerReturns, LedgerDies, LedgerRests

LEMMA LedgerCommits ==
  ASSUME TypeInv, LedgerInv, NEW a \in Actor, NEW t, NEW row, Commit(a, t, row)
  PROVE  LedgerInv' /\ LedgerStep
BY LedgerEnds DEF Commit, Torn

(* A coroutine that is inside a task call was let in by a reconciled loop. *)
LEMMA LetIn ==
  ASSUME LedgerInv, NEW a \in Actor,
         Ready(a) \/ act[a].pc \in {"cancel", "capture", "verify", "admit", "query", "post"}
  PROVE  reconciled
BY DEF LedgerInv, Ready, Recovering

LEMMA TaskCallLedger ==
  ASSUME TypeInv, LedgerInv, NEW a \in Actor, TaskCall(a)
  PROVE  LedgerInv' /\ LedgerStep
<1>1. ASSUME NEW t \in TaskId, NEW m \in Modes, CreateTask(a, t, m)
      PROVE  LedgerInv' /\ LedgerStep
  BY <1>1, LedgerEnds DEF CreateTask, Torn
<1>2. ASSUME NEW t \in TaskId, BeginRevision(a, t)
      PROVE  LedgerInv' /\ LedgerStep
  BY <1>2, LedgerCommits DEF BeginRevision
<1>3. ASSUME NEW t \in TaskId, RequestCancel(a, t)
      PROVE  LedgerInv' /\ LedgerStep
  BY <1>3, LedgerCommits, LedgerAwaits, LetIn DEF RequestCancel, ApplyCancel, store
<1>4. ASSUME NEW t \in TaskId, RequestFinalize(a, t)
      PROVE  LedgerInv' /\ LedgerStep
  BY <1>4, LedgerAwaits, LetIn DEF RequestFinalize, store
<1>5. CASE FinishCancel(a)
  BY <1>5, LedgerCommits DEF FinishCancel, ApplyCancel
<1>6. CASE FinishFromFacts(a)
  BY <1>6, LedgerCommits DEF FinishFromFacts
<1>7. CASE StartVerification(a)
  BY <1>7, LedgerAwaits, LetIn DEF StartVerification, store
<1>8. CASE VerificationError(a)
  BY <1>8, LedgerCommits DEF VerificationError
<1>9. ASSUME NEW v, ApplyVerdict(a, v)
      PROVE  LedgerInv' /\ LedgerStep
  BY <1>9, LedgerCommits DEF ApplyVerdict
<1> QED
  BY <1>1, <1>2, <1>3, <1>4, <1>5, <1>6, <1>7, <1>8, <1>9 DEF TaskCall

-----------------------------------------------------------------------------
(* Tool calls and recovery *)

LEMMA ToolCallLedger ==
  ASSUME TypeInv, FactsInv, LedgerInv, NEW a \in Actor, ToolCall(a)
  PROVE  LedgerInv' /\ LedgerStep
<1>1. ASSUME NEW r \in Rec, StartQuery(a, r)
      PROVE  LedgerInv' /\ LedgerStep
  BY <1>1, NewIntent DEF StartQuery
<1>2. ASSUME NEW r \in Rec, StartSession(a, r)
      PROVE  LedgerInv' /\ LedgerStep
  BY <1>2, NewIntent DEF StartSession
<1>3. ASSUME NEW r \in Rec, ReadInvocation(a, r)
      PROVE  LedgerInv' /\ LedgerStep
  <2>1. PICK ph : Await(a, [pc |-> "observe", rec |-> r, phase |-> ph])
    BY <1>3 DEF ReadInvocation
  <2> DEFINE w == [pc |-> "observe", rec |-> r, phase |-> ph]
  <2>2. UNCHANGED <<rec, remote>> /\ rec[r].inv /\ reconciled
    BY <1>3 DEF ReadInvocation, store, Ready
  <2>3. Expects(w)' /\ \A v : Apart(w, v)
    BY <2>2 DEF Expects, Apart, AwaitsAnswer, MayRecover
  <2> QED BY <2>1, <2>2, <2>3, LedgerMoves, LedgerRests DEF Await
<1>4. ASSUME NEW t \in TaskId, NEW q \in Request, CheckAction(a, t, q)
      PROVE  LedgerInv' /\ LedgerStep
  BY <1>4, LedgerAwaits, LetIn DEF CheckAction, store
<1>5. CASE TakeSnapshot(a)
  <2>1. PICK t \in TaskId, q \in Request, s \in {"none", "clean", "late"} :
          /\ act[a] = [pc |-> "admit", task |-> t, req |-> q, snap |-> "wanted"]
          /\ Await(a, [pc |-> "admit", task |-> t, req |-> q, snap |-> s])
    BY <1>5 DEF TakeSnapshot
  <2>2. Sem[q] = "action" /\ reconciled
    BY <2>1, LetIn DEF LedgerInv, Expects
  <2> QED BY <1>5, <2>1, <2>2, LedgerAwaits DEF TakeSnapshot, store
<1>6. CASE DispatchAction(a)
  <2>1. PICK r \in Rec, s \in {"held", "none", "clean", "late"} :
          /\ act[a] = [pc |-> "admit", task |-> r.task, req |-> r.req, snap |-> s]
          /\ \/ /\ Append(r)
                /\ remote' = [remote EXCEPT ![r] = "sent"]
                /\ Await(a, [pc |-> "post", rec |-> r])
             \/ Return(a) /\ UNCHANGED <<rec, remote>>
    BY <1>6 DEF DispatchAction
  <2>2. Sem[r.req] = "action" /\ reconciled
    BY <2>1, LetIn DEF LedgerInv, Expects
  <2> QED BY <2>1, <2>2, NewIntent, LedgerEnds
<1>7. CASE Admitted(a)
  BY <1>7, Acknowledged DEF Admitted
<1>8. CASE PostFails(a)
  <2>1. PICK r \in Rec :
          /\ act[a] = [pc |-> "post", rec |-> r]
          /\ \/ Identify(a, r, "unknown")
             \/ /\ rec' = [rec EXCEPT ![r].status = "unknown"]
                /\ Return(a)
                /\ UNCHANGED remote
    BY <1>8 DEF PostFails
  <2>2. CASE Identify(a, r, "unknown")
    BY <2>1, <2>2, Acknowledged
  <2>3. CASE rec' = [rec EXCEPT ![r].status = "unknown"] /\ Return(a) /\ UNCHANGED remote
    <3>1. Sem[r.req] # "query" /\ rec[r].status = "pending" /\ ~rec[r].inv
      BY <2>1 DEF LedgerInv, Expects
    <3>2. /\ rec'[r].status = "unknown" /\ rec'[r].inv = rec[r].inv
          /\ \A y \in Rec : y # r => rec'[y] = rec[y]
      BY <2>3, StatusClaimed
    <3>3. Written(a, r)
      BY <2>1, <3>1, <3>2 DEF Written, Stored, LedgerInv, Apart, AwaitsAnswer
    <3> QED BY <2>3, <3>1, <3>2, <3>3, GivenUp, LedgerReturns
  <2> QED BY <2>1, <2>2, <2>3
<1>9. CASE FinishQuery(a)
  <2>1. PICK r \in Rec, s \in {"succeeded", "unknown"} :
          act[a] = [pc |-> "query", rec |-> r] /\ rec' = [rec EXCEPT ![r].status = s]
    BY <1>9 DEF FinishQuery
  <2>2. Sem[r.req] = "query" /\ rec[r].status = "pending"
    BY <2>1 DEF LedgerInv, Expects
  <2>3. /\ Claims' = [Claims EXCEPT ![r] = s] /\ Named' = Named
        /\ rec'[r].status = s /\ rec'[r].inv = rec[r].inv
        /\ \A y \in Rec : y # r => rec'[y] = rec[y]
    BY <2>1, StatusClaimed
  <2>4. Written(a, r)
    BY <2>1, <2>2, <2>3 DEF Written, Stored, LedgerInv, Apart, AwaitsAnswer
  <2>5. Claims[r] = "pending"
    BY <2>2 DEF Claims
  <2>6. Ledger!Answer(r)
    BY <1>9, <2>2, <2>3, <2>5 DEF Ledger!Answer, Ledger!Claim, Claims, Named, FinishQuery
  <2> QED BY <1>9, <2>3, <2>4, <2>6, LedgerReturns DEF FinishQuery, LedgerStep, Ledger!Next
<1>10. CASE ApplyObservation(a)
  <2>1. PICK r \in Rec, ph \in Phase :
          act[a] = [pc |-> "observe", rec |-> r, phase |-> ph] /\ Observe(r, ph)
    BY <1>10 DEF ApplyObservation
  <2>2. (ph \in Settled => remote[r] = ph) /\ rec[r].inv
    BY <2>1 DEF FactsInv, Justified, LedgerInv, Expects
  <2> QED BY <1>10, <2>1, <2>2, ObservedClaim, LedgerReturns DEF ApplyObservation, Phase
<1> QED
  BY <1>1, <1>2, <1>3, <1>4, <1>5, <1>6, <1>7, <1>8, <1>9, <1>10 DEF ToolCall

(* The recovery goes on to another of its records. *)
LEMMA Recovers ==
  ASSUME TypeInv, LedgerInv, NEW a \in Actor, NEW w,
         act[a].pc \in {"reconcile", "reread"}, w.pc \in {"reconcile", "reread"},
         w.todo \subseteq act[a].todo, Await(a, w), w.pc = "reread" => rec'[w.rec].inv,
         \A r \in Rec : rec'[r] = rec[r] \/ Written(a, r)
  PROVE  LedgerInv'
<1>1. act[a].todo \subseteq Rec
  BY ReconcileRow, RereadRow DEF TypeInv, TypeOK
<1>2. Expects(act[a])
  BY DEF LedgerInv
<1>3. Expects(w)'
  BY <1>1, <1>2 DEF Expects, Written
<1>4. \A b \in Actor \ {a} : Apart(w, act[b])
  BY DEF LedgerInv, Apart, AwaitsAnswer, MayRecover
<1> QED BY <1>3, <1>4, LedgerMoves DEF Await, Recovering

LEMMA ReconcileLedger ==
  ASSUME TypeInv, FactsInv, LedgerInv, NEW a \in Actor, Reconcile(a)
  PROVE  LedgerInv' /\ LedgerStep
<1>1. CASE StartReconcile(a)
  <2>1. PICK d \in SUBSET {r \in Rec : Sem[r.req] # "query" /\ rec[r].status # "absent"} :
          Await(a, [pc |-> "reconcile", todo |-> d])
    BY <1>1 DEF StartReconcile, RecordsOf
  <2> DEFINE w == [pc |-> "reconcile", todo |-> d]
  <2>2. UNCHANGED <<rec, remote>> /\ \A b \in Actor : act[b].pc # "post"
    BY <1>1 DEF StartReconcile, store, LedgerInv, Recovering
  <2>3. Expects(w)' /\ \A b \in Actor : Apart(w, act[b])
    BY <2>1, <2>2 DEF Expects, Apart, AwaitsAnswer, MayRecover
  <2> QED BY <2>1, <2>2, <2>3, LedgerMoves, LedgerRests DEF Await, Recovering
<1>2. CASE NothingToReconcile(a)
  <2>1. UNCHANGED <<rec, remote, act>> /\ reconciled'
    BY <1>2 DEF NothingToReconcile, store
  <2> QED BY <2>1, LedgerRests DEF LedgerInv, Expects, Apart, AwaitsAnswer, MayRecover, Stored
<1>3. CASE ReconcileIntent(a)
  <2>1. PICK r \in act[a].todo :
          /\ ~rec[r].inv
          /\ rec' = [rec EXCEPT ![r].status = "unknown"]
          /\ Await(a, [pc |-> "reconcile", todo |-> act[a].todo \ {r}])
    BY <1>3 DEF ReconcileIntent
  <2>2. r \in Rec
    BY <1>3, <2>1, ReconcileRow DEF ReconcileIntent, TypeInv, TypeOK
  <2>3. Sem[r.req] # "query" /\ rec[r].status # "absent"
    BY <1>3, <2>1 DEF ReconcileIntent, LedgerInv, Expects
  <2>4. \A b \in Actor \ {a} : ~AwaitsAnswer(act[b], r)
    <3> SUFFICES ASSUME NEW b \in Actor \ {a}, AwaitsAnswer(act[b], r) PROVE FALSE
      OBVIOUS
    <3>1. act[b].pc = "post" /\ act[b].rec = r
      BY <2>3 DEF AwaitsAnswer, LedgerInv, Expects
    <3>2. Apart(act[b], act[a])
      BY DEF LedgerInv
    <3> QED BY <1>3, <2>1, <3>1, <3>2 DEF ReconcileIntent, Apart, MayRecover
  <2>5. /\ rec'[r].status = "unknown" /\ rec'[r].inv = rec[r].inv
        /\ \A y \in Rec : y # r => rec'[y] = rec[y]
    BY <2>1, <2>2, StatusClaimed
  <2>6. Written(a, r)
    BY <2>3, <2>4, <2>5 DEF Written, Stored
  <2>7. LedgerInv'
    BY <1>3, <2>1, <2>5, <2>6, Recovers DEF ReconcileIntent
  <2> QED BY <1>3, <2>1, <2>2, <2>3, <2>7, GivenUp DEF ReconcileIntent
<1>4. CASE ReconcileRead(a)
  <2>1. PICK r \in act[a].todo :
          /\ rec[r].inv
          /\ \E ph : Await(a, [pc |-> "reread", todo |-> act[a].todo \ {r}, rec |-> r, phase |-> ph])
    BY <1>4 DEF ReconcileRead
  <2>2. UNCHANGED <<rec, remote>>
    BY <1>4 DEF ReconcileRead, store
  <2>3. LedgerInv'
    BY <1>4, <2>1, <2>2, Recovers DEF ReconcileRead
  <2> QED BY <2>2, <2>3, LedgerRests
<1>5. CASE ReconcileApply(a)
  <2>1. PICK r \in Rec, ph \in Phase \cup {"error"} : act[a].rec = r /\ act[a].phase = ph
    BY <1>5, RereadRow DEF ReconcileApply, TypeInv, TypeOK
  <2>2. (ph \in Settled => remote[r] = ph) /\ rec[r].inv
    BY <1>5, <2>1 DEF ReconcileApply, FactsInv, Justified, LedgerInv, Expects
  <2>3. UNCHANGED remote
    BY <1>5 DEF ReconcileApply
  <2>4. CASE ph = "error"
    <3>1. rec' = [rec EXCEPT ![r].status = "unknown"]
      BY <1>5, <2>1, <2>4 DEF ReconcileApply
    <3>2. LedgerStep
      BY <2>1, <2>2, <2>3, <3>1, ReadBack
    <3>3. /\ rec'[r].status = "unknown" /\ rec'[r].inv = rec[r].inv
          /\ \A y \in Rec : y # r => rec'[y] = rec[y]
      BY <2>1, <3>1, StatusClaimed
    <3>4. Sem[r.req] # "query" /\ \A b \in Actor : ~AwaitsAnswer(act[b], r)
      BY <2>1, <2>2 DEF LedgerInv, Stored, Expects, AwaitsAnswer
    <3>5. Stored(r)'
      BY <2>2, <3>3, <3>4 DEF Stored
    <3>6. Written(a, r)
      BY <2>2, <3>3, <3>4, <3>5 DEF Written
    <3> QED BY <1>5, <2>1, <2>2, <3>2, <3>3, <3>6, Recovers DEF ReconcileApply
  <2>5. CASE ph # "error"
    <3>1. LedgerStep /\ \A x \in Rec : rec'[x] = rec[x] \/ Written(a, x)
      BY <1>5, <2>1, <2>2, <2>3, <2>5, ObservedClaim DEF ReconcileApply
    <3> QED BY <1>5, <2>1, <2>2, <3>1, Recovers DEF ReconcileApply
  <2> QED BY <2>4, <2>5
<1>6. CASE FinishReconcile(a)
  <2>1. /\ UNCHANGED <<rec, remote>> /\ reconciled'
        /\ act'[a] = Idle /\ \A b \in Actor \ {a} : act'[b] = act[b]
    BY <1>6 DEF FinishReconcile, store, TypeInv, TypeOK
  <2>2. \A b \in Actor : act'[b] = Idle \/ act'[b] = act[b]
    BY <2>1
  <2>3. \A b \in Actor : Expects(act[b])'
    BY <2>1, <2>2 DEF LedgerInv, Expects, Idle
  <2>4. \A b, c \in Actor : b # c => Apart(act[b], act[c])'
    BY <2>2 DEF LedgerInv, Apart, AwaitsAnswer, MayRecover, Idle
  <2> QED BY <2>1, <2>3, <2>4, LedgerRests DEF LedgerInv, Stored
<1> QED BY <1>1, <1>2, <1>3, <1>4, <1>5, <1>6 DEF Reconcile

LEMMA GatewayLedger ==
  ASSUME TypeInv, LedgerInv, Gateway
  PROVE  LedgerInv' /\ LedgerStep
<1>1. PICK r \in Rec : GatewayAdmits(r) \/ GatewaySettles(r)
  BY DEF Gateway
<1>2. UNCHANGED <<rec, act, reconciled>>
  BY <1>1 DEF GatewayAdmits, GatewaySettles, store, proc
<1>3. LedgerInv'
  BY <1>2 DEF LedgerInv, Expects, Apart, AwaitsAnswer, MayRecover, Stored
<1>4. CASE GatewayAdmits(r)
  <2>1. Ledger!Admit(r)
    BY <1>2, <1>4 DEF GatewayAdmits, Ledger!Admit
  <2> QED BY <1>3, <2>1 DEF LedgerStep, Ledger!Next
<1>5. CASE GatewaySettles(r)
  <2>1. PICK s \in Ledger!Definite : remote' = [remote EXCEPT ![r] = s]
    BY <1>5 DEF GatewaySettles, Ledger!Definite
  <2>2. Ledger!Settle(r)
    BY <1>2, <1>5, <2>1 DEF GatewaySettles, Ledger!Settle
  <2> QED BY <1>3, <2>2 DEF LedgerStep, Ledger!Next
<1> QED BY <1>1, <1>4, <1>5

LEMMA LedgerKept == TypeInv /\ FactsInv /\ LedgerInv /\ [Next]_vars => LedgerInv' /\ LedgerStep
<1> SUFFICES ASSUME TypeInv, FactsInv, LedgerInv, [Next]_vars PROVE LedgerInv' /\ LedgerStep
  OBVIOUS
<1>1. ASSUME NEW a \in Actor, TaskCall(a) PROVE LedgerInv' /\ LedgerStep
  BY <1>1, TaskCallLedger
<1>2. ASSUME NEW a \in Actor, ToolCall(a) PROVE LedgerInv' /\ LedgerStep
  BY <1>2, ToolCallLedger
<1>3. ASSUME NEW a \in Actor, Reconcile(a) PROVE LedgerInv' /\ LedgerStep
  BY <1>3, ReconcileLedger
<1>4. ASSUME NEW a \in Actor, Abandon(a) \/ Interrupt(a) PROVE LedgerInv' /\ LedgerStep
  BY <1>4, LedgerEnds DEF Abandon, Interrupt, store
<1>5. CASE Gateway
  BY <1>5, GatewayLedger
<1>6. CASE Crash
  <2>1. \A r \in Rec : Stored(r)'
    BY <1>6 DEF Crash, store, LedgerInv, Stored
  <2> QED BY <1>6, <2>1, LedgerDies, LedgerRests DEF Crash, store
<1>7. CASE UNCHANGED vars
  <2>1. UNCHANGED <<rec, remote, act, reconciled>>
    BY <1>7 DEF vars
  <2> QED BY <2>1, LedgerRests DEF LedgerInv, Expects, Apart, AwaitsAnswer, MayRecover, Stored
<1> QED BY <1>1, <1>2, <1>3, <1>4, <1>5, <1>6, <1>7 DEF Next

(* The coordinator implements ToolLedger for any number of turns, lost      *)
(* answers, interrupts, crashes and torn writes: each intent has one POST,  *)
(* whose answer start_action stores at most once and never over anything    *)
(* else, and what observe_action and the recovery store is what the Gateway *)
(* said of an invocation whose id is on record.                             *)
THEOREM LedgerImplemented == Spec => ImplementsLedger
<1>1. Init => Ledger!Init
  BY DEF Init, Ledger!Init, NoRec
<1>2. Init => LedgerInv
  BY DEF Init, LedgerInv, NoRec, Idle, Expects, Apart, AwaitsAnswer, MayRecover, Stored, Recovering
<1>3. TypeInv /\ FactsInv /\ LedgerInv /\ [Next]_vars => LedgerInv' /\ [Ledger!Next]_(Ledger!vars)
  BY LedgerKept DEF LedgerStep
<1> QED BY <1>1, <1>2, <1>3, FactsInvariant, PTL DEF Spec, ImplementsLedger, Ledger!Spec

-----------------------------------------------------------------------------
(* Recovery.  While the store is not reconciled nothing but recovery runs,  *)
(* and every coroutine in it still has to do all that is adrift.            *)

Stray == {r \in Rec : task[r.task].status \in ActiveTask /\ Adrift(r)}

Remembers(w) == w.pc \in {"reconcile", "reread"} => Stray \subseteq w.todo

RecoverInv == ~reconciled /\ OneActive => \A a \in Actor : Remembers(act[a])

(* No coroutine is in a call before the store is reconciled. *)
LEMMA NoCallYet ==
  ASSUME LedgerInv, ~reconciled, NEW a \in Actor
  PROVE  ~TaskCall(a) /\ ~ToolCall(a)
<1>1. act[a].pc \in Recovering /\ ~Ready(a)
  BY DEF LedgerInv, Ready
<1>2. TaskCall(a) => Ready(a) \/ act[a].pc \in {"cancel", "capture", "verify"}
  <2>1. FinishCancel(a) => act[a].pc = "cancel"
    BY DEF FinishCancel
  <2>2. ASSUME FinishFromFacts(a) \/ StartVerification(a) PROVE act[a].pc = "capture"
    <3>1. PICK t : act[a] = [pc |-> "capture", task |-> t]
      BY <2>2, Zenon DEF FinishFromFacts, StartVerification
    <3> QED BY <3>1
  <2>3. ASSUME VerificationError(a) PROVE act[a].pc \in {"capture", "verify"}
    <3>1. PICK t : \/ act[a] = [pc |-> "verify", task |-> t]
                   \/ act[a] = [pc |-> "capture", task |-> t]
      BY <2>3, Zenon DEF VerificationError
    <3> QED BY <3>1
  <2>4. \A v : ApplyVerdict(a, v) => act[a].pc = "verify"
    BY DEF ApplyVerdict
  <2>5. \A t : \/ \E m \in Modes : CreateTask(a, t, m)
              \/ BeginRevision(a, t) \/ RequestCancel(a, t) \/ RequestFinalize(a, t)
              => Ready(a)
    BY DEF CreateTask, BeginRevision, RequestCancel, RequestFinalize
  <2> QED BY <2>1, <2>2, <2>3, <2>4, <2>5 DEF TaskCall
<1>3. ToolCall(a) => Ready(a) \/ act[a].pc \in {"admit", "post", "query", "observe"}
  <2>1. ASSUME TakeSnapshot(a) PROVE act[a].pc = "admit"
    <3>1. PICK t, q : act[a] = [pc |-> "admit", task |-> t, req |-> q, snap |-> "wanted"]
      BY <2>1, Zenon DEF TakeSnapshot
    <3> QED BY <3>1
  <2>2. ASSUME DispatchAction(a) PROVE act[a].pc = "admit"
    <3>1. PICK r, s : act[a] = [pc |-> "admit", task |-> r.task, req |-> r.req, snap |-> s]
      BY <2>2, Zenon DEF DispatchAction
    <3> QED BY <3>1
  <2>3. ASSUME Admitted(a) \/ PostFails(a) PROVE act[a].pc = "post"
    <3>1. PICK r : act[a] = [pc |-> "post", rec |-> r]
      BY <2>3, Zenon DEF Admitted, PostFails
    <3> QED BY <3>1
  <2>4. FinishQuery(a) => act[a].pc = "query"
    BY DEF FinishQuery
  <2>5. ApplyObservation(a) => act[a].pc = "observe"
    BY DEF ApplyObservation
  <2>6. \A r : StartQuery(a, r) \/ StartSession(a, r) \/ ReadInvocation(a, r) => Ready(a)
    BY DEF StartQuery, StartSession, ReadInvocation
  <2>7. \A t, q : CheckAction(a, t, q) => Ready(a)
    BY DEF CheckAction
  <2> QED BY <2>1, <2>2, <2>3, <2>4, <2>5, <2>6, <2>7 DEF ToolCall
<1> QED BY <1>1, <1>2, <1>3 DEF Recovering

(* Recovery writes only records it resolves, and forgets only those. *)
LEMMA ReconcileRemembers ==
  ASSUME TypeInv, LedgerInv, RecoverInv, OneActive, ~reconciled, NEW a \in Actor, Reconcile(a),
         ~reconciled'
  PROVE  \A b \in Actor : Remembers(act[b])'
<1>1. \A b \in Actor : Remembers(act[b])
  BY DEF RecoverInv
<1>2. UNCHANGED task
  BY DEF Reconcile, StartReconcile, NothingToReconcile, ReconcileIntent, ReconcileRead,
         ReconcileApply, FinishReconcile, store
<1>3. ASSUME NEW w, act' = [act EXCEPT ![a] = w], Stray' \subseteq Stray,
             w.pc \in {"reconcile", "reread"} => Stray' \subseteq w.todo
      PROVE  \A b \in Actor : Remembers(act[b])'
  <2> SUFFICES ASSUME NEW b \in Actor PROVE Remembers(act[b])'
    OBVIOUS
  <2>1. act'[b] = IF b = a THEN w ELSE act[b]
    BY <1>3 DEF TypeInv, TypeOK
  <2> QED BY <1>1, <1>3, <2>1 DEF Remembers
<1>4. CASE StartReconcile(a)
  <2>1. PICK t \in TaskId :
          /\ task[t].status \in ActiveTask
          /\ Await(a, [pc |-> "reconcile", todo |->
               {r \in RecordsOf(t) : Sem[r.req] # "query" /\ rec[r].status \notin TerminalTool}])
    BY <1>4 DEF StartReconcile
  <2> DEFINE d == {r \in RecordsOf(t) : Sem[r.req] # "query" /\ rec[r].status \notin TerminalTool}
  <2>2. Stray' = Stray
    BY <1>4 DEF StartReconcile, store, Stray, Adrift
  <2>3. ASSUME NEW r \in Stray PROVE r \in d
    <3>1. r.task = t
      BY <2>1, <2>3 DEF Stray, OneActive, Rec
    <3> QED BY <2>3, <3>1 DEF Stray, Adrift, RecordsOf, TerminalTool
  <2>4. act' = [act EXCEPT ![a] = [pc |-> "reconcile", todo |-> d]]
    BY <2>1 DEF Await
  <2> HIDE DEF d
  <2> QED BY <1>3, <2>2, <2>3, <2>4
<1>5. CASE ReconcileIntent(a)
  <2>1. PICK r \in act[a].todo : /\ rec' = [rec EXCEPT ![r].status = "unknown"]
                                 /\ Await(a, [pc |-> "reconcile", todo |-> act[a].todo \ {r}])
    BY <1>5 DEF ReconcileIntent
  <2>2. r \in Rec
    BY <1>5, <2>1, ReconcileRow DEF ReconcileIntent, TypeInv, TypeOK
  <2>3. rec'[r].status = "unknown" /\ \A y \in Rec : y # r => rec'[y] = rec[y]
    BY <2>1, <2>2, StatusClaimed
  <2>4. Stray' \subseteq Stray \ {r}
    BY <1>2, <2>3 DEF Stray, Adrift
  <2>5. Stray \subseteq act[a].todo
    BY <1>1, <1>5 DEF ReconcileIntent, Remembers
  <2> QED BY <1>3, <2>1, <2>4, <2>5 DEF Await
<1>6. CASE ReconcileRead(a)
  <2>1. PICK r, ph :
          /\ r \in act[a].todo /\ rec[r].inv
          /\ Await(a, [pc |-> "reread", todo |-> act[a].todo \ {r}, rec |-> r, phase |-> ph])
    BY <1>6 DEF ReconcileRead
  <2>2. Stray' = Stray
    BY <1>6 DEF ReconcileRead, store, Stray, Adrift
  <2>3. Stray \subseteq act[a].todo \ {r}
    BY <1>1, <1>6, <2>1 DEF ReconcileRead, Remembers, Stray, Adrift
  <2> QED BY <1>3, <2>1, <2>2, <2>3 DEF Await
<1>7. CASE ReconcileApply(a)
  <2>1. act[a].rec \in Rec /\ rec[act[a].rec].inv /\ Stray \subseteq act[a].todo
    BY <1>1, <1>7, RereadRow DEF ReconcileApply, TypeInv, TypeOK, LedgerInv, Expects, Remembers
  <2>2. /\ rec'[act[a].rec].inv
        /\ \A y \in Rec : y # act[a].rec => rec'[y] = rec[y]
    BY <1>7, <2>1 DEF ReconcileApply, Observe, TypeInv, TypeOK, RecRow
  <2>3. Stray' \subseteq Stray
    BY <1>2, <2>1, <2>2 DEF Stray, Adrift
  <2> QED BY <1>3, <1>7, <2>1, <2>3 DEF ReconcileApply, Await
<1>8. CASE NothingToReconcile(a) \/ FinishReconcile(a)
  BY <1>8 DEF NothingToReconcile, FinishReconcile
<1> QED BY <1>4, <1>5, <1>6, <1>7, <1>8 DEF Reconcile

(* Only a process that dies takes the flag back; nobody recovers then. *)
LEMMA FlagLost ==
  ASSUME reconciled, ~reconciled', [Next]_vars
  PROVE  \A a \in Actor : act'[a] = Idle
<1>1. Die => \A a \in Actor : act'[a] = Idle
  BY DEF Die
<1>2. ASSUME NEW a \in Actor, TaskCall(a) PROVE Die
  BY <1>2 DEF TaskCall, CreateTask, BeginRevision, RequestCancel, RequestFinalize, FinishCancel,
         FinishFromFacts, StartVerification, VerificationError, ApplyVerdict, ApplyCancel,
         Commit, Torn, Return, Await
<1>3. ASSUME NEW a \in Actor, ToolCall(a) PROVE Die
  BY <1>3 DEF ToolCall, StartQuery, StartSession, ReadInvocation, CheckAction, TakeSnapshot,
         DispatchAction, Admitted, PostFails, FinishQuery, ApplyObservation, Identify,
         Torn, Return, Await
<1>4. ASSUME NEW a \in Actor, Reconcile(a) \/ Abandon(a) \/ Interrupt(a) PROVE FALSE
  BY <1>4 DEF Reconcile, StartReconcile, NothingToReconcile, ReconcileIntent, ReconcileRead,
         ReconcileApply, FinishReconcile, Abandon, Interrupt, Return, Await
<1>5. CASE Gateway \/ UNCHANGED vars
  BY <1>5 DEF Gateway, GatewayAdmits, GatewaySettles, proc, vars
<1> QED BY <1>1, <1>2, <1>3, <1>4, <1>5 DEF Next, Crash

LEMMA RecoverKept ==
  TypeInv /\ LedgerInv /\ RecoverInv /\ [Next]_vars => RecoverInv'
<1> SUFFICES ASSUME TypeInv, LedgerInv, RecoverInv, [Next]_vars, ~reconciled', OneActive'
             PROVE  \A b \in Actor : Remembers(act[b])'
  BY DEF RecoverInv
<1>1. CASE reconciled
  BY <1>1, FlagLost DEF Remembers, Idle
<1>2. CASE ~reconciled
  <2>1. \A a \in Actor : ~TaskCall(a) /\ ~ToolCall(a)
    BY <1>2, NoCallYet
  <2>2. CASE Crash
    BY <2>2 DEF Crash, Die, Remembers, Idle
  <2>3. ASSUME NEW a \in Actor, Reconcile(a)
        PROVE  \A b \in Actor : Remembers(act[b])'
    <3>1. UNCHANGED task
      BY <2>3 DEF Reconcile, StartReconcile, NothingToReconcile, ReconcileIntent, ReconcileRead,
             ReconcileApply, FinishReconcile, store
    <3> QED BY <1>2, <2>3, <3>1, ReconcileRemembers DEF OneActive
  <2>4. CASE UNCHANGED store /\ \A b \in Actor : act'[b] = act[b] \/ act'[b] = Idle
    <3>1. Stray' = Stray /\ OneActive
      BY <2>4 DEF store, Stray, Adrift, OneActive
    <3> QED BY <1>2, <2>4, <3>1 DEF RecoverInv, Remembers, Idle
  <2>5. ASSUME NEW a \in Actor, Abandon(a) \/ Interrupt(a)
        PROVE  UNCHANGED store /\ \A b \in Actor : act'[b] = act[b] \/ act'[b] = Idle
    BY <2>5 DEF Abandon, Interrupt, Return, Await, TypeInv, TypeOK
  <2>6. CASE Gateway \/ UNCHANGED vars
    BY <2>4, <2>6 DEF Gateway, GatewayAdmits, GatewaySettles, store, proc, vars
  <2> QED BY <2>1, <2>2, <2>3, <2>4, <2>5, <2>6 DEF Next
<1> QED BY <1>1, <1>2

(* For any number of first turns that reconcile side by side, fail half way *)
(* or are interrupted, after any crashes and interrupted POSTs: when        *)
(* _forge_reconciled is set, every intent of the one active task has its    *)
(* outcome or an identity to ask the Gateway for.                           *)
THEOREM RecoveryIsComplete == Spec => RecoveryComplete
<1>1. Init => LedgerInv /\ RecoverInv
  BY DEF Init, LedgerInv, RecoverInv, Remembers, NoRec, Idle, Expects, Apart, AwaitsAnswer,
         MayRecover, Stored, Recovering
<1>2. TypeInv /\ LedgerInv /\ RecoverInv /\ [Next]_vars /\ ~reconciled /\ reconciled' =>
        \/ \A r \in Rec : task[r.task].status \in ActiveTask => ~Adrift(r)
        \/ ~OneActive
  <2> SUFFICES ASSUME TypeInv, LedgerInv, RecoverInv, [Next]_vars, ~reconciled, reconciled',
                      OneActive
               PROVE  Stray = {}
    BY DEF Stray
  <2>1. \A a \in Actor : ~TaskCall(a) /\ ~ToolCall(a)
    BY NoCallYet
  <2>2. ASSUME NEW a \in Actor, Reconcile(a)
        PROVE  FinishReconcile(a) \/ NothingToReconcile(a)
    BY <2>2 DEF Reconcile, StartReconcile, ReconcileIntent, ReconcileRead, ReconcileApply, Await
  <2>3. ASSUME NEW a \in Actor, FinishReconcile(a) PROVE Stray = {}
    BY <2>3 DEF FinishReconcile, RecoverInv, Remembers
  <2>4. ASSUME NEW a \in Actor, NothingToReconcile(a) PROVE Stray = {}
    BY <2>4 DEF NothingToReconcile, Stray, Rec
  <2>5. ASSUME NEW a \in Actor, Abandon(a) \/ Interrupt(a) PROVE FALSE
    BY <2>5 DEF Abandon, Interrupt, Return, Await
  <2>6. ~Gateway /\ ~Crash /\ ~UNCHANGED vars
    BY DEF Gateway, GatewayAdmits, GatewaySettles, Crash, Die, proc, vars
  <2> QED BY <2>1, <2>2, <2>3, <2>4, <2>5, <2>6 DEF Next
<1>3. TypeInv /\ FactsInv /\ LedgerInv /\ [Next]_vars => LedgerInv'
  BY LedgerKept
<1> QED BY <1>1, <1>2, <1>3, RecoverKept, FactsInvariant, PTL DEF Spec, RecoveryComplete

-----------------------------------------------------------------------------
(* The slot with several turns.  A coroutine in cancel_task or finalize_task *)
(* may make its task non-terminal again; a task is created by a coroutine   *)
(* that carries none, when nothing is non-terminal.  So the tasks that are  *)
(* non-terminal or carried are never more than the coroutines.              *)

InCall == {"cancel", "capture", "verify"}

Active == {t \in TaskId : task[t].status \in ActiveTask}
Carriers == {a \in Actor : act[a].pc \in InCall}
Held == Active \cup {act[a].task : a \in Carriers}

SlotInv == IsFiniteSet(Held) /\ Cardinality(Held) <= Cardinality(Actor)

LEMMA CarriedTasks ==
  ASSUME TypeInv, NEW a \in Carriers
  PROVE  act[a].task \in TaskId /\ act[a].task \in Held
<1>1. act[a] \in ActRow /\ act[a].pc \in InCall
  BY DEF TypeInv, TypeOK, Carriers
<1> QED BY <1>1 DEF ActRow, InCall, Held

(* A step that neither opens a task out of nothing nor takes one up. *)
LEMMA HeldKept ==
  ASSUME IsFiniteSet(Actor), SlotInv,
         \A t \in TaskId : task'[t].status \in ActiveTask => t \in Held,
         \A b \in Actor : act'[b].pc \in InCall => act'[b].task \in Held
  PROVE  SlotInv'
<1>1. Held' \subseteq Held
  BY DEF Held, Active, Carriers
<1>2. IsFiniteSet(Held') /\ Cardinality(Held') <= Cardinality(Held)
  BY <1>1, FS_Subset DEF SlotInv
<1>3. Cardinality(Held) \in Nat /\ Cardinality(Held') \in Nat /\ Cardinality(Actor) \in Nat
  BY <1>2, FS_CardinalityType DEF SlotInv
<1> QED BY <1>2, <1>3 DEF SlotInv

(* One coroutine moves, or all end because the process dies. *)
OneMoves(a) == \A b \in Actor \ {a} : act'[b] = act[b] \/ act'[b] = Idle

LEMMA HeldMoves ==
  ASSUME TypeInv, IsFiniteSet(Actor), SlotInv, NEW a \in Actor, OneMoves(a),
         act'[a].pc \in InCall => act'[a].task \in Held,
         \A t \in TaskId : task'[t].status \in ActiveTask => t \in Held
  PROVE  SlotInv'
<1>1. ASSUME NEW b \in Actor, act'[b].pc \in InCall PROVE act'[b].task \in Held
  <2>1. b = a \/ act'[b] = act[b]
    BY <1>1 DEF OneMoves, Idle, InCall
  <2>2. act'[b] = act[b] => act'[b].task \in Held
    BY <1>1 DEF Held, Carriers
  <2> QED BY <1>1, <2>1, <2>2
<1> QED BY <1>1, HeldKept

LEMMA HeldCommits ==
  ASSUME TypeInv, IsFiniteSet(Actor), SlotInv, NEW a \in Actor, NEW t \in Held, NEW row,
         Commit(a, t, row)
  PROVE  SlotInv'
<1>1. OneMoves(a) /\ act'[a] = Idle
  BY DEF Commit, Return, Await, Torn, Die, OneMoves, TypeInv, TypeOK
<1>2. \A u \in TaskId : task'[u].status \in ActiveTask => u \in Held
  BY DEF Commit, TypeInv, TypeOK, Held, Active
<1> QED BY <1>1, <1>2, HeldMoves DEF Idle, InCall

(* The status of no task changes. *)
LEMMA HeldRests ==
  ASSUME TypeInv, IsFiniteSet(Actor), SlotInv, NEW a \in Actor, OneMoves(a),
         act'[a].pc \in InCall => act'[a].task \in Held,
         \A t \in TaskId : task'[t].status = task[t].status
  PROVE  SlotInv'
BY HeldMoves DEF Held, Active

LEMMA HeldCreated ==
  ASSUME TypeInv, IsFiniteSet(Actor), SlotInv, NEW a \in Actor, NEW t \in TaskId, NEW m,
         CreateTask(a, t, m)
  PROVE  SlotInv'
<1>1. CASE UNCHANGED task
  <2>1. OneMoves(a) /\ act'[a] = Idle
    BY DEF CreateTask, Return, Await, Torn, Die, OneMoves, TypeInv, TypeOK
  <2> QED BY <1>1, <2>1, HeldRests DEF Idle, InCall
<1>2. CASE /\ \A u \in TaskId : task[u].status \notin ActiveTask
           /\ task' = [task EXCEPT ![t] = [NoTask EXCEPT !.status = "executing",
                                                        !.mode = m, !.revs = 1]]
           /\ Return(a)
  <2>1. /\ act[a] = Idle /\ act'[a] = Idle
        /\ \A b \in Actor \ {a} : act'[b] = act[b]
    BY <1>2 DEF CreateTask, Ready, Return, Await, TypeInv, TypeOK
  <2>2. Carriers' = Carriers /\ Carriers \subseteq Actor \ {a}
    BY <2>1 DEF Carriers, Idle, InCall
  <2>3. Active' \subseteq {t}
    BY <1>2 DEF Active, TypeInv, TypeOK
  <2> DEFINE T == {act[b].task : b \in Carriers}
             f == [b \in Carriers |-> act[b].task]
  <2>4. Held' \subseteq T \cup {t}
    BY <2>1, <2>2, <2>3 DEF Held
  <2>5. /\ IsFiniteSet(Carriers) /\ Cardinality(Carriers) <= Cardinality(Actor \ {a})
        /\ IsFiniteSet(Actor \ {a}) /\ Cardinality(Actor \ {a}) = Cardinality(Actor) - 1
    BY <2>2, FS_Subset, FS_RemoveElement
  <2>6. f \in Surjection(Carriers, T)
    BY DEF Surjection
  <2>7. IsFiniteSet(T) /\ Cardinality(T) <= Cardinality(Carriers)
    BY <2>5, <2>6, FS_Surjection
  <2> HIDE DEF T
  <2>8. IsFiniteSet(T \cup {t}) /\ Cardinality(T \cup {t}) <= Cardinality(T) + 1
    <3>1. Cardinality(T) \in Nat
      BY <2>7, FS_CardinalityType
    <3>2. /\ IsFiniteSet(T \cup {t})
          /\ Cardinality(T \cup {t}) = IF t \in T THEN Cardinality(T) ELSE Cardinality(T) + 1
      BY <2>7, FS_AddElement, Zenon
    <3> QED BY <3>1, <3>2
  <2>9. IsFiniteSet(Held') /\ Cardinality(Held') <= Cardinality(T \cup {t})
    BY <2>4, <2>8, FS_Subset
  <2>10. /\ Cardinality(T) \in Nat /\ Cardinality(T \cup {t}) \in Nat
         /\ Cardinality(Carriers) \in Nat /\ Cardinality(Actor) \in Nat
         /\ Cardinality(Held') \in Nat
    BY <2>5, <2>7, <2>8, <2>9, FS_CardinalityType
  <2> QED BY <2>5, <2>7, <2>8, <2>9, <2>10 DEF SlotInv
<1> QED BY <1>1, <1>2 DEF CreateTask

LEMMA TaskCallHeld ==
  ASSUME TypeInv, IsFiniteSet(Actor), SlotInv, NEW a \in Actor, TaskCall(a)
  PROVE  SlotInv'
<1>1. ASSUME NEW t \in TaskId, NEW m \in Modes, CreateTask(a, t, m)
      PROVE  SlotInv'
  BY <1>1, HeldCreated
<1>2. ASSUME NEW t \in TaskId, BeginRevision(a, t) \/ RequestCancel(a, t) \/ RequestFinalize(a, t)
      PROVE  SlotInv'
  <2>1. t \in Held
    BY <1>2 DEF BeginRevision, RequestCancel, RequestFinalize, Held, Active, ActiveTask
  <2>2. CASE \E row : Commit(a, t, row)
    BY <2>1, <2>2, HeldCommits
  <2>3. CASE UNCHANGED task /\ \E p : Await(a, [pc |-> p, task |-> t])
    <3>1. PICK p : Await(a, [pc |-> p, task |-> t])
      BY <2>3
    <3>2. OneMoves(a) /\ act'[a].task = t
      BY <3>1 DEF Await, OneMoves, TypeInv, TypeOK
    <3> QED BY <2>1, <2>3, <3>2, HeldRests
  <2> QED
    BY <1>2, <2>2, <2>3 DEF BeginRevision, RequestCancel, RequestFinalize, ApplyCancel, store
<1>3. CASE \/ FinishCancel(a) \/ FinishFromFacts(a) \/ VerificationError(a)
           \/ \E v : ApplyVerdict(a, v)
  <2>1. PICK t \in TaskId : /\ act[a] \in {[pc |-> p, task |-> t] : p \in InCall}
                            /\ \E row : Commit(a, t, row)
    BY <1>3
    DEF FinishCancel, FinishFromFacts, VerificationError, ApplyVerdict, ApplyCancel, InCall
  <2>2. a \in Carriers /\ act[a].task = t
    BY <2>1 DEF Carriers, InCall
  <2> QED BY <2>1, <2>2, CarriedTasks, HeldCommits
<1>4. CASE StartVerification(a)
  <2>1. PICK t \in TaskId : /\ act[a] = [pc |-> "capture", task |-> t]
                            /\ Await(a, [pc |-> "verify", task |-> t])
    BY <1>4 DEF StartVerification
  <2>2. a \in Carriers /\ act[a].task = t
    BY <2>1 DEF Carriers, InCall
  <2>3. t \in Held /\ OneMoves(a) /\ act'[a].task = t
    BY <2>1, <2>2, CarriedTasks DEF Await, OneMoves, TypeInv, TypeOK
  <2> QED BY <1>4, <2>3, HeldRests DEF StartVerification, store
<1> QED BY <1>1, <1>2, <1>3, <1>4 DEF TaskCall

LEMMA HeldStep ==
  ASSUME IsFiniteSet(Actor)
  PROVE  TypeInv /\ SlotInv /\ [Next]_vars => SlotInv'
<1> SUFFICES ASSUME TypeInv, SlotInv, [Next]_vars PROVE SlotInv'
  OBVIOUS
<1>1. ASSUME NEW a \in Actor, TaskCall(a) PROVE SlotInv'
  BY <1>1, TaskCallHeld
<1>2. ASSUME NEW a \in Actor, ToolCall(a) \/ Reconcile(a) \/ Abandon(a) \/ Interrupt(a)
      PROVE  SlotInv'
  <2>1. \A t \in TaskId : task'[t].status = task[t].status
    <3>1. CASE DispatchAction(a)
      <4>1. PICK r \in Rec, s \in {"held", "none", "clean", "late"} :
              task' = IF s = "held" THEN task ELSE [task EXCEPT ![r.task].before = s]
        BY <3>1 DEF DispatchAction
      <4> QED BY <4>1 DEF TypeInv, TypeOK, TaskRow
    <3>2. CASE ~DispatchAction(a)
      <4>1. UNCHANGED task
        BY <1>2, <3>2
        DEF ToolCall, Reconcile, Abandon, Interrupt, StartQuery, StartSession, ReadInvocation,
            CheckAction, TakeSnapshot, Admitted, PostFails, FinishQuery, ApplyObservation,
            Identify, StartReconcile, NothingToReconcile, ReconcileIntent, ReconcileRead,
            ReconcileApply, FinishReconcile, store
      <4> QED BY <4>1
    <3> QED BY <3>1, <3>2
  <2>2. OneMoves(a) /\ act'[a].pc \notin InCall
    <3> USE DEF OneMoves, InCall, Await, Return, Idle, TypeInv, TypeOK
    <3>1. CASE ToolCall(a)
      <4>1. ASSUME NEW r \in Rec, NEW s, Identify(a, r, s)
            PROVE  OneMoves(a) /\ act'[a].pc \notin InCall
        BY <4>1 DEF Identify, Torn, Die
      <4>2. ASSUME NEW r \in Rec, StartQuery(a, r) \/ StartSession(a, r) \/ ReadInvocation(a, r)
            PROVE  OneMoves(a) /\ act'[a].pc \notin InCall
        BY <4>2 DEF StartQuery, StartSession, ReadInvocation
      <4>3. CASE TakeSnapshot(a) \/ \E t \in TaskId, q \in Request : CheckAction(a, t, q)
        BY <4>3 DEF TakeSnapshot, CheckAction
      <4>4. CASE DispatchAction(a)
        BY <4>4 DEF DispatchAction
      <4>5. CASE Admitted(a) \/ PostFails(a) \/ FinishQuery(a) \/ ApplyObservation(a)
        BY <4>1, <4>5 DEF Admitted, PostFails, FinishQuery, ApplyObservation
      <4> QED BY <3>1, <4>2, <4>3, <4>4, <4>5 DEF ToolCall
    <3>2. CASE Reconcile(a)
      BY <3>2
      DEF Reconcile, StartReconcile, NothingToReconcile, ReconcileIntent, ReconcileRead,
          ReconcileApply, FinishReconcile
    <3>3. CASE Abandon(a) \/ Interrupt(a)
      BY <3>3 DEF Abandon, Interrupt
    <3> QED BY <1>2, <3>1, <3>2, <3>3
  <2> QED BY <2>1, <2>2, HeldRests
<1>3. CASE Gateway \/ Crash \/ UNCHANGED vars
  <2>1. UNCHANGED task /\ (UNCHANGED act \/ \A b \in Actor : act'[b] = Idle)
    BY <1>3 DEF Gateway, GatewayAdmits, GatewaySettles, Crash, Die, store, proc, vars
  <2>2. \A b \in Actor : act'[b].pc \in InCall => act'[b].task \in Held
    BY <2>1 DEF Idle, InCall, Held, Carriers
  <2> QED BY <2>1, <2>2, HeldKept DEF Held, Active
<1> QED BY <1>1, <1>2, <1>3 DEF Next

(* However many turns overlap, crash or are interrupted, the store never    *)
(* holds more non-terminal tasks than there are coroutines in the Agent:    *)
(* cancel_task may reopen a task whose slot AgentTaskStore.create has given *)
(* away, but only the one task it was called for.                           *)
THEOREM SlotBounded ==
  ASSUME IsFiniteSet(Actor)
  PROVE  Spec => []ActiveBounded
<1>1. Init => SlotInv
  <2> SUFFICES ASSUME Init PROVE SlotInv
    OBVIOUS
  <2>1. Held = {}
    BY DEF Init, Held, Active, Carriers, NoTask, Idle, InCall, ActiveTask
  <2> QED BY <2>1, FS_EmptySet, FS_CardinalityType DEF SlotInv
<1>2. SlotInv => ActiveBounded
  <2> SUFFICES ASSUME SlotInv PROVE ActiveBounded
    OBVIOUS
  <2>1. Active \subseteq Held
    BY DEF Held
  <2>2. /\ IsFiniteSet(Active) /\ Cardinality(Active) <= Cardinality(Held)
        /\ Cardinality(Active) \in Nat /\ Cardinality(Held) \in Nat /\ Cardinality(Actor) \in Nat
    BY <2>1, FS_Subset, FS_CardinalityType DEF SlotInv
  <2> QED BY <2>2 DEF SlotInv, ActiveBounded, Active
<1> QED BY <1>1, <1>2, HeldStep, TypeInvariant, PTL DEF Spec

-----------------------------------------------------------------------------
(* One coroutine at a time.  First the task, then its records: unknown      *)
(* outcomes, closing, sending, and intents that recovery has to find.      *)

(* What one stored task satisfies, and what a coroutine that awaits in      *)
(* cancel_task or finalize_task still knows of its task when it resumes.    *)
RowInv(row) ==
  /\ row.cancelReq => row.status \in {"cancelling", "cancelled", "failed"}
  /\ row.status = "cancelling" => row.cancelReq
  /\ row.status = "absent" <=> row.revs = 0

CarryInv(w) ==
  /\ w.pc \in {"cancel", "capture", "verify"} => task[w.task].status \in ActiveTask
  /\ w.pc = "verify" => ~task[w.task].cancelReq

TurnInv ==
  /\ OneActive
  /\ BindingHeld
  /\ \A t \in TaskId : RowInv(task[t])
  /\ \A a \in Actor : CarryInv(act[a])

(* What the other actions keep of a task. *)
SameTasks ==
  \A t \in TaskId : /\ task'[t].status = task[t].status
                    /\ task'[t].cancelReq = task[t].cancelReq
                    /\ task'[t].revs = task[t].revs

LEMMA QuietTurn ==
  ASSUME TypeInv, TypeInv', TurnInv, SameTasks, bound \subseteq bound',
         \A a \in Actor : act'[a] = act[a] \/ CarryInv(act'[a])
  PROVE  TurnInv'
<1>1. OneActive' /\ BindingHeld'
  BY DEF TurnInv, OneActive, BindingHeld, SameTasks
<1>2. ASSUME NEW t \in TaskId
      PROVE  RowInv(task'[t])
  BY DEF TurnInv, RowInv, SameTasks
<1>3. ASSUME NEW a \in Actor
      PROVE  CarryInv(act[a])'
  <2>1. CarryInv(act'[a])
    BY DEF TurnInv
  <2>2. act'[a].pc \in {"cancel", "capture", "verify"} => act'[a].task \in TaskId
    <3>1. act'[a] \in ActRow
      BY DEF TypeInv, TypeOK
    <3> QED BY <3>1 DEF ActRow
  <2> QED BY <2>1, <2>2 DEF CarryInv, SameTasks
<1> QED BY <1>1, <1>2, <1>3 DEF TurnInv, RowInv

(* A task that occupied the slot moves on, and its turn is over. *)
LEMMA CommitTurn ==
  ASSUME TypeInv, TurnInv, NEW self, Actor = {self}, NEW t \in TaskId,
         NEW row \in TaskRow, task[t].status \in ActiveTask, RowInv(row),
         row.status # "absent", Commit(self, t, row)
  PROVE  TurnInv'
<1>1. \A u \in TaskId : task'[u] = IF u = t THEN row ELSE task[u]
  BY DEF Commit, TypeInv, TypeOK
<1>2. OneActive'
  BY <1>1 DEF TurnInv, OneActive
<1>3. BindingHeld'
  <2>1. row.status \notin TerminalTask => bound' = bound
    BY DEF Commit, Released
  <2>2. \A u \in TaskId : u # t => (u \in bound => u \in bound')
    BY DEF Commit, Released
  <2>3. row.status \in ActiveTask => row.status \notin TerminalTask
    BY DEF ActiveTask, TerminalTask
  <2> QED BY <1>1, <2>1, <2>2, <2>3 DEF TurnInv, BindingHeld
<1>4. \A a \in Actor : act'[a] = Idle
  BY DEF Commit, Return, Await, Torn, Die, TypeInv, TypeOK
<1>5. \A a \in Actor : CarryInv(act[a])'
  BY <1>4 DEF CarryInv, Idle
<1> QED BY <1>1, <1>2, <1>3, <1>5 DEF TurnInv, RowInv

-----------------------------------------------------------------------------
(* Every task call is quiet, opens a task, or moves one along the lifecycle. *)

Legal(old, new) ==
  \/ new.status = old.status /\ new.revs = old.revs
  \/ /\ old.status = "executing" /\ new.status = "awaiting_replan"
     /\ new.revs = old.revs /\ old.revs - 1 < MaxReplans
  \/ /\ old.status = "awaiting_replan" /\ new.status = "executing"
     /\ new.revs = old.revs + 1 /\ old.revs - 1 < MaxReplans
  \/ new.status = "cancelling" /\ new.revs = old.revs
  \/ /\ new.status \in TerminalTask /\ new.revs = old.revs
     /\ old.status = "cancelling" => new.status # "succeeded"

Moves(self) ==
  \E t \in TaskId, row \in TaskRow :
    /\ task[t].status \in ActiveTask
    /\ RowInv(row) /\ row.status # "absent"
    /\ Legal(task[t], row)
    /\ Commit(self, t, row)

Quiet ==
  /\ SameTasks
  /\ bound \subseteq bound'
  /\ \A a \in Actor : act'[a] = act[a] \/ CarryInv(act'[a])

(* Writing a status that is not "absent". *)
LEMMA StatusMoves ==
  ASSUME TypeInv, TurnInv, NEW self \in Actor, NEW t \in TaskId,
         task[t].status \in ActiveTask,
         NEW s \in TerminalTask \cup {"awaiting_replan"},
         Commit(self, t, [task[t] EXCEPT !.status = s]),
         task[t].cancelReq => s \in {"cancelled", "failed"},
         s = "awaiting_replan" => task[t].revs <= MaxReplans
  PROVE  Moves(self)
<1> DEFINE row == [task[t] EXCEPT !.status = s]
<1>1. task[t] \in TaskRow /\ RowInv(task[t]) /\ task[t].revs \in Nat
  BY DEF TypeInv, TypeOK, TurnInv, TaskRow
<1>2. /\ row \in TaskRow /\ row.status = s /\ row.revs = task[t].revs
      /\ row.cancelReq = task[t].cancelReq
  BY <1>1 DEF TaskRow, TaskStatus, TerminalTask, ActiveTask
<1>3. RowInv(row) /\ row.status # "absent"
  BY <1>1, <1>2 DEF RowInv, TerminalTask, ActiveTask
<1>4. Legal(task[t], row)
  <2>1. CASE s = "awaiting_replan"
    BY <2>1, <1>1, <1>2, BoundsAssumption
       DEF Legal, RowInv, ActiveTask, BoundsAssumption
  <2>2. CASE s # "awaiting_replan"
    BY <2>2, <1>1, <1>2 DEF Legal, RowInv, ActiveTask, TerminalTask
  <2> QED BY <2>1, <2>2
<1> QED BY <1>2, <1>3, <1>4 DEF Moves

LEMMA CancelMoves ==
  ASSUME TypeInv, TurnInv, NEW self \in Actor, NEW t \in TaskId, NEW asked \in BOOLEAN,
         task[t].status \in ActiveTask, ApplyCancel(self, t, asked)
  PROVE  Moves(self)
<1> DEFINE s == IF asked \/ \E r \in RecordsOf(t) : Owned(r)
                  THEN "cancelling" ELSE CancelStatus(t)
           row == [task[t] EXCEPT !.cancelReq = TRUE, !.status = s]
<1>1. task[t] \in TaskRow /\ RowInv(task[t])
  BY DEF TypeInv, TypeOK, TurnInv
<1>2. s \in {"cancelling", "cancelled", "failed"}
  BY Outcomes
<1>3. row \in TaskRow /\ row.status = s /\ row.revs = task[t].revs /\ row.cancelReq
  BY <1>1, <1>2 DEF TaskRow, TaskStatus, TerminalTask, ActiveTask
<1>4. RowInv(row) /\ row.status # "absent"
  BY <1>1, <1>2, <1>3 DEF RowInv, ActiveTask
<1>5. Legal(task[t], row)
  BY <1>2, <1>3 DEF Legal, TerminalTask
<1> QED BY <1>3, <1>4, <1>5 DEF Moves, ApplyCancel

LEMMA AwaitQuiet ==
  ASSUME TypeInv, NEW self \in Actor, NEW w, Await(self, w), CarryInv(w),
         UNCHANGED <<task, bound>>
  PROVE  Quiet
BY DEF TypeInv, TypeOK, Await, Quiet, SameTasks

LEMMA IdleQuiet == CarryInv(Idle)
BY DEF CarryInv, Idle

LEMMA TaskCallTurn ==
  ASSUME TypeInv, TurnInv, ReplanAffordable, NEW self \in Actor, TaskCall(self)
  PROVE  \/ Quiet
         \/ Moves(self)
         \/ \E t \in TaskId, m \in Modes : CreateTask(self, t, m)
<1> USE DEF TypeInv, TypeOK
<1>1. ASSUME NEW t \in TaskId, BeginRevision(self, t)
      PROVE  Moves(self)
  <2>1. /\ task[t].status \in ActiveTask /\ task[t] \in TaskRow /\ RowInv(task[t])
        /\ task[t].revs \in Nat /\ ~task[t].cancelReq
    BY <1>1 DEF BeginRevision, ActiveTask, TurnInv, RowInv, TaskRow
  <2>2. CASE Commit(self, t, [task[t] EXCEPT !.status = "failed"])
    BY <2>1, <2>2, StatusMoves DEF TerminalTask
  <2>3. CASE task[t].revs - 1 < MaxReplans
             /\ Commit(self, t, [task[t] EXCEPT !.status = "executing", !.revs = @ + 1])
    <3> DEFINE row == [task[t] EXCEPT !.status = "executing", !.revs = @ + 1]
    <3>1. task[t].revs + 1 \in Nat /\ "executing" \in TaskStatus
      BY <2>1 DEF TaskStatus, ActiveTask
    <3>2. /\ row \in TaskRow /\ row.status = "executing" /\ row.revs = task[t].revs + 1
          /\ row.cancelReq = task[t].cancelReq
      BY <2>1, <3>1 DEF TaskRow
    <3>3. RowInv(row) /\ Legal(task[t], row)
      BY <1>1, <2>1, <2>3, <3>2 DEF RowInv, Legal, BeginRevision
    <3> QED BY <2>1, <2>3, <3>2, <3>3 DEF Moves
  <2> QED BY <1>1, <2>2, <2>3 DEF BeginRevision
<1>2. ASSUME NEW t \in TaskId, RequestCancel(self, t)
      PROVE  Quiet \/ Moves(self)
  <2>1. CarryInv([pc |-> "cancel", task |-> t])
    BY <1>2 DEF RequestCancel, CarryInv
  <2> QED BY <1>2, <2>1, AwaitQuiet, CancelMoves DEF RequestCancel, store, guards
<1>3. ASSUME NEW t \in TaskId, RequestFinalize(self, t)
      PROVE  Quiet
  <2>1. CarryInv([pc |-> "capture", task |-> t])
    BY <1>3 DEF RequestFinalize, CarryInv
  <2> QED BY <1>3, <2>1, AwaitQuiet DEF RequestFinalize, store, guards
<1>4. CASE FinishCancel(self)
  <2>1. PICK t \in TaskId : act[self] = [pc |-> "cancel", task |-> t] /\ ApplyCancel(self, t, TRUE)
    BY <1>4 DEF FinishCancel
  <2>2. task[t].status \in ActiveTask
    BY <2>1 DEF TurnInv, CarryInv
  <2> QED BY <2>1, <2>2, CancelMoves
<1>5. CASE FinishFromFacts(self)
  <2>1. PICK t \in TaskId :
          /\ act[self] = [pc |-> "capture", task |-> t]
          /\ Commit(self, t, [task[t] EXCEPT
               !.status = IF task[t].cancelReq THEN CancelStatus(t) ELSE FactsStatus(t)])
    BY <1>5 DEF FinishFromFacts
  <2>2. task[t].status \in ActiveTask
    BY <2>1 DEF TurnInv, CarryInv
  <2> QED BY <2>1, <2>2, Outcomes, StatusMoves DEF TerminalTask
<1>6. CASE StartVerification(self)
  <2>1. PICK t \in TaskId : /\ act[self] = [pc |-> "capture", task |-> t] /\ NeedsVerdict(t)
                            /\ Await(self, [pc |-> "verify", task |-> t])
    BY <1>6 DEF StartVerification
  <2>2. CarryInv([pc |-> "verify", task |-> t])
    BY <2>1 DEF TurnInv, CarryInv, NeedsVerdict
  <2> QED BY <1>6, <2>1, <2>2, AwaitQuiet DEF StartVerification, store, guards
<1>7. CASE VerificationError(self)
  <2>1. PICK t \in TaskId :
          /\ \/ act[self] = [pc |-> "verify", task |-> t]
             \/ act[self] = [pc |-> "capture", task |-> t] /\ NeedsVerdict(t)
          /\ Commit(self, t, [task[t] EXCEPT
               !.status = IF task[t].mode = "audit" THEN FactsStatus(t) ELSE "failed"])
    BY <1>7 DEF VerificationError
  <2>2. task[t].status \in ActiveTask /\ ~task[t].cancelReq
    BY <2>1 DEF TurnInv, CarryInv, NeedsVerdict
  <2> QED BY <2>1, <2>2, Outcomes, StatusMoves DEF TerminalTask
<1>8. ASSUME NEW v, ApplyVerdict(self, v)
      PROVE  Moves(self)
  <2>1. PICK t \in TaskId : /\ act[self] = [pc |-> "verify", task |-> t]
                            /\ Commit(self, t, [task[t] EXCEPT !.status = VerdictStatus(t, v)])
    BY <1>8 DEF ApplyVerdict
  <2>2. task[t].status \in ActiveTask /\ ~task[t].cancelReq /\ task[t].revs \in Nat
    BY <2>1 DEF TurnInv, CarryInv, TaskRow
  <2>3. VerdictStatus(t, v) = "awaiting_replan" => task[t].revs <= MaxReplans
    BY <2>2, Outcomes, BoundsAssumption DEF VerdictStatus, BoundsAssumption
  <2> QED BY <2>1, <2>2, <2>3, Outcomes, StatusMoves DEF TerminalTask
<1> QED
  BY <1>1, <1>2, <1>3, <1>4, <1>5, <1>6, <1>7, <1>8 DEF TaskCall

-----------------------------------------------------------------------------
(* Everything but the task calls is quiet. *)

LEMMA Silent ==
  ASSUME UNCHANGED <<task, bound>>, \A a \in Actor : act'[a] = act[a] \/ CarryInv(act'[a])
  PROVE  Quiet
BY DEF Quiet, SameTasks

LEMMA OtherRows ==
  /\ \A t, q, s : CarryInv([pc |-> "admit", task |-> t, req |-> q, snap |-> s])
  /\ \A r : \A p \in {"query", "post"} : CarryInv([pc |-> p, rec |-> r])
  /\ \A r, ph : CarryInv([pc |-> "observe", rec |-> r, phase |-> ph])
  /\ \A d : CarryInv([pc |-> "reconcile", todo |-> d])
  /\ \A d, r, ph : CarryInv([pc |-> "reread", todo |-> d, rec |-> r, phase |-> ph])
BY DEF CarryInv

LEMMA AwaitOther ==
  ASSUME TypeInv, NEW self \in Actor, NEW w, Await(self, w), CarryInv(w)
  PROVE  \A a \in Actor : act'[a] = act[a] \/ CarryInv(act'[a])
BY DEF TypeInv, TypeOK, Await

LEMMA DieOther ==
  ASSUME Die
  PROVE  \A a \in Actor : act'[a] = act[a] \/ CarryInv(act'[a])
BY IdleQuiet DEF Die

LEMMA ToolCallQuiet ==
  ASSUME TypeInv, NEW self \in Actor, ToolCall(self)
  PROVE  Quiet
<1>1. ASSUME NEW r \in Rec, StartQuery(self, r) \/ StartSession(self, r) \/ ReadInvocation(self, r)
      PROVE  Quiet
  BY <1>1, OtherRows, AwaitOther, Silent
     DEF StartQuery, StartSession, ReadInvocation, store, guards
<1>2. ASSUME NEW t \in TaskId, NEW q \in Request, CheckAction(self, t, q)
      PROVE  Quiet
  BY <1>2, OtherRows, AwaitOther, Silent DEF CheckAction, store, guards
<1>3. CASE TakeSnapshot(self)
  BY <1>3, OtherRows, AwaitOther, Silent DEF TakeSnapshot, store, guards
<1>4. CASE DispatchAction(self)
  <2>1. PICK r \in Rec, s \in {"held", "none", "clean", "late"} :
          /\ task' = IF s = "held" THEN task ELSE [task EXCEPT ![r.task].before = s]
          /\ Await(self, [pc |-> "post", rec |-> r]) \/ Return(self)
    BY <1>4 DEF DispatchAction
  <2>2. SameTasks
    BY <2>1 DEF SameTasks, TypeInv, TypeOK, TaskRow, Rec
  <2>3. \A a \in Actor : act'[a] = act[a] \/ CarryInv(act'[a])
    BY <2>1, OtherRows, IdleQuiet, AwaitOther DEF Return
  <2> QED BY <1>4, <2>2, <2>3 DEF DispatchAction, guards, Quiet
<1>5. CASE Admitted(self) \/ PostFails(self)
  <2>1. \/ Return(self) \/ Die
    BY <1>5 DEF Admitted, PostFails, Identify, Torn
  <2>2. \A a \in Actor : act'[a] = act[a] \/ CarryInv(act'[a])
    BY <2>1, IdleQuiet, AwaitOther, DieOther DEF Return
  <2> QED BY <1>5, <2>2, Silent DEF Admitted, PostFails, Identify, guards
<1>6. CASE FinishQuery(self) \/ ApplyObservation(self)
  BY <1>6, IdleQuiet, AwaitOther, Silent DEF FinishQuery, ApplyObservation, Return, guards
<1> QED BY <1>1, <1>2, <1>3, <1>4, <1>5, <1>6 DEF ToolCall

LEMMA ReconcileQuiet ==
  ASSUME TypeInv, NEW self \in Actor, Reconcile(self)
  PROVE  Quiet
<1>1. CASE StartReconcile(self)
  BY <1>1, OtherRows, AwaitOther DEF StartReconcile, Quiet, SameTasks, store
<1>2. CASE NothingToReconcile(self) \/ FinishReconcile(self)
  BY <1>2, IdleQuiet, Silent
     DEF NothingToReconcile, FinishReconcile, store, guards, TypeInv, TypeOK
<1>3. CASE ReconcileIntent(self) \/ ReconcileApply(self)
  BY <1>3, OtherRows, AwaitOther, Silent DEF ReconcileIntent, ReconcileApply, guards
<1>4. CASE ReconcileRead(self)
  BY <1>4, OtherRows, AwaitOther, Silent DEF ReconcileRead, store
<1> QED BY <1>1, <1>2, <1>3, <1>4 DEF Reconcile

(* Classification of every step of the system. *)
LEMMA NextTurn ==
  ASSUME TypeInv, TurnInv, ReplanAffordable, [Next]_vars
  PROVE  \/ Quiet
         \/ \E a \in Actor : Moves(a)
         \/ \E a \in Actor, t \in TaskId, m \in Modes : CreateTask(a, t, m)
<1>1. ASSUME NEW a \in Actor, TaskCall(a)
      PROVE  Quiet \/ Moves(a) \/ \E t \in TaskId, m \in Modes : CreateTask(a, t, m)
  BY <1>1, TaskCallTurn
<1>2. ASSUME NEW a \in Actor, ToolCall(a) \/ Reconcile(a)
      PROVE  Quiet
  BY <1>2, ToolCallQuiet, ReconcileQuiet
<1>3. ASSUME NEW a \in Actor, Abandon(a) \/ Interrupt(a)
      PROVE  Quiet
  BY <1>3, IdleQuiet, AwaitOther, Silent DEF Abandon, Interrupt, Return, store, guards
<1>4. CASE Gateway
  BY <1>4, Silent DEF Gateway, GatewayAdmits, GatewaySettles, store, guards, proc
<1>5. CASE Crash
  BY <1>5, DieOther, Silent DEF Crash, store, guards
<1>6. CASE UNCHANGED vars
  BY <1>6, Silent DEF vars
<1> QED BY <1>1, <1>2, <1>3, <1>4, <1>5, <1>6 DEF Next

-----------------------------------------------------------------------------
(* The one-turn invariant *)

LEMMA CreateTurn ==
  ASSUME TypeInv, TypeInv', TurnInv, NEW self, Actor = {self}, NEW t \in TaskId, NEW m \in Modes,
         CreateTask(self, t, m)
  PROVE  TurnInv'
<1> DEFINE row == [NoTask EXCEPT !.status = "executing", !.mode = m, !.revs = 1]
<1>1. CASE UNCHANGED task /\ Torn
  <2>1. Quiet
    BY <1>1, DieOther DEF CreateTask, Torn, Quiet, SameTasks
  <2> QED BY <2>1, QuietTurn DEF Quiet
<1>2. CASE /\ \A u \in TaskId : task[u].status \notin ActiveTask
           /\ task' = [task EXCEPT ![t] = row]
           /\ Return(self)
  <2>1. NoTask \in TaskRow /\ ~NoTask.cancelReq
    BY DEF NoTask, TaskRow, TaskStatus
  <2>2. row.status = "executing" /\ row.revs = 1 /\ row.cancelReq = NoTask.cancelReq
    BY <2>1 DEF TaskRow
  <2>3. \A u \in TaskId : task'[u] = IF u = t THEN row ELSE task[u]
    BY <1>2 DEF TypeInv, TypeOK
  <2>4. OneActive'
    BY <1>2, <2>3 DEF OneActive
  <2>5. BindingHeld'
    BY <1>2, <2>3 DEF BindingHeld, CreateTask
  <2>6. \A u \in TaskId : RowInv(task'[u])
    <3>1. RowInv(row)
      <4> HIDE DEF row
      <4> QED BY <2>1, <2>2 DEF RowInv
    <3> HIDE DEF row
    <3> QED BY <2>3, <3>1 DEF TurnInv
  <2>7. \A a \in Actor : act'[a] = Idle
    BY <1>2 DEF Return, Await, TypeInv, TypeOK
  <2>8. \A a \in Actor : CarryInv(act[a])'
    BY <2>7 DEF CarryInv, Idle
  <2> QED BY <2>4, <2>5, <2>6, <2>8 DEF TurnInv, RowInv
<1> QED BY <1>1, <1>2 DEF CreateTask

LEMMA TurnStep ==
  ASSUME NEW self, Actor = {self}
  PROVE  TypeInv /\ TypeInv' /\ TurnInv /\ ReplanAffordable /\ [Next]_vars => TurnInv'
<1> SUFFICES ASSUME TypeInv, TypeInv', TurnInv, ReplanAffordable, [Next]_vars PROVE TurnInv'
  OBVIOUS
<1>1. CASE Quiet
  BY <1>1, QuietTurn DEF Quiet
<1>2. CASE Moves(self)
  BY <1>2, CommitTurn DEF Moves
<1>3. CASE \E t \in TaskId, m \in Modes : CreateTask(self, t, m)
  BY <1>3, CreateTurn
<1> QED BY <1>1, <1>2, <1>3, NextTurn

LEMMA TurnInvariant ==
  ASSUME NEW self, Actor = {self}
  PROVE  Spec => [](TypeInv /\ TurnInv /\ ReplanAffordable)
<1>1. Init => TurnInv
  BY DEF Init, TurnInv, OneActive, BindingHeld, RowInv, CarryInv, NoTask, Idle, ActiveTask
<1> QED BY <1>1, TurnStep, TypeInvariant, BudgetCorrect, PTL DEF Spec

(* "Only one AgentTask may be non-terminal globally": create_task keeps the *)
(* slot single, and no await of cancel_task or finalize_task resumes into a *)
(* task that has closed, when one turn at a time uses the coordinator.      *)
THEOREM OneActiveAlone ==
  ASSUME NEW self, Actor = {self}
  PROVE  Spec => []OneActive
<1>1. TurnInv => OneActive
  BY DEF TurnInv
<1> QED BY <1>1, TurnInvariant, PTL

(* The Runtime under a non-terminal task is never unguarded, across crashes *)
(* between the status write and the release of the binding.                 *)
THEOREM BindingHeldAlone ==
  ASSUME NEW self, Actor = {self}
  PROVE  Spec => []BindingHeld
<1>1. TurnInv => BindingHeld
  BY DEF TurnInv
<1> QED BY <1>1, TurnInvariant, PTL

(* Once cancel_task has recorded the request, finalize_task cannot answer   *)
(* with success or a replan.                                                *)
THEOREM CancelHonouredAlone ==
  ASSUME NEW self, Actor = {self}
  PROVE  Spec => []CancelHonoured
<1>1. TurnInv => CancelHonoured
  BY DEF TurnInv, RowInv, CancelHonoured
<1> QED BY <1>1, TurnInvariant, PTL

-----------------------------------------------------------------------------
(* The coordinator implements the one-slot lifecycle. *)

Statuses == [t \in TaskId |-> task[t].status]
Replans  == [t \in TaskId |-> IF task[t].revs = 0 THEN 0 ELSE task[t].revs - 1]

(* Mapping one task from an old row to a new one. *)
LEMMA MapOne ==
  ASSUME NEW t \in TaskId, NEW new,
         \A u \in TaskId : task'[u] = IF u = t THEN new ELSE task[u]
  PROVE  /\ Statuses' = [Statuses EXCEPT ![t] = new.status]
         /\ Replans' = [Replans EXCEPT ![t] = IF new.revs = 0 THEN 0 ELSE new.revs - 1]
<1>1. \A u \in TaskId : task'[u].status = IF u = t THEN new.status ELSE task[u].status
  OBVIOUS
<1>2. \A u \in TaskId : task'[u].revs = IF u = t THEN new.revs ELSE task[u].revs
  OBVIOUS
<1> QED BY <1>1, <1>2 DEF Statuses, Replans

LEMMA SlotStep ==
  ASSUME NEW self, Actor = {self}, TypeInv, TypeInv', TurnInv, ReplanAffordable, [Next]_vars
  PROVE  [Slot!Next]_(Slot!vars)
<1> USE DEF Slot!vars
<1>0. Statuses = [t \in TaskId |-> task[t].status]
      /\ Replans = [t \in TaskId |-> IF task[t].revs = 0 THEN 0 ELSE task[t].revs - 1]
  BY DEF Statuses, Replans
<1>1. CASE Quiet
  <2>1. \A t \in TaskId : task'[t].status = task[t].status /\ task'[t].revs = task[t].revs
    BY <1>1 DEF Quiet, SameTasks
  <2> QED BY <2>1
<1>2. CASE Moves(self)
  <2>1. PICK t \in TaskId, row \in TaskRow :
          /\ task[t].status \in ActiveTask
          /\ RowInv(row) /\ row.status # "absent"
          /\ Legal(task[t], row)
          /\ Commit(self, t, row)
    BY <1>2 DEF Moves
  <2>2. \A u \in TaskId : task'[u] = IF u = t THEN row ELSE task[u]
    BY <2>1 DEF Commit, TypeInv, TypeOK
  <2>3. /\ task[t].revs \in Nat /\ task[t].revs # 0 /\ row.revs \in Nat /\ row.revs # 0
    BY <2>1 DEF TypeInv, TypeOK, TaskRow, TurnInv, RowInv, ActiveTask
  <2>4. /\ Statuses' = [Statuses EXCEPT ![t] = row.status]
        /\ Replans' = [Replans EXCEPT ![t] = row.revs - 1]
    BY <2>2, <2>3, MapOne
  <2>5. /\ Statuses[t] = task[t].status /\ Replans[t] = task[t].revs - 1
    BY <2>3 DEF Statuses, Replans
  <2>9. row.revs = task[t].revs => Replans' = Replans
    BY <2>4, <2>5 DEF Replans
  <2>6. Slot!Next \/ UNCHANGED <<Statuses, Replans>>
    <3>1. CASE row.status = task[t].status /\ row.revs = task[t].revs
      BY <3>1, <2>4, <2>5 DEF Statuses, Replans
    <3>2. CASE row.status = "cancelling" /\ row.revs = task[t].revs
      <4>1. Slot!Cancel(t)
        <5>1. Statuses' = [Statuses EXCEPT ![t] = "cancelling"]
          BY <3>2, <2>4
        <5>2. Statuses[t] \in Slot!Active
          BY <2>1, <2>5 DEF Slot!Active, ActiveTask
        <5> QED BY <5>1, <5>2, <3>2, <2>9 DEF Slot!Cancel, Slot!Move, Statuses, Replans
      <4> QED BY <4>1 DEF Slot!Next
    <3>3. CASE /\ row.status \in TerminalTask /\ row.revs = task[t].revs
               /\ task[t].status = "cancelling" => row.status # "succeeded"
      <4>1. Slot!Close(t, row.status)
        <5>1. Statuses[t] = task[t].status /\ Statuses[t] \in Slot!Active
          BY <2>1, <2>5 DEF Slot!Active, ActiveTask
        <5>2. row.status \in Slot!Terminal
          BY <3>3 DEF Slot!Terminal, TerminalTask
        <5> QED BY <5>1, <5>2, <3>3, <2>4, <2>9 DEF Slot!Close, Slot!Move, Statuses, Replans
      <4> QED BY <3>3, <4>1 DEF Slot!Next, Slot!Terminal, TerminalTask
    <3>4. CASE /\ task[t].status = "executing" /\ row.status = "awaiting_replan"
               /\ row.revs = task[t].revs /\ task[t].revs - 1 < MaxReplans
      <4>1. Slot!AskReplan(t)
        <5>1. Statuses' = [Statuses EXCEPT ![t] = "awaiting_replan"]
          BY <3>4, <2>4
        <5>2. Statuses[t] = "executing" /\ Replans[t] < MaxReplans
          BY <3>4, <2>5
        <5>3. Replans' = Replans
          BY <3>4, <2>9
        <5> QED BY <5>1, <5>2, <5>3 DEF Slot!AskReplan, Slot!Move, Statuses, Replans
      <4> QED BY <4>1 DEF Slot!Next
    <3>5. CASE /\ task[t].status = "awaiting_replan" /\ row.status = "executing"
               /\ row.revs = task[t].revs + 1 /\ task[t].revs - 1 < MaxReplans
      <4>1. row.revs - 1 = (task[t].revs - 1) + 1
        BY <3>5, <2>3
      <4>2. Slot!Replan(t)
        <5>1. Statuses' = [Statuses EXCEPT ![t] = "executing"]
          BY <3>5, <2>4
        <5>2. Replans' = [Replans EXCEPT ![t] = Replans[t] + 1]
          BY <4>1, <2>4, <2>5
        <5>3. Statuses[t] = "awaiting_replan" /\ Replans[t] < MaxReplans
          BY <3>5, <2>5
        <5> QED BY <5>1, <5>2, <5>3 DEF Slot!Replan, Slot!Move, Statuses, Replans
      <4> QED BY <4>2 DEF Slot!Next
    <3> QED BY <2>1, <3>1, <3>2, <3>3, <3>4, <3>5 DEF Legal
  <2> QED BY <2>6 DEF Statuses, Replans
<1>3. CASE \E t \in TaskId, m \in Modes : CreateTask(self, t, m)
  <2>1. PICK t \in TaskId, m \in Modes : CreateTask(self, t, m)
    BY <1>3
  <2> DEFINE row == [NoTask EXCEPT !.status = "executing", !.mode = m, !.revs = 1]
  <2>2. CASE UNCHANGED task
    BY <2>2
  <2>3. CASE /\ \A u \in TaskId : task[u].status \notin ActiveTask
             /\ task' = [task EXCEPT ![t] = row]
    <3>1. NoTask \in TaskRow
      BY DEF NoTask, TaskRow, TaskStatus
    <3>2. row.status = "executing" /\ row.revs = 1
      BY <3>1 DEF TaskRow
    <3> HIDE DEF row
    <3>3. \A u \in TaskId : task'[u] = IF u = t THEN row ELSE task[u]
      BY <2>3 DEF TypeInv, TypeOK
    <3>4. /\ Statuses' = [Statuses EXCEPT ![t] = "executing"]
          /\ Replans' = [Replans EXCEPT ![t] = 0]
      BY <3>2, <3>3, MapOne
    <3>5. /\ task[t].status = "absent" /\ task[t].revs = 0
      BY <2>1 DEF CreateTask, TurnInv, RowInv
    <3>6. Replans' = Replans
      BY <3>4, <3>5 DEF Replans
    <3>7. Slot!Open(t)
      BY <2>3, <3>4, <3>5, <3>6 DEF Slot!Open, Slot!Move, Slot!Active, ActiveTask, Statuses, Replans
    <3> QED BY <3>7 DEF Slot!Next
  <2> QED BY <2>1, <2>2, <2>3 DEF CreateTask
<1> QED BY <1>1, <1>2, <1>3, NextTurn

(* One turn at a time, create_task, begin_revision, cancel_task and         *)
(* finalize_task implement the lifecycle of TaskSlot: a single slot, a      *)
(* replan budget, no success once cancelling, no way out of a terminal      *)
(* status.                                                                  *)
THEOREM SlotImplemented ==
  ASSUME NEW self, Actor = {self}
  PROVE  Spec => ImplementsSlot
<1>1. Init => Slot!Init
  BY DEF Init, Slot!Init, NoTask
<1>2. TypeInv /\ TypeInv' /\ TurnInv /\ ReplanAffordable /\ [Next]_vars
        => [Slot!Next]_(Slot!vars)
  BY SlotStep
<1> QED BY <1>1, <1>2, TurnInvariant, TypeInvariant, PTL DEF Spec, ImplementsSlot, Slot!Spec

-----------------------------------------------------------------------------
(* What the one coroutine knows of the records while it awaits: nobody else *)
(* appends, observes or closes meanwhile.                                   *)

Opened(w) ==
  /\ w.pc = "post" => task[w.rec.task].status \in ActiveTask
  /\ w.pc \in {"reconcile", "reread"} => \A r \in w.todo : task[r.task].status \in ActiveTask
  /\ w.pc = "reread" => task[w.rec.task].status \in ActiveTask
  /\ w.pc \in {"capture", "verify"} => Pending(w.task) = {}
  /\ w.pc = "admit" =>
       ~ \E x \in RecordsOf(w.task) : x.req = w.req /\ rec[x].status = "unknown"

RecordInv == UnknownKeepsBinding /\ \A a \in Actor : Opened(act[a])

LEMMA AwaitSets ==
  ASSUME TypeInv, NEW a \in Actor, NEW w, Await(a, w)
  PROVE  act'[a] = w
BY DEF TypeInv, TypeOK, Await

LEMMA DieSets ==
  ASSUME NEW a \in Actor, Die
  PROVE  act'[a] = Idle
BY DEF Die

LEMMA IdleOpened ==
  ASSUME NEW a \in Actor, act'[a] = Idle
  PROVE  Opened(act[a])'
BY DEF Opened, Idle

LEMMA CommitOpened ==
  ASSUME TypeInv, NEW a \in Actor, NEW t, NEW row, Commit(a, t, row)
  PROVE  Opened(act[a])'
BY AwaitSets, DieSets, IdleOpened DEF Commit, Return, Torn

LEMMA TaskCallOpened ==
  ASSUME TypeInv, RecordInv, NEW a \in Actor, TaskCall(a)
  PROVE  Opened(act[a])'
<1>1. ASSUME NEW t \in TaskId, NEW m \in Modes, CreateTask(a, t, m)
      PROVE  Opened(act[a])'
  BY <1>1, AwaitSets, DieSets, IdleOpened DEF CreateTask, Return, Torn
<1>2. ASSUME NEW t \in TaskId, RequestCancel(a, t)
      PROVE  Opened(act[a])'
  <2>1. ASSUME Await(a, [pc |-> "cancel", task |-> t])
        PROVE  Opened(act[a])'
    <3>1. act'[a] = [pc |-> "cancel", task |-> t]
      BY <2>1, AwaitSets
    <3> QED BY <3>1 DEF Opened
  <2> QED BY <1>2, <2>1, CommitOpened DEF RequestCancel, ApplyCancel
<1>3. ASSUME NEW t \in TaskId, NEW p \in {"capture", "verify"}, Pending(t) = {},
             Await(a, [pc |-> p, task |-> t]), UNCHANGED store
      PROVE  Opened(act[a])'
  <2>1. act'[a] = [pc |-> p, task |-> t]
    BY <1>3, AwaitSets
  <2>2. Pending(t)' = {}
    BY <1>3 DEF Pending, RecordsOf, store
  <2> QED BY <2>1, <2>2 DEF Opened
<1>4. ASSUME NEW t \in TaskId, RequestFinalize(a, t)
      PROVE  Opened(act[a])'
  BY <1>3, <1>4 DEF RequestFinalize
<1>5. CASE StartVerification(a)
  <2>1. PICK t \in TaskId : /\ act[a] = [pc |-> "capture", task |-> t]
                            /\ Await(a, [pc |-> "verify", task |-> t])
    BY <1>5 DEF StartVerification
  <2>2. Pending(t) = {}
    BY <2>1 DEF RecordInv, Opened
  <2> QED BY <1>3, <1>5, <2>1, <2>2 DEF StartVerification
<1>6. CASE \/ \E t \in TaskId : BeginRevision(a, t)
           \/ FinishCancel(a) \/ FinishFromFacts(a) \/ VerificationError(a)
           \/ \E v : ApplyVerdict(a, v)
  BY <1>6, CommitOpened
     DEF BeginRevision, FinishCancel, ApplyCancel, FinishFromFacts, VerificationError, ApplyVerdict
<1> QED BY <1>1, <1>2, <1>4, <1>5, <1>6 DEF TaskCall

LEMMA ToolCallOpened ==
  ASSUME TypeInv, RecordInv, NEW a \in Actor, ToolCall(a)
  PROVE  Opened(act[a])'
<1>1. ASSUME NEW r \in Rec, NEW p \in {"query", "post"}, Await(a, [pc |-> p, rec |-> r]),
             task'[r.task].status \in ActiveTask
      PROVE  Opened(act[a])'
  <2>1. act'[a] = [pc |-> p, rec |-> r]
    BY <1>1, AwaitSets
  <2> QED BY <1>1, <2>1 DEF Opened
<1>2. ASSUME NEW r \in Rec, StartQuery(a, r) \/ StartSession(a, r)
      PROVE  Opened(act[a])'
  BY <1>1, <1>2 DEF StartQuery, StartSession, Append, ActiveTask
<1>3. ASSUME NEW r \in Rec, ReadInvocation(a, r)
      PROVE  Opened(act[a])'
  <2>1. PICK ph : Await(a, [pc |-> "observe", rec |-> r, phase |-> ph])
    BY <1>3 DEF ReadInvocation
  <2>2. act'[a] = [pc |-> "observe", rec |-> r, phase |-> ph]
    BY <2>1, AwaitSets
  <2> QED BY <2>2 DEF Opened
<1>4. ASSUME NEW t \in TaskId, NEW q \in Request, NEW s,
             Await(a, [pc |-> "admit", task |-> t, req |-> q, snap |-> s]), UNCHANGED store,
             ~ \E x \in RecordsOf(t) : x.req = q /\ rec[x].status = "unknown"
      PROVE  Opened(act[a])'
  <2>1. act'[a] = [pc |-> "admit", task |-> t, req |-> q, snap |-> s]
    BY <1>4, AwaitSets
  <2>2. (~ \E x \in RecordsOf(t) : x.req = q /\ rec[x].status = "unknown")'
    BY <1>4 DEF RecordsOf, store
  <2> QED BY <2>1, <2>2 DEF Opened
<1>5. ASSUME NEW t \in TaskId, NEW q \in Request, CheckAction(a, t, q)
      PROVE  Opened(act[a])'
  <2>1. ~ \E x \in RecordsOf(t) : x.req = q /\ rec[x].status = "unknown"
    BY <1>5 DEF CheckAction
  <2> QED BY <1>4, <1>5, <2>1 DEF CheckAction
<1>6. CASE TakeSnapshot(a)
  <2>1. PICK t \in TaskId, q \in Request, s \in {"none", "late", "clean"} :
          /\ act[a] = [pc |-> "admit", task |-> t, req |-> q, snap |-> "wanted"]
          /\ Await(a, [pc |-> "admit", task |-> t, req |-> q, snap |-> s])
    BY <1>6 DEF TakeSnapshot
  <2>2. ~ \E x \in RecordsOf(t) : x.req = q /\ rec[x].status = "unknown"
    BY <2>1 DEF RecordInv, Opened
  <2> QED BY <1>4, <1>6, <2>1, <2>2 DEF TakeSnapshot
<1>7. CASE DispatchAction(a)
  <2>1. PICK r \in Rec, s \in {"held", "none", "clean", "late"} :
          /\ task' = IF s = "held" THEN task ELSE [task EXCEPT ![r.task].before = s]
          /\ (Append(r) /\ Await(a, [pc |-> "post", rec |-> r])) \/ Return(a)
    BY <1>7 DEF DispatchAction
  <2>2. task'[r.task].status = task[r.task].status
    BY <2>1 DEF TypeInv, TypeOK, TaskRow, Rec
  <2> QED BY <1>1, <2>1, <2>2, AwaitSets, IdleOpened DEF Return, Append, ActiveTask
<1>8. CASE Admitted(a) \/ PostFails(a) \/ FinishQuery(a) \/ ApplyObservation(a)
  <2>1. Return(a) \/ Die
    BY <1>8 DEF Admitted, PostFails, Identify, Torn, FinishQuery, ApplyObservation
  <2> QED BY <2>1, AwaitSets, DieSets, IdleOpened DEF Return
<1> QED BY <1>2, <1>3, <1>5, <1>6, <1>7, <1>8 DEF ToolCall

LEMMA ReconcileOpened ==
  ASSUME TypeInv, RecordInv, NEW a \in Actor, Reconcile(a)
  PROVE  Opened(act[a])'
<1>0. UNCHANGED task
  BY DEF Reconcile, StartReconcile, NothingToReconcile, ReconcileIntent, ReconcileRead,
         ReconcileApply, FinishReconcile, store
<1>1. ASSUME NEW d, Await(a, [pc |-> "reconcile", todo |-> d]),
             \A r \in d : task[r.task].status \in ActiveTask
      PROVE  Opened(act[a])'
  <2>1. act'[a] = [pc |-> "reconcile", todo |-> d]
    BY <1>1, AwaitSets
  <2> QED BY <1>0, <1>1, <2>1 DEF Opened
<1>2. CASE StartReconcile(a)
  <2>1. PICK t \in TaskId :
          /\ task[t].status \in ActiveTask
          /\ Await(a, [pc |-> "reconcile", todo |->
               {r \in RecordsOf(t) : Sem[r.req] # "query" /\ rec[r].status \notin TerminalTool}])
    BY <1>2 DEF StartReconcile
  <2> DEFINE d == {r \in RecordsOf(t) : Sem[r.req] # "query" /\ rec[r].status \notin TerminalTool}
  <2>2. \A r \in d : task[r.task].status \in ActiveTask
    BY <2>1 DEF RecordsOf
  <2> HIDE DEF d
  <2> QED BY <1>1, <2>1, <2>2 DEF d
<1>3. CASE NothingToReconcile(a) \/ FinishReconcile(a)
  <2>1. act'[a] = Idle
    BY <1>3 DEF NothingToReconcile, FinishReconcile, TypeInv, TypeOK
  <2> QED BY <2>1, IdleOpened
<1>4. CASE ReconcileIntent(a)
  <2>1. \A r \in act[a].todo : task[r.task].status \in ActiveTask
    BY <1>4 DEF ReconcileIntent, RecordInv, Opened
  <2>2. PICK r : Await(a, [pc |-> "reconcile", todo |-> act[a].todo \ {r}])
    BY <1>4 DEF ReconcileIntent
  <2> QED BY <1>1, <2>1, <2>2
<1>5. CASE ReconcileRead(a)
  <2>1. \A r \in act[a].todo : task[r.task].status \in ActiveTask
    BY <1>5 DEF ReconcileRead, RecordInv, Opened
  <2>2. PICK r \in act[a].todo : \E ph :
          Await(a, [pc |-> "reread", todo |-> act[a].todo \ {r}, rec |-> r, phase |-> ph])
    BY <1>5 DEF ReconcileRead
  <2>3. \E ph : act'[a] = [pc |-> "reread", todo |-> act[a].todo \ {r}, rec |-> r, phase |-> ph]
    BY <2>2, AwaitSets
  <2> QED BY <1>0, <2>1, <2>3 DEF Opened
<1>6. CASE ReconcileApply(a)
  <2>1. \A r \in act[a].todo : task[r.task].status \in ActiveTask
    BY <1>6 DEF ReconcileApply, RecordInv, Opened
  <2> QED BY <1>1, <1>6, <2>1 DEF ReconcileApply
<1> QED BY <1>2, <1>3, <1>4, <1>5, <1>6 DEF Reconcile

-----------------------------------------------------------------------------
(* Unknown outcomes.  An Action of a closed task gets no new one, and the    *)
(* commit that closes a task looks at those it has.                         *)

UnknownOpen ==
  \A r \in Rec :
    Sem[r.req] = "action" /\ rec'[r].status = "unknown" =>
      rec[r].status = "unknown" \/ task[r.task].status \notin TerminalTask

LEMMA UnknownQuiet ==
  ASSUME UnknownKeepsBinding, SameTasks, bound \subseteq bound', UnknownOpen
  PROVE  UnknownKeepsBinding'
BY DEF UnknownKeepsBinding, SameTasks, UnknownOpen, RecordsOf

LEMMA StatusUnknown ==
  ASSUME TypeInv, NEW r \in Rec, NEW s, rec' = [rec EXCEPT ![r].status = s],
         \/ s # "unknown" \/ Sem[r.req] # "action"
         \/ task[r.task].status \notin TerminalTask
  PROVE  UnknownOpen
<1>1. ASSUME NEW x \in Rec, x # r
      PROVE  rec'[x] = rec[x]
  BY <1>1 DEF TypeInv, TypeOK
<1>2. rec'[r].status = s
  BY DEF TypeInv, TypeOK, RecRow
<1> QED BY <1>1, <1>2 DEF UnknownOpen

LEMMA ObserveUnknown ==
  ASSUME TypeInv, NEW r \in Rec, NEW ph, Observe(r, ph)
  PROVE  UnknownOpen
<1>1. CASE UNCHANGED rec
  BY <1>1 DEF UnknownOpen
<1>2. CASE rec' = [rec EXCEPT ![r].status = ph]
           /\ ~(Sem[r.req] = "action" /\ task[r.task].status \in TerminalTask)
  BY <1>2, StatusUnknown
<1> QED BY <1>1, <1>2 DEF Observe

LEMMA ActiveOpen == \A s \in ActiveTask : s \notin TerminalTask /\ s # "absent"
BY DEF ActiveTask, TerminalTask

LEMMA ToolCallUnknown ==
  ASSUME TypeInv, FactsInv, RecordInv, NEW a \in Actor, ToolCall(a)
  PROVE  UnknownOpen
<1>0. UNCHANGED rec => UnknownOpen
  BY DEF UnknownOpen
<1>1. ASSUME NEW r \in Rec, Append(r)
      PROVE  UnknownOpen
  BY <1>1, AppendType DEF UnknownOpen, TypeInv, TypeOK
<1>2. ASSUME NEW r \in Rec, StartQuery(a, r) \/ StartSession(a, r)
      PROVE  UnknownOpen
  BY <1>1, <1>2 DEF StartQuery, StartSession
<1>3. ASSUME \/ \E r \in Rec : ReadInvocation(a, r)
             \/ \E t \in TaskId, q \in Request : CheckAction(a, t, q)
             \/ TakeSnapshot(a)
      PROVE  UnknownOpen
  BY <1>0, <1>3 DEF ReadInvocation, CheckAction, TakeSnapshot, store
<1>4. CASE DispatchAction(a)
  BY <1>0, <1>1, <1>4 DEF DispatchAction
<1>5. ASSUME NEW r \in Rec, NEW s, act[a] = [pc |-> "post", rec |-> r], Identify(a, r, s)
      PROVE  UnknownOpen
  <2>1. task[r.task].status \notin TerminalTask
    BY <1>5, ActiveOpen DEF RecordInv, Opened
  <2>2. PICK w : rec' = [rec EXCEPT ![r] = [status |-> s, inv |-> TRUE, warned |-> w]]
    BY <1>5 DEF Identify
  <2> QED BY <2>1, <2>2 DEF UnknownOpen, TypeInv, TypeOK
<1>6. CASE Admitted(a)
  BY <1>5, <1>6 DEF Admitted
<1>7. CASE PostFails(a)
  <2>1. PICK r \in Rec : /\ act[a] = [pc |-> "post", rec |-> r]
                         /\ Identify(a, r, "unknown") \/ rec' = [rec EXCEPT ![r].status = "unknown"]
    BY <1>7 DEF PostFails
  <2>2. task[r.task].status \notin TerminalTask
    BY <2>1, ActiveOpen DEF RecordInv, Opened
  <2> QED BY <1>5, <2>1, <2>2, StatusUnknown
<1>8. CASE FinishQuery(a)
  <2>1. PICK r \in Rec : /\ act[a] = [pc |-> "query", rec |-> r]
                         /\ \E s : rec' = [rec EXCEPT ![r].status = s]
    BY <1>8 DEF FinishQuery
  <2>2. Sem[r.req] = "query"
    BY <2>1 DEF FactsInv, Justified
  <2> QED BY <2>1, <2>2, StatusUnknown
<1>9. CASE ApplyObservation(a)
  BY <1>9, ObserveUnknown DEF ApplyObservation
<1> QED BY <1>2, <1>3, <1>4, <1>6, <1>7, <1>8, <1>9 DEF ToolCall

LEMMA ReconcileUnknown ==
  ASSUME TypeInv, RecordInv, NEW a \in Actor, Reconcile(a)
  PROVE  UnknownOpen
<1>1. CASE StartReconcile(a) \/ NothingToReconcile(a) \/ ReconcileRead(a) \/ FinishReconcile(a)
  BY <1>1 DEF StartReconcile, NothingToReconcile, ReconcileRead, FinishReconcile, store, UnknownOpen
<1>2. CASE ReconcileIntent(a)
  <2>1. PICK r \in act[a].todo : rec' = [rec EXCEPT ![r].status = "unknown"]
    BY <1>2 DEF ReconcileIntent
  <2>2. r \in Rec /\ task[r.task].status \in ActiveTask
    BY <1>2, ReconcileRow DEF ReconcileIntent, RecordInv, Opened, TypeInv, TypeOK
  <2> QED BY <2>1, <2>2, ActiveOpen, StatusUnknown
<1>3. CASE ReconcileApply(a)
  <2>1. act[a].rec \in Rec /\ task[act[a].rec.task].status \in ActiveTask
    BY <1>3, RereadRow DEF ReconcileApply, RecordInv, Opened, TypeInv, TypeOK
  <2> QED BY <1>3, <2>1, ActiveOpen, StatusUnknown, ObserveUnknown DEF ReconcileApply
<1> QED BY <1>1, <1>2, <1>3 DEF Reconcile

LEMMA TaskCallUnknown ==
  ASSUME TypeInv, TurnInv, ReplanAffordable, UnknownKeepsBinding, NEW self \in Actor, TaskCall(self)
  PROVE  UnknownKeepsBinding'
<1>0. UNCHANGED rec
  BY TaskCallKeeps
<1>1. CASE Quiet
  BY <1>0, <1>1, UnknownQuiet DEF Quiet, UnknownOpen
<1>2. CASE Moves(self)
  <2>1. PICK t \in TaskId, row \in TaskRow : task[t].status \in ActiveTask /\ Commit(self, t, row)
    BY <1>2 DEF Moves
  <2>2. \A u \in TaskId : task'[u] = IF u = t THEN row ELSE task[u]
    BY <2>1 DEF Commit, TypeInv, TypeOK
  <2>3. t \in bound
    BY <2>1 DEF TurnInv, BindingHeld
  <2>4. \A u \in bound : u # t => u \in bound'
    BY <2>1 DEF Commit, Released
  <2>5. HasUnknown(t) => t \in bound'
    BY <2>1, <2>3 DEF Commit, Released
  <2>6. ASSUME NEW u \in TaskId, task'[u].status \in TerminalTask,
               NEW r \in Rec, r.task = u, rec[r].status # "absent",
               Sem[r.req] = "action", rec[r].status = "unknown"
        PROVE  u \in bound'
    <3>1. CASE u = t
      <4>1. HasUnknown(t)
        BY <2>6, <3>1 DEF HasUnknown, RecordsOf
      <4> QED BY <2>5, <3>1, <4>1
    <3>2. CASE u # t
      BY <2>2, <2>4, <2>6, <3>2 DEF UnknownKeepsBinding, RecordsOf
    <3> QED BY <3>1, <3>2
  <2> QED BY <1>0, <2>6 DEF UnknownKeepsBinding, RecordsOf
<1>3. ASSUME NEW t \in TaskId, NEW m \in Modes, CreateTask(self, t, m)
      PROVE  UnknownKeepsBinding'
  <2> DEFINE row == [NoTask EXCEPT !.status = "executing", !.mode = m, !.revs = 1]
  <2>1. NoTask \in TaskRow
    BY DEF NoTask, TaskRow, TaskStatus
  <2>2. row.status \notin TerminalTask
    BY <2>1 DEF TaskRow, TerminalTask
  <2>3. task' = [task EXCEPT ![t] = row] \/ UNCHANGED task
    BY <1>3 DEF CreateTask
  <2> HIDE DEF row
  <2>4. \A u \in TaskId : task'[u].status \in TerminalTask => task'[u] = task[u]
    BY <2>2, <2>3 DEF TypeInv, TypeOK
  <2>5. bound \subseteq bound'
    BY <1>3 DEF CreateTask
  <2> QED BY <1>0, <2>4, <2>5 DEF UnknownKeepsBinding, RecordsOf
<1> QED BY <1>1, <1>2, <1>3, TaskCallTurn

LEMMA RecordStep ==
  ASSUME NEW self, Actor = {self}
  PROVE  TypeInv /\ FactsInv /\ TurnInv /\ ReplanAffordable /\ RecordInv /\ [Next]_vars => RecordInv'
<1> SUFFICES ASSUME TypeInv, FactsInv, TurnInv, ReplanAffordable, RecordInv, [Next]_vars
             PROVE  UnknownKeepsBinding' /\ Opened(act[self])'
  BY DEF RecordInv
<1>0. self \in Actor /\ UnknownKeepsBinding
  BY DEF RecordInv
<1>1. CASE TaskCall(self)
  BY <1>0, <1>1, TaskCallUnknown, TaskCallOpened
<1>2. CASE ToolCall(self)
  BY <1>0, <1>2, ToolCallQuiet, ToolCallUnknown, ToolCallOpened, UnknownQuiet DEF Quiet
<1>3. CASE Reconcile(self)
  BY <1>0, <1>3, ReconcileQuiet, ReconcileUnknown, ReconcileOpened, UnknownQuiet DEF Quiet
<1>4. UNCHANGED <<store, bound>> => UnknownKeepsBinding'
  BY <1>0 DEF UnknownKeepsBinding, RecordsOf, store
<1>5. CASE Abandon(self) \/ Interrupt(self)
  BY <1>0, <1>5, <1>4, AwaitSets, IdleOpened DEF Abandon, Interrupt, Return, guards
<1>6. CASE Crash
  BY <1>0, <1>6, <1>4, DieSets, IdleOpened DEF Crash, guards
<1>7. ASSUME UNCHANGED <<task, rec, act, bound>>
      PROVE  UnknownKeepsBinding' /\ Opened(act[self])'
  BY <1>0, <1>7, <1>4 DEF store, RecordInv, Opened, Pending, RecordsOf
<1>8. CASE Gateway \/ UNCHANGED vars
  BY <1>7, <1>8 DEF Gateway, GatewayAdmits, GatewaySettles, store, guards, proc, vars
<1> QED BY <1>1, <1>2, <1>3, <1>5, <1>6, <1>8 DEF Next

LEMMA RecordInvariant ==
  ASSUME NEW self, Actor = {self}
  PROVE  Spec => [](TypeInv /\ TurnInv /\ RecordInv)
<1>1. Init => RecordInv
  BY DEF Init, RecordInv, UnknownKeepsBinding, RecordsOf, Opened, NoTask, NoRec, Idle, TerminalTask
<1> QED BY <1>1, RecordStep, TurnInvariant, FactsInvariant, PTL DEF Spec

(* _schedule_experience: a task closed by finalize_task, cancel_task or     *)
(* begin_revision keeps its Runtime binding as long as one of its Actions   *)
(* has an unknown outcome, across crashes and interrupts.                   *)
THEOREM UnknownBindsAlone ==
  ASSUME NEW self, Actor = {self}
  PROVE  Spec => []UnknownKeepsBinding
<1>1. RecordInv => UnknownKeepsBinding
  BY DEF RecordInv
<1> QED BY <1>1, RecordInvariant, PTL

-----------------------------------------------------------------------------
(* Sending, from what the coroutine knows. *)

LEMMA ResendStep ==
  ASSUME NEW self, Actor = {self}, TypeInv, RecordInv, [Next]_vars, NEW r \in Rec,
         Sem[r.req] = "action", remote[r] = "none", remote'[r] = "sent"
  PROVE  ~ \E x \in RecordsOf(r.task) : x.req = r.req /\ rec[x].status = "unknown"
<1>0. self \in Actor
  OBVIOUS
<1>1. CASE DispatchAction(self)
  <2>1. PICK x \in Rec, s \in {"held", "none", "clean", "late"} :
          /\ act[self] = [pc |-> "admit", task |-> x.task, req |-> x.req, snap |-> s]
          /\ remote' = [remote EXCEPT ![x] = "sent"] \/ UNCHANGED remote
    BY <1>1 DEF DispatchAction
  <2>2. x = r
    BY <2>1 DEF TypeInv, TypeOK
  <2> QED BY <1>0, <2>1, <2>2 DEF RecordInv, Opened
<1>2. CASE ToolCall(self) /\ ~DispatchAction(self)
  <2>1. UNCHANGED remote \/ \E x \in Rec : Sem[x.req] = "session"
                                            /\ remote' = [remote EXCEPT ![x] = "sent"]
    BY <1>2 DEF ToolCall, StartQuery, StartSession, ReadInvocation, CheckAction, TakeSnapshot,
                Admitted, PostFails, Identify, FinishQuery, ApplyObservation, store
  <2> QED BY <2>1 DEF TypeInv, TypeOK
<1>3. CASE TaskCall(self)
  BY <1>0, <1>3, TaskCallKeeps
<1>4. CASE Reconcile(self) \/ Abandon(self) \/ Interrupt(self)
  BY <1>4 DEF Reconcile, StartReconcile, NothingToReconcile, ReconcileIntent, ReconcileRead,
              ReconcileApply, FinishReconcile, Abandon, Interrupt, store
<1>5. CASE Gateway
  BY <1>5 DEF Gateway, GatewayAdmits, GatewaySettles, TypeInv, TypeOK
<1>6. CASE Crash \/ UNCHANGED vars
  BY <1>6 DEF Crash, store, vars
<1> QED BY <1>1, <1>2, <1>3, <1>4, <1>5, <1>6 DEF Next

(* start_action: what its first read refused still does not exist when the  *)
(* POST leaves, after the snapshot, one turn at a time: an Action of        *)
(* unknown outcome is not repeated in its task, nor after a restart.        *)
THEOREM NoBlindResendAlone ==
  ASSUME NEW self, Actor = {self}
  PROVE  Spec => NoBlindResend
<1>1. TypeInv /\ RecordInv /\ [Next]_vars =>
        \A r \in Rec :
          Sem[r.req] = "action" /\ remote[r] = "none" /\ remote'[r] = "sent" =>
            ~ \E x \in RecordsOf(r.task) : x.req = r.req /\ rec[x].status = "unknown"
  BY ResendStep
<1> QED BY <1>1, RecordInvariant, PTL DEF Spec, NoBlindResend

-----------------------------------------------------------------------------
(* Intents without an identity.  While nothing is interrupted, the one       *)
(* coroutine always knows of them: it awaits the POST, or recovery has them  *)
(* still to do.                                                              *)

Blind == {r \in Rec : /\ task[r.task].status \in ActiveTask
                      /\ Owned(r) /\ ~rec[r].inv
                      /\ rec[r].status \notin TerminalTool \cup {"absent"}}

Traced(w) ==
  /\ w.pc = "post" => Blind \subseteq {w.rec}
  /\ w.pc \in {"reconcile", "reread"} => ~reconciled /\ Blind \subseteq w.todo
  /\ w.pc = "idle" => (reconciled => Blind = {})
  /\ w.pc \notin {"post", "reconcile", "reread", "idle"} => Blind = {}

Backed(w) ==
  /\ w.pc \in {"observe", "reread"} => rec[w.rec].inv
  /\ w.pc = "query" => rec[w.rec].status # "absent"

Rooted == \A r \in Rec : rec[r].status # "absent" => task[r.task].status # "absent"

TraceInv == Rooted /\ \A a \in Actor : Traced(act[a]) /\ Backed(act[a])

(* Writing a record. *)
LEMMA StatusBlind ==
  ASSUME TypeInv, SameTasks, NEW r \in Rec, NEW s, rec' = [rec EXCEPT ![r].status = s],
         rec[r].status # "absent"
  PROVE  /\ Rooted => Rooted'
         /\ s \in TerminalTool \/ rec[r].inv \/ ~Owned(r) => Blind' \subseteq Blind \ {r}
<1>1. ASSUME NEW x \in Rec, x # r
      PROVE  rec'[x] = rec[x]
  BY <1>1 DEF TypeInv, TypeOK
<1>2. rec'[r].status = s /\ rec'[r].inv = rec[r].inv
  BY DEF TypeInv, TypeOK, RecRow
<1>3. \A x \in Rec : x.task \in TaskId
  BY DEF Rec
<1>4. Rooted => Rooted'
  BY <1>1, <1>2, <1>3 DEF Rooted, SameTasks
<1>5. s \in TerminalTool \/ rec[r].inv \/ ~Owned(r) => Blind' \subseteq Blind \ {r}
  BY <1>1, <1>2, <1>3 DEF Blind, Owned, SameTasks
<1> QED BY <1>4, <1>5

LEMMA AppendBlind ==
  ASSUME TypeInv, SameTasks, NEW r \in Rec, Append(r)
  PROVE  /\ Rooted => Rooted'
         /\ Blind' \subseteq Blind \cup {r}
         /\ ~Owned(r) => Blind' \subseteq Blind
         /\ rec'[r].status # "absent"
<1>1. ASSUME NEW x \in Rec, x # r
      PROVE  rec'[x] = rec[x]
  BY <1>1 DEF Append, TypeInv, TypeOK
<1>2. rec'[r].status = "pending" /\ ~rec'[r].inv
  BY DEF Append, TypeInv, TypeOK
<1>3. \A x \in Rec : x.task \in TaskId
  BY DEF Rec
<1>4. Rooted => Rooted'
  BY <1>1, <1>2, <1>3 DEF Rooted, SameTasks, Append
<1>5. Blind' \subseteq Blind \cup {r}
  BY <1>1, <1>3 DEF Blind, Owned, SameTasks
<1>6. ~Owned(r) => Blind' \subseteq Blind
  BY <1>1, <1>3 DEF Blind, Owned, SameTasks
<1> QED BY <1>2, <1>4, <1>5, <1>6

LEMMA IdentifyBlind ==
  ASSUME TypeInv, NEW a \in Actor, NEW r \in Rec, NEW s, Identify(a, r, s),
         task[r.task].status # "absent"
  PROVE  /\ Rooted => Rooted'
         /\ Blind' \subseteq Blind \ {r}
<1>1. PICK w : rec' = [rec EXCEPT ![r] = [status |-> s, inv |-> TRUE, warned |-> w]]
  BY DEF Identify
<1>2. UNCHANGED task
  BY DEF Identify
<1>3. \A x \in Rec : x # r => rec'[x] = rec[x]
  BY <1>1 DEF TypeInv, TypeOK
<1>4. rec'[r].inv
  BY <1>1 DEF TypeInv, TypeOK
<1>5. Rooted => Rooted'
  BY <1>2, <1>3 DEF Rooted
<1>6. Blind' \subseteq Blind \ {r}
  BY <1>2, <1>3, <1>4 DEF Blind, Owned
<1> QED BY <1>5, <1>6

LEMMA ObserveBlind ==
  ASSUME TypeInv, NEW r \in Rec, NEW ph, Observe(r, ph), rec[r].inv, UNCHANGED task
  PROVE  (Rooted => Rooted') /\ Blind' \subseteq Blind
<1>1. CASE UNCHANGED rec
  BY <1>1 DEF Rooted, Blind, Owned
<1>2. CASE rec' = [rec EXCEPT ![r].status = ph]
  <2>1. rec[r].status # "absent"
    BY DEF TypeInv, Known
  <2>2. SameTasks
    BY DEF SameTasks
  <2> QED BY <1>2, <2>1, <2>2, StatusBlind
<1> QED BY <1>1, <1>2 DEF Observe

LEMMA StoreBlind ==
  ASSUME UNCHANGED store
  PROVE  (Rooted => Rooted') /\ Blind' = Blind
BY DEF store, Rooted, Blind, Owned

(* The coroutine returns, or dies, or awaits again. *)
LEMMA IdleTraced ==
  ASSUME NEW a \in Actor, act'[a] = Idle, reconciled' => Blind' = {}
  PROVE  (Traced(act[a]) /\ Backed(act[a]))'
BY DEF Traced, Backed, Idle

LEMMA ReturnTraced ==
  ASSUME TypeInv, NEW a \in Actor, Return(a), reconciled => Blind' = {}
  PROVE  (Traced(act[a]) /\ Backed(act[a]))'
<1>1. act'[a] = Idle /\ UNCHANGED reconciled
  BY AwaitSets DEF Return, Await
<1> QED BY <1>1, IdleTraced

LEMMA DieTraced ==
  ASSUME NEW a \in Actor, Die
  PROVE  (Traced(act[a]) /\ Backed(act[a]))'
BY DieSets, IdleTraced DEF Die

LEMMA TaskCallTraced ==
  ASSUME TypeInv, TurnInv, ReplanAffordable, TraceInv, NEW a \in Actor, TaskCall(a)
  PROVE  Rooted' /\ (Traced(act[a]) /\ Backed(act[a]))'
<1>0. UNCHANGED rec
  BY TaskCallKeeps
<1>3. \A r \in Rec : r.task \in TaskId
  BY DEF Rec
<1>1. Blind = {}
  <2>1. CASE Ready(a)
    BY <2>1 DEF Ready, TraceInv, Traced, Idle
  <2>2. CASE act[a].pc \in {"cancel", "capture", "verify"}
    BY <2>2 DEF TraceInv, Traced
  <2>3. \/ Ready(a) \/ FinishCancel(a) \/ FinishFromFacts(a) \/ StartVerification(a)
        \/ VerificationError(a) \/ \E v : ApplyVerdict(a, v)
    BY DEF TaskCall, CreateTask, BeginRevision, RequestCancel, RequestFinalize
  <2>4. ASSUME NEW t, NEW p \in {"cancel", "capture", "verify"}, act[a] = [pc |-> p, task |-> t]
        PROVE  Blind = {}
    BY <2>2, <2>4
  <2>5. CASE FinishCancel(a) \/ FinishFromFacts(a) \/ StartVerification(a)
    BY <2>4, <2>5 DEF FinishCancel, FinishFromFacts, StartVerification
  <2>6. CASE VerificationError(a) \/ \E v : ApplyVerdict(a, v)
    BY <2>4, <2>6 DEF VerificationError, ApplyVerdict
  <2> QED BY <2>1, <2>3, <2>5, <2>6
<1>2. Rooted' /\ Blind' = {}
  <2>1. CASE Quiet
    <3>1. \A r \in Rec : task'[r.task].status = task[r.task].status
      BY <1>3, <2>1 DEF Quiet, SameTasks
    <3>2. Rooted'
      BY <1>0, <3>1 DEF TraceInv, Rooted
    <3>3. Blind' = {}
      BY <1>0, <1>1, <3>1 DEF Blind, Owned
    <3> QED BY <3>2, <3>3
  <2>2. CASE Moves(a)
    <3>1. PICK t \in TaskId, row \in TaskRow :
            task[t].status \in ActiveTask /\ row.status # "absent" /\ Commit(a, t, row)
      BY <2>2 DEF Moves
    <3>2. \A u \in TaskId : task'[u] = IF u = t THEN row ELSE task[u]
      BY <3>1 DEF Commit, TypeInv, TypeOK
    <3>3. \A u \in TaskId : /\ task'[u].status \in ActiveTask => task[u].status \in ActiveTask
                            /\ task[u].status # "absent" => task'[u].status # "absent"
      BY <3>1, <3>2
    <3> QED BY <1>0, <1>1, <1>3, <3>3 DEF TraceInv, Rooted, Blind, Owned
  <2>3. ASSUME NEW t \in TaskId, NEW m \in Modes, CreateTask(a, t, m)
        PROVE  Rooted' /\ Blind' = {}
    <3> DEFINE row == [NoTask EXCEPT !.status = "executing", !.mode = m, !.revs = 1]
    <3>1. NoTask \in TaskRow
      BY DEF NoTask, TaskRow, TaskStatus
    <3>2. row.status # "absent"
      BY <3>1 DEF TaskRow
    <3>3. (task' = [task EXCEPT ![t] = row] \/ UNCHANGED task) /\ task[t].status = "absent"
      BY <2>3 DEF CreateTask
    <3> HIDE DEF row
    <3>4. ASSUME NEW r \in Rec, rec[r].status # "absent"
          PROVE  task'[r.task] = task[r.task]
      <4>1. r.task # t
        BY <3>3, <3>4 DEF TraceInv, Rooted
      <4> QED BY <1>3, <3>3, <4>1 DEF TypeInv, TypeOK
    <3> QED BY <1>0, <1>1, <3>4 DEF TraceInv, Rooted, Blind, Owned
  <2> QED BY <2>1, <2>2, <2>3, TaskCallTurn
<1>4. \/ Return(a) \/ Die
      \/ \E t : \E p \in {"cancel", "capture", "verify"} : Await(a, [pc |-> p, task |-> t])
  BY DEF TaskCall, CreateTask, BeginRevision, RequestCancel, ApplyCancel, RequestFinalize,
         FinishCancel, FinishFromFacts, StartVerification, VerificationError, ApplyVerdict,
         Commit, Torn
<1>5. ASSUME NEW t, NEW p \in {"cancel", "capture", "verify"}, Await(a, [pc |-> p, task |-> t])
      PROVE  (Traced(act[a]) /\ Backed(act[a]))'
  <2>1. act'[a] = [pc |-> p, task |-> t]
    BY <1>5, AwaitSets
  <2> QED BY <1>2, <2>1 DEF Traced, Backed
<1> QED BY <1>2, <1>4, <1>5, ReturnTraced, DieTraced

LEMMA ToolCallTraced ==
  ASSUME TypeInv, FactsInv, RecordInv, TraceInv, NEW a \in Actor, ToolCall(a)
  PROVE  Rooted' /\ (Traced(act[a]) /\ Backed(act[a]))'
<1>1. Rooted /\ Traced(act[a]) /\ Backed(act[a])
  BY DEF TraceInv
<1>2. Ready(a) => Blind = {}
  BY <1>1 DEF Ready, Traced, Idle
<1>3. SameTasks
  BY ToolCallQuiet DEF Quiet
<1>4. ASSUME NEW w, Await(a, w), Blind' = {},
             w.pc \notin {"observe", "reconcile", "reread", "query"}
      PROVE  (Traced(act[a]) /\ Backed(act[a]))'
  <2>1. act'[a] = w
    BY <1>4, AwaitSets
  <2> QED BY <1>4, <2>1 DEF Traced, Backed
<1>5. ASSUME NEW r \in Rec, Append(r), Blind = {}, Await(a, [pc |-> "post", rec |-> r])
      PROVE  Rooted' /\ (Traced(act[a]) /\ Backed(act[a]))'
  <2>1. act'[a] = [pc |-> "post", rec |-> r]
    BY <1>5, AwaitSets
  <2>2. Rooted' /\ Blind' \subseteq {r}
    BY <1>1, <1>3, <1>5, AppendBlind
  <2> QED BY <2>1, <2>2 DEF Traced, Backed
<1>6. ASSUME NEW r \in Rec, StartQuery(a, r)
      PROVE  Rooted' /\ (Traced(act[a]) /\ Backed(act[a]))'
  <2>1. act'[a] = [pc |-> "query", rec |-> r]
    BY <1>6, AwaitSets DEF StartQuery
  <2>2. ~Owned(r)
    BY <1>6 DEF StartQuery, Owned
  <2>3. Rooted' /\ Blind' = {} /\ rec'[r].status # "absent"
    BY <1>1, <1>2, <1>3, <1>6, <2>2, AppendBlind DEF StartQuery
  <2> QED BY <2>1, <2>3 DEF Traced, Backed
<1>7. ASSUME NEW r \in Rec, StartSession(a, r)
      PROVE  Rooted' /\ (Traced(act[a]) /\ Backed(act[a]))'
  BY <1>2, <1>5, <1>7 DEF StartSession
<1>8. ASSUME NEW r \in Rec, ReadInvocation(a, r)
      PROVE  Rooted' /\ (Traced(act[a]) /\ Backed(act[a]))'
  <2>1. PICK ph : Await(a, [pc |-> "observe", rec |-> r, phase |-> ph])
    BY <1>8 DEF ReadInvocation
  <2>2. act'[a] = [pc |-> "observe", rec |-> r, phase |-> ph]
    BY <2>1, AwaitSets
  <2>3. Rooted' /\ Blind' = {} /\ rec'[r].inv
    BY <1>1, <1>2, <1>8, StoreBlind DEF ReadInvocation, store
  <2> QED BY <2>2, <2>3 DEF Traced, Backed
<1>9. ASSUME NEW t \in TaskId, NEW q \in Request, CheckAction(a, t, q)
      PROVE  Rooted' /\ (Traced(act[a]) /\ Backed(act[a]))'
  BY <1>1, <1>2, <1>4, <1>9, StoreBlind DEF CheckAction
<1>10. CASE TakeSnapshot(a)
  <2>1. Blind = {}
    BY <1>1, <1>10 DEF TakeSnapshot, Traced
  <2> QED BY <1>1, <1>4, <1>10, <2>1, StoreBlind DEF TakeSnapshot
<1>11. CASE DispatchAction(a)
  <2>1. Blind = {}
    BY <1>1, <1>11 DEF DispatchAction, Traced
  <2>2. CASE Return(a) /\ UNCHANGED rec
    <3>1. Rooted' /\ Blind' = {}
      <4>1. \A x \in Rec : x.task \in TaskId
        BY DEF Rec
      <4> QED BY <1>1, <1>3, <2>1, <2>2, <4>1 DEF SameTasks, Rooted, Blind, Owned
    <3> QED BY <2>2, <3>1, ReturnTraced
  <2>3. CASE \E r \in Rec : Append(r) /\ Await(a, [pc |-> "post", rec |-> r])
    BY <1>5, <2>1, <2>3
  <2> QED BY <1>11, <2>2, <2>3 DEF DispatchAction
<1>12. ASSUME NEW r \in Rec, NEW s, act[a] = [pc |-> "post", rec |-> r], Identify(a, r, s)
       PROVE  Rooted' /\ (Traced(act[a]) /\ Backed(act[a]))'
  <2>1. Blind \subseteq {r} /\ task[r.task].status # "absent"
    BY <1>1, <1>12, ActiveOpen DEF Traced, RecordInv, Opened
  <2>2. Rooted' /\ Blind' = {}
    BY <1>1, <1>12, <2>1, IdentifyBlind
  <2>3. Return(a) \/ Die
    BY <1>12 DEF Identify, Torn
  <2> QED BY <2>2, <2>3, ReturnTraced, DieTraced
<1>13. CASE Admitted(a)
  BY <1>12, <1>13 DEF Admitted
<1>14. CASE PostFails(a)
  <2>1. PICK r \in Rec : /\ act[a] = [pc |-> "post", rec |-> r]
                         /\ \/ Identify(a, r, "unknown")
                            \/ rec' = [rec EXCEPT ![r].status = "unknown"] /\ Return(a)
    BY <1>14 DEF PostFails
  <2>2. CASE rec' = [rec EXCEPT ![r].status = "unknown"] /\ Return(a)
    <3>1. Blind \subseteq {r} /\ task[r.task].status # "absent"
      BY <1>1, <2>1, ActiveOpen DEF Traced, RecordInv, Opened
    <3>2. Rooted' /\ Blind' = {}
      <4>1. \A x \in Rec : x # r => rec'[x] = rec[x]
        BY <2>2 DEF TypeInv, TypeOK
      <4>2. rec'[r].status = "unknown"
        BY <2>2 DEF TypeInv, TypeOK, RecRow
      <4>3. \A x \in Rec : x.task \in TaskId
        BY DEF Rec
      <4>4. Rooted'
        BY <1>1, <1>3, <3>1, <4>1, <4>3 DEF Rooted, SameTasks
      <4>5. Blind' = {}
        BY <1>3, <3>1, <4>1, <4>2, <4>3 DEF Blind, Owned, SameTasks, TerminalTool
      <4> QED BY <4>4, <4>5
    <3> QED BY <2>2, <3>2, ReturnTraced
  <2> QED BY <1>12, <2>1, <2>2
<1>15. CASE FinishQuery(a)
  <2>1. PICK r \in Rec : /\ act[a] = [pc |-> "query", rec |-> r]
                         /\ \E s : rec' = [rec EXCEPT ![r].status = s]
    BY <1>15 DEF FinishQuery
  <2>2. /\ ~Owned(r) /\ rec[r].status # "absent" /\ Blind = {}
    BY <1>1, <2>1 DEF FactsInv, Justified, Owned, Backed, Traced
  <2>3. Rooted' /\ Blind' = {}
    BY <1>1, <1>3, <2>1, <2>2, StatusBlind
  <2> QED BY <1>15, <2>3, ReturnTraced DEF FinishQuery
<1>16. CASE ApplyObservation(a)
  <2>1. PICK r \in Rec, ph \in Phase :
          act[a] = [pc |-> "observe", rec |-> r, phase |-> ph] /\ Observe(r, ph)
    BY <1>16 DEF ApplyObservation
  <2>2. rec[r].inv /\ Blind = {}
    BY <1>1, <2>1 DEF Backed, Traced
  <2>3. Rooted' /\ Blind' = {}
    BY <1>1, <1>16, <2>1, <2>2, ObserveBlind DEF ApplyObservation
  <2> QED BY <1>16, <2>3, ReturnTraced DEF ApplyObservation
<1> QED BY <1>6, <1>7, <1>8, <1>9, <1>10, <1>11, <1>13, <1>14, <1>15, <1>16 DEF ToolCall

LEMMA ReconcileTraced ==
  ASSUME TypeInv, TurnInv, RecordInv, TraceInv, NEW a \in Actor, Reconcile(a)
  PROVE  Rooted' /\ (Traced(act[a]) /\ Backed(act[a]))'
<1>1. Rooted /\ Traced(act[a]) /\ Backed(act[a])
  BY DEF TraceInv
<1>2. ASSUME NEW d, Await(a, [pc |-> "reconcile", todo |-> d]), Blind' \subseteq d, ~reconciled
      PROVE  (Traced(act[a]) /\ Backed(act[a]))'
  <2>1. act'[a] = [pc |-> "reconcile", todo |-> d] /\ ~reconciled'
    BY <1>2, AwaitSets DEF Await
  <2> QED BY <1>2, <2>1 DEF Traced, Backed
<1>3. CASE StartReconcile(a)
  <2>1. PICK t \in TaskId :
          /\ task[t].status \in ActiveTask
          /\ Await(a, [pc |-> "reconcile", todo |->
               {r \in RecordsOf(t) : Sem[r.req] # "query" /\ rec[r].status \notin TerminalTool}])
    BY <1>3 DEF StartReconcile
  <2> DEFINE d == {r \in RecordsOf(t) : Sem[r.req] # "query" /\ rec[r].status \notin TerminalTool}
  <2>2. ASSUME NEW r \in Blind
        PROVE  r \in d
    <3>1. r.task = t
      BY <2>1, <2>2 DEF Blind, TurnInv, OneActive, Rec
    <3> QED BY <3>1, <2>2 DEF Blind, RecordsOf, Owned
  <2>3. Rooted' /\ Blind' = Blind
    BY <1>1, <1>3, StoreBlind DEF StartReconcile
  <2> HIDE DEF d
  <2> QED BY <1>2, <1>3, <2>1, <2>2, <2>3 DEF d, StartReconcile
<1>4. CASE NothingToReconcile(a)
  <2>1. Blind = {}
    BY <1>4 DEF NothingToReconcile, Blind, Rec
  <2>2. Rooted' /\ Blind' = Blind
    BY <1>1, <1>4, StoreBlind DEF NothingToReconcile
  <2> QED BY <1>4, <2>1, <2>2, IdleTraced DEF NothingToReconcile
<1>5. CASE ReconcileIntent(a)
  <2>1. PICK r \in act[a].todo : /\ rec' = [rec EXCEPT ![r].status = "unknown"]
                                 /\ Await(a, [pc |-> "reconcile", todo |-> act[a].todo \ {r}])
    BY <1>5 DEF ReconcileIntent
  <2>2. r \in Rec /\ task[r.task].status # "absent" /\ UNCHANGED task
    BY <1>5, ReconcileRow, ActiveOpen DEF ReconcileIntent, RecordInv, Opened, TypeInv, TypeOK
  <2>3. \A x \in Rec : x # r => rec'[x] = rec[x]
    BY <2>1, <2>2 DEF TypeInv, TypeOK
  <2>4. rec'[r].status = "unknown"
    BY <2>1, <2>2 DEF TypeInv, TypeOK, RecRow
  <2>5. Rooted'
    BY <1>1, <2>2, <2>3 DEF Rooted
  <2>6. Blind' \subseteq Blind \ {r}
    BY <2>2, <2>3, <2>4 DEF Blind, Owned, TerminalTool
  <2>7. Blind \subseteq act[a].todo /\ ~reconciled
    BY <1>1, <1>5 DEF ReconcileIntent, Traced
  <2> QED BY <1>2, <2>1, <2>5, <2>6, <2>7
<1>6. CASE ReconcileRead(a)
  <2>1. PICK r \in act[a].todo : /\ rec[r].inv
                                 /\ \E ph : Await(a, [pc |-> "reread", todo |-> act[a].todo \ {r},
                                                      rec |-> r, phase |-> ph])
    BY <1>6 DEF ReconcileRead
  <2>2. PICK ph : act'[a] = [pc |-> "reread", todo |-> act[a].todo \ {r}, rec |-> r, phase |-> ph]
    BY <2>1, AwaitSets
  <2>3. Blind \subseteq act[a].todo \ {r} /\ ~reconciled'
    BY <1>1, <1>6, <2>1 DEF ReconcileRead, Await, Traced, Blind
  <2>4. Rooted' /\ Blind' = Blind /\ UNCHANGED rec
    BY <1>1, <1>6, StoreBlind DEF ReconcileRead, store
  <2> QED BY <2>1, <2>2, <2>3, <2>4 DEF Traced, Backed
<1>7. CASE ReconcileApply(a)
  <2>1. /\ act[a].rec \in Rec /\ rec[act[a].rec].inv
        /\ Blind \subseteq act[a].todo /\ ~reconciled /\ UNCHANGED task
    BY <1>1, <1>7, RereadRow DEF ReconcileApply, Backed, Traced, TypeInv, TypeOK
  <2>2. Rooted' /\ Blind' \subseteq Blind
    <3>1. CASE rec' = [rec EXCEPT ![act[a].rec].status = "unknown"]
      <4>1. rec[act[a].rec].status # "absent" /\ SameTasks
        BY <2>1 DEF TypeInv, Known, SameTasks
      <4> QED BY <1>1, <2>1, <3>1, <4>1, StatusBlind
    <3>2. CASE Observe(act[a].rec, act[a].phase)
      BY <1>1, <2>1, <3>2, ObserveBlind
    <3> QED BY <1>7, <3>1, <3>2 DEF ReconcileApply
  <2> QED BY <1>2, <1>7, <2>1, <2>2 DEF ReconcileApply
<1>8. CASE FinishReconcile(a)
  <2>1. Blind = {} /\ act'[a] = Idle
    BY <1>1, <1>8 DEF FinishReconcile, Traced, TypeInv, TypeOK
  <2>2. Rooted' /\ Blind' = Blind
    BY <1>1, <1>8, StoreBlind DEF FinishReconcile
  <2> QED BY <2>1, <2>2, IdleTraced
<1> QED BY <1>3, <1>4, <1>5, <1>6, <1>7, <1>8 DEF Reconcile

LEMMA TraceStep ==
  ASSUME NEW self, Actor = {self}, "interrupt" \notin Faults
  PROVE  TypeInv /\ FactsInv /\ TurnInv /\ ReplanAffordable /\ RecordInv /\ TraceInv /\ [Next]_vars
           => TraceInv'
<1> SUFFICES ASSUME TypeInv, FactsInv, TurnInv, ReplanAffordable, RecordInv, TraceInv, [Next]_vars
             PROVE  Rooted' /\ (Traced(act[self]) /\ Backed(act[self]))'
  BY DEF TraceInv
<1>0. self \in Actor /\ Rooted /\ Traced(act[self]) /\ Backed(act[self])
  BY DEF TraceInv
<1>1. CASE TaskCall(self)
  BY <1>0, <1>1, TaskCallTraced
<1>2. CASE ToolCall(self)
  BY <1>0, <1>2, ToolCallTraced
<1>3. CASE Reconcile(self)
  BY <1>0, <1>3, ReconcileTraced
<1>4. CASE Abandon(self)
  <2>1. reconciled => Blind = {}
    BY <1>0, <1>4 DEF Abandon, TrackerRaises, Traced
  <2> QED BY <1>0, <1>4, <2>1, StoreBlind, ReturnTraced DEF Abandon
<1>5. CASE Crash
  BY <1>0, <1>5, StoreBlind, DieTraced DEF Crash
<1>6. CASE UNCHANGED <<store, act, reconciled>>
  BY <1>0, <1>6, StoreBlind DEF store, Traced, Backed
<1>7. CASE Gateway \/ UNCHANGED vars
  BY <1>6, <1>7 DEF Gateway, GatewayAdmits, GatewaySettles, store, proc, vars
<1> QED BY <1>1, <1>2, <1>3, <1>4, <1>5, <1>7 DEF Next, Interrupt

(* Recovery closes the gap of a crash: whenever nobody awaits, finalization *)
(* of the active task can go on, since every pending invocation has the     *)
(* identity to ask the Gateway for it.  An interrupted POST is excluded:    *)
(* until the next restart nobody gives that intent an outcome.              *)
THEOREM NoWedgeAlone ==
  ASSUME NEW self, Actor = {self}, "interrupt" \notin Faults
  PROVE  Spec => []NoWedge
<1>1. Init => TraceInv
  BY DEF Init, TraceInv, Rooted, Traced, Backed, Blind, NoTask, NoRec, Idle, ActiveTask
<1>2. TraceInv => NoWedge
  BY DEF TraceInv, Traced, Blind, NoWedge, Pending, RecordsOf, Idle
<1>3. Spec => []TraceInv
  BY <1>1, TraceStep, RecordInvariant, TurnInvariant, FactsInvariant, PTL DEF Spec
<1> QED BY <1>2, <1>3, PTL
=============================================================================
