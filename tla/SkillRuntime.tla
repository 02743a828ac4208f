---------------------------- MODULE SkillRuntime ----------------------------
(***************************************************************************)
(* The Runtime of one Skill (src/PhyAgentOS/skill_runtime): a JSON file,   *)
(* the Dora flows it names, and the processes that work on both through    *)
(* RuntimeManager.start, stop and status (the CLI) and through             *)
(* PersistentRuntimeSet.add and discard (the Agent, which guards a Runtime *)
(* with the references of its task).                                       *)
(*                                                                         *)
(* start and stop hold SkillOperationLock.  status and the sets do not:    *)
(* they read the file, and later replace it as a whole.  With Serialised   *)
(* the deployment never lets one of those two overlap anything else.       *)
(*                                                                         *)
(* refs stands for one of the three fields of references; the guard of     *)
(* stop reads their union.  A flow is named by the profile it runs.        *)
(***************************************************************************)
EXTENDS Naturals

CONSTANTS
  Proc,         \* processes
  Profile,      \* profiles of the Skill
  Nobody,       \* no process
  NoProfile,    \* no profile
  Ref,          \* identifiers of invocations, sessions or task bindings
  Serialised,   \* operations without the lock overlap nothing
  ListMayFail,  \* dora list may fail, which the code reads as "not running"
  MaxStarts     \* bound: starts that reach their first save

ASSUME RuntimeAssumption ==
  /\ Nobody \notin Proc
  /\ NoProfile \notin Profile
  /\ Serialised \in BOOLEAN
  /\ ListMayFail \in BOOLEAN
  /\ MaxStarts \in Nat

VARIABLES
  file,     \* the persisted RuntimeState, or NoFile
  lock,     \* the holder of SkillOperationLock, or Nobody
  op,       \* op[p]: the operation p is in, with what it has read
  flows,    \* Dora flows that run
  gateway,  \* what answers at the Gateway address
  starts,   \* runtime_instance_ids given out
  owned     \* history: references added since the last start, not yet discarded

vars == <<file, lock, op, flows, gateway, starts, owned>>

NoFile == [status |-> "none"]
Idle == [pc |-> "idle"]

Status == {"starting", "running", "failed", "stopping", "stopped"}

RuntimeState ==
  [status: Status, profile: Profile, instance: Nat, refs: SUBSET Ref, audit: SUBSET Ref]

(* _start_locked builds a new state: no reference and no audit event of an *)
(* earlier instance survives it.                                           *)
Fresh(f) ==
  [status |-> "starting", profile |-> f, instance |-> starts + 1, refs |-> {}, audit |-> {}]

With(s, status) == [s EXCEPT !.status = status]

Stopped(s) == [s EXCEPT !.status = "stopped", !.refs = {}]

(* _flow_running is FALSE also when dora list fails or dora is missing. *)
FlowRunning(f) == {f \in flows} \cup {b \in {FALSE} : ListMayFail}

-----------------------------------------------------------------------------
(* An operation without the lock: status outside start, add, discard. *)
Unlocked(p) ==
  \/ op[p].pc \in {"status", "probe", "report"} /\ op[p].next = NoProfile
  \/ op[p].pc \in {"track", "replace"}

(* Mutant: the file lock is shared. *)
AcquireShared(p) ==
  /\ op[p] = Idle
  /\ Serialised => \A q \in Proc : ~Unlocked(q)
  /\ lock' = p

Acquire(p) ==
  /\ op[p] = Idle
  /\ lock = Nobody
  /\ Serialised => \A q \in Proc : ~Unlocked(q)
  /\ lock' = p

Enter(p) ==
  /\ op[p] = Idle
  /\ Serialised => \A q \in Proc : op[q] = Idle
  /\ UNCHANGED lock

Go(p, step) == op' = [op EXCEPT ![p] = step]

(* Leaving the with block, by a return or by an exception. *)
Return(p) ==
  /\ Go(p, Idle)
  /\ lock' = IF lock = p THEN Nobody ELSE lock

-----------------------------------------------------------------------------
(* start *)

Preparing(f) == [pc |-> "prepare", profile |-> f]
Reading(s, f) == [pc |-> "status", seen |-> s, next |-> f]

(* A start of the profile that the file says is up asks status first; it   *)
(* already holds the lock.  A busy lock is an error and changes nothing.   *)
Start(p, f) ==
  /\ Acquire(p)
  /\ Go(p, IF file.status \in {"starting", "running"} /\ file.profile = f
           THEN Reading(file, f)
           ELSE Preparing(f))
  /\ UNCHANGED <<file, flows, gateway, starts, owned>>

(* Mutant: a refused start leaves the lock behind. *)
StartRefusedHolding(p) ==
  /\ op[p].pc = "prepare"
  /\ Go(p, Idle)
  /\ UNCHANGED <<file, lock, flows, gateway, starts, owned>>

(* No environment, no dora, a missing file, or a Gateway that answers. *)
StartRefused(p) ==
  /\ op[p].pc = "prepare"
  /\ Return(p)
  /\ UNCHANGED <<file, flows, gateway, starts, owned>>

(* Mutant: the lock covers only the checks before a start. *)
SaveStartingReleased(p) ==
  /\ op[p].pc = "prepare"
  /\ gateway = "silent"
  /\ starts < MaxStarts
  /\ LET s == Fresh(op[p].profile) IN
       /\ file' = s
       /\ Go(p, [pc |-> "launch", mine |-> s])
  /\ starts' = starts + 1
  /\ owned' = {}
  /\ lock' = Nobody
  /\ UNCHANGED <<flows, gateway>>

SaveStarting(p) ==
  /\ op[p].pc = "prepare"
  /\ gateway = "silent"
  /\ starts < MaxStarts
  /\ LET s == Fresh(op[p].profile) IN
       /\ file' = s
       /\ Go(p, [pc |-> "launch", mine |-> s])
  /\ starts' = starts + 1
  /\ owned' = {}
  /\ UNCHANGED <<lock, flows, gateway>>

Launch(p) ==
  /\ op[p].pc = "launch"
  /\ flows' = flows \cup {op[p].mine.profile}
  /\ Go(p, [op[p] EXCEPT !.pc = "wait"])
  /\ UNCHANGED <<file, lock, gateway, starts, owned>>

(* The hook or dora up fails: nothing was launched, nothing is stopped. *)
HookFails(p) ==
  /\ op[p].pc = "launch"
  /\ Go(p, [op[p] EXCEPT !.pc = "start_failed"])
  /\ UNCHANGED <<file, lock, flows, gateway, starts, owned>>

(* dora start is refused, or the Runtime is not ready before the timeout. *)
StartFails(p) ==
  /\ op[p].pc \in {"launch", "wait"}
  /\ Go(p, [op[p] EXCEPT !.pc = "rollback"])
  /\ UNCHANGED <<file, lock, flows, gateway, starts, owned>>

SaveRunning(p) ==
  /\ op[p].pc = "wait"
  /\ TRUE \in FlowRunning(op[p].mine.profile)
  /\ gateway = "ready"
  /\ file' = With(op[p].mine, "running")
  /\ Return(p)
  /\ UNCHANGED <<flows, gateway, starts, owned>>

(* check=False: whatever dora stop answers, the failure is saved next. *)
Rollback(p) ==
  /\ op[p].pc = "rollback"
  /\ flows' \in {flows, flows \ {op[p].mine.profile}}
  /\ Go(p, [op[p] EXCEPT !.pc = "start_failed"])
  /\ UNCHANGED <<file, lock, gateway, starts, owned>>

(* dora stop cannot be run or times out: the exception leaves start with   *)
(* the file at starting.                                                   *)
RollbackRaises(p) ==
  /\ op[p].pc = "rollback"
  /\ Return(p)
  /\ UNCHANGED <<file, flows, gateway, starts, owned>>

SaveStartFailed(p) ==
  /\ op[p].pc = "start_failed"
  /\ file' = With(op[p].mine, "failed")
  /\ Return(p)
  /\ UNCHANGED <<flows, gateway, starts, owned>>

-----------------------------------------------------------------------------
(* stop *)

(* Nothing to do for a stopped Runtime; refused while references are held. *)
StopProceeds(force) ==
  /\ file # NoFile
  /\ file.status = "stopped" => TRUE \in FlowRunning(file.profile)
  /\ file.refs = {} \/ force

(* The references of a forced stop go to the audit events; stop then asks  *)
(* the Gateway to end each, which decides nothing.                         *)
Stopping(s) == [s EXCEPT !.status = "stopping", !.audit = @ \cup s.refs]

Stop(p, force) ==
  /\ StopProceeds(force)
  /\ Acquire(p)
  /\ Go(p, [pc |-> "stop", state |-> Stopping(file), force |-> force])
  /\ UNCHANGED <<file, flows, gateway, starts, owned>>

SaveStopping(p) ==
  /\ op[p].pc = "stop"
  /\ file' = op[p].state
  /\ Go(p, [op[p] EXCEPT !.pc = "stop_flow"])
  /\ UNCHANGED <<lock, flows, gateway, starts, owned>>

(* Mutant: the answer of dora stop is ignored. *)
StopFlowUnchecked(p) ==
  /\ op[p].pc = "stop_flow"
  /\ flows' \in {flows, flows \ {op[p].state.profile}}
  /\ Go(p, [op[p] EXCEPT !.pc = "stop_ok"])
  /\ UNCHANGED <<file, lock, gateway, starts, owned>>

(* A failing dora stop is no failure when the flow is not running. *)
StopFlow(p) ==
  /\ op[p].pc = "stop_flow"
  /\ \/ /\ flows' = flows \ {op[p].state.profile}
        /\ Go(p, [op[p] EXCEPT !.pc = "stop_ok"])
     \/ /\ FALSE \in FlowRunning(op[p].state.profile)
        /\ UNCHANGED flows
        /\ Go(p, [op[p] EXCEPT !.pc = "stop_ok"])
     \/ /\ UNCHANGED flows
        /\ Go(p, [op[p] EXCEPT !.pc = "stop_failed"])
  /\ UNCHANGED <<file, lock, gateway, starts, owned>>

SaveStopped(p) ==
  /\ op[p].pc = "stop_ok"
  /\ file' = Stopped(op[p].state)
  /\ owned' = {}
  /\ Return(p)
  /\ UNCHANGED <<flows, gateway, starts>>

SaveStopFailed(p) ==
  /\ op[p].pc = "stop_failed"
  /\ file' = With(op[p].state, "failed")
  /\ Return(p)
  /\ UNCHANGED <<flows, gateway, starts, owned>>

-----------------------------------------------------------------------------
(* status, alone or inside start (next is then the profile to start) *)

ReadStatus(p) ==
  /\ file # NoFile
  /\ Enter(p)
  /\ Go(p, Reading(file, NoProfile))
  /\ UNCHANGED <<file, flows, gateway, starts, owned>>

(* For a starting Runtime: does another operation hold the lock? *)
ProbeLock(p) ==
  /\ op[p].pc = "status"
  /\ Go(p, [pc |-> "probe", seen |-> op[p].seen, next |-> op[p].next,
            busy |-> op[p].seen.status = "starting" /\ lock # Nobody])
  /\ UNCHANGED <<file, lock, flows, gateway, starts, owned>>

(* A new updated_at makes the copy of a healthy Runtime differ: it is saved *)
(* like the others.                                                         *)
Reconciled(s, up, live, busy) ==
  IF live /\ s.status \in {"starting", "running", "failed"} THEN {With(s, "running")}
  ELSE IF s.status = "stopping" /\ ~up THEN {Stopped(s)}
  ELSE IF s.status \in {"starting", "running"} /\ ~live /\ ~busy THEN {With(s, "failed")}
  ELSE {}

(* What follows the report of status: a start of a Runtime that is not     *)
(* ready goes on.                                                          *)
Reported(p, ready) ==
  IF op[p].next = NoProfile \/ ready
  THEN Return(p)
  ELSE Go(p, Preparing(op[p].next)) /\ UNCHANGED lock

Probe(p) ==
  /\ op[p].pc = "probe"
  /\ \E up \in FlowRunning(op[p].seen.profile) :
       LET live == up /\ gateway = "ready"
           new == Reconciled(op[p].seen, up, live, op[p].busy)
       IN IF new = {}
          THEN Reported(p, FALSE)
          ELSE /\ \E s \in new : Go(p, [pc |-> "report", state |-> s, next |-> op[p].next])
               /\ UNCHANGED lock
  /\ UNCHANGED <<file, flows, gateway, starts, owned>>

SaveReconciled(p) ==
  /\ op[p].pc = "report"
  /\ file' = op[p].state
  /\ owned' = IF file'.status = "stopped" THEN {} ELSE owned
  /\ Reported(p, file'.status = "running")
  /\ UNCHANGED <<flows, gateway, starts>>

-----------------------------------------------------------------------------
(* The references of the Agent: add and discard of PersistentRuntimeSet,   *)
(* reached through a registry that knows a running Runtime.                *)

Track(p, r, adding) ==
  /\ file.status = "running"
  /\ adding \/ r \in file.refs
  /\ Enter(p)
  /\ Go(p, [pc |-> "track", ref |-> r, adding |-> adding,
            refs |-> IF adding THEN file.refs \cup {r} ELSE file.refs \ {r}])
  /\ UNCHANGED <<file, flows, gateway, starts, owned>>

(* _replace loads the state once more. *)
LoadToReplace(p) ==
  /\ op[p].pc = "track"
  /\ Go(p, [pc |-> "replace", ref |-> op[p].ref, adding |-> op[p].adding,
            state |-> [file EXCEPT !.refs = op[p].refs]])
  /\ UNCHANGED <<file, lock, flows, gateway, starts, owned>>

Replace(p) ==
  /\ op[p].pc = "replace"
  /\ file' = op[p].state
  /\ owned' = IF op[p].adding THEN owned \cup {op[p].ref} ELSE owned \ {op[p].ref}
  /\ Return(p)
  /\ UNCHANGED <<flows, gateway, starts>>

-----------------------------------------------------------------------------
(* The kernel drops the file lock of a process that dies. *)
Crash(p) ==
  /\ op[p] # Idle
  /\ Return(p)
  /\ UNCHANGED <<file, flows, gateway, starts, owned>>

(* External: a flow dies, and what answers at the Gateway address changes. *)
FlowDies(f) ==
  /\ f \in flows
  /\ flows' = flows \ {f}
  /\ UNCHANGED <<file, lock, op, gateway, starts, owned>>

GatewayTurns(g) ==
  /\ gateway # g
  /\ gateway' = g
  /\ UNCHANGED <<file, lock, op, flows, starts, owned>>

Answers == {"silent", "answering", "ready"}

Init ==
  /\ file = NoFile
  /\ lock = Nobody
  /\ op = [p \in Proc |-> Idle]
  /\ flows = {}
  /\ gateway = "silent"
  /\ starts = 0
  /\ owned = {}

StartStep(p) ==
  \/ \E f \in Profile : Start(p, f)
  \/ StartRefused(p) \/ SaveStarting(p) \/ Launch(p) \/ HookFails(p) \/ StartFails(p)
  \/ SaveRunning(p) \/ Rollback(p) \/ RollbackRaises(p) \/ SaveStartFailed(p)

StopStep(p) ==
  \/ \E force \in BOOLEAN : Stop(p, force)
  \/ SaveStopping(p) \/ StopFlow(p) \/ SaveStopped(p) \/ SaveStopFailed(p)

StatusStep(p) == ReadStatus(p) \/ ProbeLock(p) \/ Probe(p) \/ SaveReconciled(p)

TrackStep(p) ==
  \/ \E r \in Ref, adding \in BOOLEAN : Track(p, r, adding)
  \/ LoadToReplace(p) \/ Replace(p)

Next ==
  \/ \E p \in Proc : StartStep(p) \/ StopStep(p) \/ StatusStep(p) \/ TrackStep(p) \/ Crash(p)
  \/ \E f \in Profile : FlowDies(f)
  \/ \E g \in Answers : GatewayTurns(g)

Spec == Init /\ [][Next]_vars

-----------------------------------------------------------------------------
Step ==
       {Idle}
  \cup [pc: {"prepare"}, profile: Profile]
  \cup [pc: {"launch", "wait", "rollback", "start_failed"}, mine: RuntimeState]
  \cup [pc: {"stop", "stop_flow", "stop_ok", "stop_failed"}, state: RuntimeState, force: BOOLEAN]
  \cup [pc: {"status"}, seen: RuntimeState, next: Profile \cup {NoProfile}]
  \cup [pc: {"probe"}, seen: RuntimeState, next: Profile \cup {NoProfile}, busy: BOOLEAN]
  \cup [pc: {"report"}, state: RuntimeState, next: Profile \cup {NoProfile}]
  \cup [pc: {"track"}, ref: Ref, adding: BOOLEAN, refs: SUBSET Ref]
  \cup [pc: {"replace"}, ref: Ref, adding: BOOLEAN, state: RuntimeState]

StartSteps == {"launch", "wait", "rollback", "start_failed"}

(* Every variable has its type, and the processes inside start or stop are *)
(* those that hold the lock.                                               *)
TypeOK ==
  /\ file \in RuntimeState \cup {NoFile}
  /\ lock \in Proc \cup {Nobody}
  /\ op \in [Proc -> Step]
  /\ flows \subseteq Profile
  /\ gateway \in Answers
  /\ starts \in Nat
  /\ owned \subseteq Ref
  /\ \A p \in Proc : op[p] # Idle => (Unlocked(p) <=> lock # p)
  /\ \A p \in Proc : lock = p => op[p] # Idle

(* A Runtime recorded as stopped is down: neither a failing dora stop, a   *)
(* crash inside start or stop, nor a status that finishes a crashed stop   *)
(* records a live flow as stopped.  manager.stop returns at once for a     *)
(* stopped Runtime, and the registry forgets it.                           *)
StoppedMeansDown == file.status = "stopped" => file.profile \notin flows

(* A start works on its own state until it saves the result: between its   *)
(* first save and its last the lock keeps every other start and stop, and  *)
(* the status inside them, from the file.  What may still replace it there *)
(* is an operation without the lock: status alone, and the references.     *)
OwnStart ==
  [][\A p \in Proc :
       op[p].pc \in StartSteps /\ file' # file =>
         \/ op'[p] # op[p]
         \/ \E q \in Proc : Unlocked(q) /\ op'[q] # op[q]]_vars

Life == INSTANCE RuntimeLifecycle WITH None <- NoFile, state <- file, live <- flows

(* The file and the flows go through the lifecycle of RuntimeLifecycle      *)
(* whichever processes start, stop, ask, track or die: nothing but a new    *)
(* instance leaves "stopped", a stop ends only with the flow down and every *)
(* dropped reference audited, and only a starting Runtime brings a flow up. *)
ImplementsLifecycle == Life!Spec

DropAudited ==
  (file # NoFile /\ file.status # "stopped" /\ file'.status = "stopped")
    => file.refs \subseteq file'.audit

(* Force stop records an audit event: references that disappear because    *)
(* their Runtime is recorded as stopped are in its audit events, also when *)
(* the stop died half way and a status completed it.                       *)
DropsAudited == [][DropAudited]_vars

(* Normal stop is rejected while references exist: a stop without force    *)
(* goes past its guard only when the Agent holds no reference to this      *)
(* instance (docs/forge/README.md:198, and the test                        *)
(* test_stop_refuses_nonterminal_invocations_without_force).               *)
NormalStopRefused ==
  [][\A p \in Proc :
       (op[p] = Idle /\ op'[p].pc = "stop" /\ ~op'[p].force) => owned = {}]_vars

=============================================================================
