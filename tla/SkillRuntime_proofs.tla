------------------------ MODULE SkillRuntime_proofs -------------------------
(***************************************************************************)
(* Proofs about SkillRuntime, for any processes, profiles and references.  *)
(* TypeOK holds whatever overlaps.  The others hold when operations        *)
(* without the lock overlap nothing and dora list does not fail: then at   *)
(* most one process is busy, and what it has read is what the file says.   *)
(***************************************************************************)
EXTENDS SkillRuntime, TLAPS

StepsOf(p) == StartStep(p) \/ StopStep(p) \/ StatusStep(p) \/ TrackStep(p) \/ Crash(p)

(* A set of references is replaced only after a state was read. *)
FileExists == \A p \in Proc : op[p].pc = "track" => file # NoFile

TypeInv == TypeOK /\ FileExists

(* What the step of a process carries, by its place in the operation. *)
LEMMA Shapes ==
  ASSUME NEW s \in Step
  PROVE  /\ s.pc = "idle" <=> s = Idle
         /\ s.pc = "prepare" => s.profile \in Profile
         /\ s.pc \in StartSteps =>
              s.mine \in RuntimeState /\ s = [pc |-> s.pc, mine |-> s.mine]
         /\ s.pc \in {"stop", "stop_flow", "stop_ok", "stop_failed"} =>
              /\ s.state \in RuntimeState /\ s.force \in BOOLEAN
              /\ s = [pc |-> s.pc, state |-> s.state, force |-> s.force]
         /\ s.pc = "status" =>
              s.seen \in RuntimeState /\ s.next \in Profile \cup {NoProfile}
         /\ s.pc = "probe" =>
              /\ s.seen \in RuntimeState /\ s.next \in Profile \cup {NoProfile}
              /\ s.busy \in BOOLEAN
         /\ s.pc = "report" =>
              s.state \in RuntimeState /\ s.next \in Profile \cup {NoProfile}
         /\ s.pc = "track" =>
              s.ref \in Ref /\ s.adding \in BOOLEAN /\ s.refs \subseteq Ref
         /\ s.pc = "replace" =>
              s.ref \in Ref /\ s.adding \in BOOLEAN /\ s.state \in RuntimeState
BY DEF Step, Idle, StartSteps

LEMMA States ==
  ASSUME NEW s \in RuntimeState, NEW st \in Status
  PROVE  /\ With(s, st) \in RuntimeState
         /\ With(s, st).status = st
         /\ With(s, st).profile = s.profile
         /\ With(s, st).instance = s.instance
         /\ With(s, st).refs = s.refs
         /\ With(s, st).audit = s.audit
         /\ Stopped(s) \in RuntimeState
         /\ Stopped(s).status = "stopped"
         /\ Stopped(s).profile = s.profile
         /\ Stopped(s).instance = s.instance
         /\ Stopped(s).audit = s.audit
         /\ Stopping(s) \in RuntimeState
         /\ Stopping(s).status = "stopping"
         /\ Stopping(s).profile = s.profile
         /\ Stopping(s).instance = s.instance
         /\ Stopping(s).refs \subseteq Stopping(s).audit
BY DEF RuntimeState, Status, With, Stopped, Stopping

LEMMA FreshStates ==
  ASSUME NEW f \in Profile, starts \in Nat
  PROVE  /\ Fresh(f) \in RuntimeState
         /\ Fresh(f).status = "starting"
         /\ Fresh(f).profile = f
         /\ Fresh(f).instance = starts + 1
BY DEF RuntimeState, Status, Fresh

LEMMA FileStates ==
  /\ NoFile \notin RuntimeState
  /\ NoFile.status = "none"
  /\ \A s \in RuntimeState : s.status # "none"
BY DEF RuntimeState, Status, NoFile

LEMMA ReconciledStates ==
  ASSUME NEW s \in RuntimeState, NEW up, NEW live, NEW busy,
         NEW n \in Reconciled(s, up, live, busy)
  PROVE  /\ n \in RuntimeState
         /\ n.profile = s.profile
         /\ n.instance = s.instance
         /\ s.status # "stopped"
         /\ n.status = "stopped" => s.status = "stopping" /\ ~up /\ n.audit = s.audit
         /\ n.status # "stopping"
         /\ \/ n = With(s, "running") /\ s.status \in {"starting", "running", "failed"}
            \/ n = With(s, "failed") /\ s.status \in {"starting", "running"}
            \/ n = Stopped(s) /\ s.status = "stopping"
BY States DEF Reconciled, Status, RuntimeState

(* A change of one process's step keeps the relation between steps and the *)
(* lock, provided it keeps it for that process and touches the lock for    *)
(* nobody else.                                                            *)
LEMMA OneStep ==
  ASSUME TypeOK,
         NEW p \in Proc, NEW s \in Step,
         Go(p, s),
         lock' \in Proc \cup {Nobody},
         \A q \in Proc \ {p} : lock' = q <=> lock = q,
         s # Idle => (lock' # p <=>
           \/ s.pc \in {"status", "probe", "report"} /\ s.next = NoProfile
           \/ s.pc \in {"track", "replace"}),
         s = Idle => lock' # p
  PROVE  /\ op' \in [Proc -> Step]
         /\ op'[p] = s
         /\ \A q \in Proc \ {p} : op'[q] = op[q]
         /\ \A q \in Proc : op'[q] # Idle => (Unlocked(q)' <=> lock' # q)
         /\ \A q \in Proc : lock' = q => op'[q] # Idle
BY DEF TypeOK, Go, Unlocked

(* An operation that takes the lock, one that does not, and one that ends. *)
LEMMA LockKept ==
  ASSUME TypeOK, NEW p \in Proc
  PROVE  /\ Acquire(p) =>
              /\ lock' \in Proc \cup {Nobody} /\ lock' = p
              /\ \A q \in Proc \ {p} : lock' = q <=> lock = q
         /\ Enter(p) =>
              /\ lock' \in Proc \cup {Nobody} /\ lock' # p
              /\ \A q \in Proc \ {p} : lock' = q <=> lock = q
         /\ Return(p) =>
              /\ Go(p, Idle)
              /\ lock' \in Proc \cup {Nobody} /\ lock' # p
              /\ \A q \in Proc \ {p} : lock' = q <=> lock = q
BY RuntimeAssumption DEF TypeOK, Acquire, Enter, Return

LEMMA TypeKept ==
  ASSUME TypeInv,
         NEW p \in Proc, NEW s \in Step,
         Go(p, s),
         lock' \in Proc \cup {Nobody},
         \A q \in Proc \ {p} : lock' = q <=> lock = q,
         s # Idle => (lock' # p <=>
           \/ s.pc \in {"status", "probe", "report"} /\ s.next = NoProfile
           \/ s.pc \in {"track", "replace"}),
         s = Idle => lock' # p,
         file' \in RuntimeState \/ file' = file,
         s.pc = "track" => file # NoFile,
         flows' \subseteq Profile, gateway' \in Answers, starts' \in Nat, owned' \subseteq Ref
  PROVE  TypeInv'
<1>1. TypeOK'
  BY OneStep DEF TypeOK, TypeInv
<1>2. FileExists'
  BY OneStep, FileStates DEF FileExists, TypeInv
<1> QED BY <1>1, <1>2 DEF TypeInv

(* An operation that ends leaves a typed state. *)
LEMMA ReturnTyped ==
  ASSUME TypeInv, NEW p \in Proc, Return(p),
         file' \in RuntimeState \/ file' = file,
         flows' \subseteq Profile, gateway' \in Answers, starts' \in Nat, owned' \subseteq Ref
  PROVE  TypeInv'
<1>1. TypeOK
  BY DEF TypeInv
<1>2. Idle \in Step /\ Idle.pc = "idle"
  BY DEF Step, Idle
<1> QED BY <1>1, <1>2, LockKept, TypeKept

(* A step inside an operation, the lock untouched. *)
LEMMA InsideTyped ==
  ASSUME TypeInv, NEW p \in Proc, NEW s \in Step, Go(p, s), UNCHANGED lock,
         op[p] # Idle, s # Idle,
         (\/ s.pc \in {"status", "probe", "report"} /\ s.next = NoProfile
          \/ s.pc \in {"track", "replace"}) <=> Unlocked(p),
         s.pc # "track",
         file' \in RuntimeState \/ file' = file,
         flows' \subseteq Profile, gateway' \in Answers, starts' \in Nat, owned' \subseteq Ref
  PROVE  TypeInv'
<1>1. TypeOK
  BY DEF TypeInv
<1>2. lock' # p <=> Unlocked(p)
  BY <1>1 DEF TypeOK
<1>3. lock' \in Proc \cup {Nobody} /\ \A q \in Proc \ {p} : lock' = q <=> lock = q
  BY <1>1 DEF TypeOK
<1> QED BY <1>2, <1>3, TypeKept

LEMMA StartTyped ==
  ASSUME TypeInv, NEW p \in Proc, StartStep(p)
  PROVE  TypeInv'
<1> TypeOK
  BY DEF TypeInv
<1>0. /\ op[p] \in Step /\ file \in RuntimeState \cup {NoFile}
      /\ flows \subseteq Profile /\ gateway \in Answers /\ starts \in Nat /\ owned \subseteq Ref
  BY DEF TypeOK
<1>1. ASSUME NEW f \in Profile, Start(p, f)
      PROVE  TypeInv'
  <2> DEFINE s == IF file.status \in {"starting", "running"} /\ file.profile = f
                  THEN Reading(file, f) ELSE Preparing(f)
  <2>1. /\ s \in Step /\ s # Idle /\ s.pc \in {"status", "prepare"}
        /\ s.pc = "status" => s.next # NoProfile
    BY <1>0, FileStates, RuntimeAssumption DEF Step, Idle, Reading, Preparing
  <2>2. Go(p, s) /\ Acquire(p)
    BY <1>1 DEF Start
  <2>3. UNCHANGED <<file, flows, gateway, starts, owned>>
    BY <1>1 DEF Start
  <2> HIDE DEF s
  <2> QED BY <2>1, <2>2, <2>3, <1>0, LockKept, TypeKept
<1>2. CASE StartRefused(p)
  BY <1>2, <1>0, ReturnTyped DEF StartRefused
<1>3. CASE SaveStarting(p)
  <2> DEFINE n == Fresh(op[p].profile)
             s == [pc |-> "launch", mine |-> n]
  <2>1. op[p].pc = "prepare" /\ op[p] # Idle /\ ~Unlocked(p)
    BY <1>3, <1>0, Shapes DEF SaveStarting, Unlocked
  <2>2. n \in RuntimeState
    BY <2>1, <1>0, Shapes, FreshStates
  <2>3. s \in Step /\ s # Idle /\ s.pc = "launch"
    BY <2>2 DEF Step, Idle
  <2>4. Go(p, s) /\ file' = n /\ starts' = starts + 1 /\ owned' = {}
        /\ UNCHANGED <<lock, flows, gateway>>
    BY <1>3 DEF SaveStarting
  <2> HIDE DEF s, n
  <2> QED BY <2>1, <2>2, <2>3, <2>4, <1>0, InsideTyped
<1>4. ASSUME NEW pc \in StartSteps,
             op[p].pc \in StartSteps,
             Go(p, [op[p] EXCEPT !.pc = pc]),
             flows' \subseteq Profile,
             UNCHANGED <<file, lock, gateway, starts, owned>>
      PROVE  TypeInv'
  <2> DEFINE s == [op[p] EXCEPT !.pc = pc]
  <2>1. op[p].mine \in RuntimeState /\ op[p] = [pc |-> op[p].pc, mine |-> op[p].mine]
        /\ op[p] # Idle /\ ~Unlocked(p)
    BY <1>4, <1>0, Shapes DEF StartSteps, Unlocked
  <2>2. s \in Step /\ s # Idle /\ s.pc = pc
    BY <2>1 DEF Step, Idle, StartSteps
  <2> HIDE DEF s
  <2> QED BY <1>4, <2>1, <2>2, <1>0, InsideTyped DEF StartSteps, s
<1>5. CASE Launch(p)
  <2>1. op[p].mine \in RuntimeState
    BY <1>5, <1>0, Shapes DEF Launch, StartSteps
  <2>2. flows' \subseteq Profile
    BY <1>5, <1>0, <2>1 DEF Launch, RuntimeState
  <2> QED BY <1>5, <2>2, <1>4 DEF Launch, StartSteps
<1>6. CASE HookFails(p)
  BY <1>6, <1>0, <1>4 DEF HookFails, StartSteps
<1>7. CASE StartFails(p)
  BY <1>7, <1>0, <1>4 DEF StartFails, StartSteps
<1>8. CASE SaveRunning(p)
  <2>1. file' \in RuntimeState
    BY <1>8, <1>0, Shapes, States DEF SaveRunning, StartSteps, Status
  <2> QED BY <1>8, <2>1, <1>0, ReturnTyped DEF SaveRunning
<1>9. CASE Rollback(p)
  BY <1>9, <1>0, <1>4 DEF Rollback, StartSteps
<1>10. CASE RollbackRaises(p)
  BY <1>10, <1>0, ReturnTyped DEF RollbackRaises
<1>11. CASE SaveStartFailed(p)
  <2>1. file' \in RuntimeState
    BY <1>11, <1>0, Shapes, States DEF SaveStartFailed, StartSteps, Status
  <2> QED BY <1>11, <2>1, <1>0, ReturnTyped DEF SaveStartFailed
<1> QED
  BY <1>1, <1>2, <1>3, <1>5, <1>6, <1>7, <1>8, <1>9, <1>10, <1>11 DEF StartStep

LEMMA StopTyped ==
  ASSUME TypeInv, NEW p \in Proc, StopStep(p)
  PROVE  TypeInv'
<1> TypeOK
  BY DEF TypeInv
<1>0. /\ op[p] \in Step /\ file \in RuntimeState \cup {NoFile}
      /\ flows \subseteq Profile /\ gateway \in Answers /\ starts \in Nat /\ owned \subseteq Ref
  BY DEF TypeOK
<1> DEFINE StopSteps == {"stop", "stop_flow", "stop_ok", "stop_failed"}
<1>1. ASSUME NEW force \in BOOLEAN, Stop(p, force)
      PROVE  TypeInv'
  <2> DEFINE s == [pc |-> "stop", state |-> Stopping(file), force |-> force]
  <2>1. file \in RuntimeState
    BY <1>1, <1>0 DEF Stop, StopProceeds
  <2>2. s \in Step /\ s # Idle /\ s.pc = "stop"
    BY <2>1, States DEF Step, Idle, Status
  <2>3. Go(p, s) /\ Acquire(p) /\ UNCHANGED <<file, flows, gateway, starts, owned>>
    BY <1>1 DEF Stop
  <2> HIDE DEF s
  <2> QED BY <2>2, <2>3, <1>0, LockKept, TypeKept
<1>2. ASSUME NEW pc \in StopSteps,
             op[p].pc \in StopSteps,
             Go(p, [op[p] EXCEPT !.pc = pc]),
             flows' \subseteq Profile,
             file' \in RuntimeState \/ file' = file,
             UNCHANGED <<lock, gateway, starts, owned>>
      PROVE  TypeInv'
  <2> DEFINE s == [op[p] EXCEPT !.pc = pc]
  <2>1. /\ op[p].state \in RuntimeState /\ op[p].force \in BOOLEAN
        /\ op[p] = [pc |-> op[p].pc, state |-> op[p].state, force |-> op[p].force]
        /\ op[p] # Idle /\ ~Unlocked(p)
    BY <1>2, <1>0, Shapes DEF Unlocked
  <2>2. s \in Step /\ s # Idle /\ s.pc = pc
    BY <2>1 DEF Step, Idle
  <2> HIDE DEF s
  <2> QED BY <1>2, <2>1, <2>2, <1>0, InsideTyped DEF s
<1>3. CASE SaveStopping(p)
  <2>1. file' \in RuntimeState
    BY <1>3, <1>0, Shapes DEF SaveStopping
  <2> QED BY <1>3, <2>1, <1>0, <1>2 DEF SaveStopping
<1>4. CASE StopFlow(p)
  BY <1>4, <1>0, <1>2 DEF StopFlow
<1>5. CASE SaveStopped(p)
  <2>1. file' \in RuntimeState
    BY <1>5, <1>0, Shapes, States DEF SaveStopped, Status
  <2> QED BY <1>5, <2>1, <1>0, ReturnTyped DEF SaveStopped
<1>6. CASE SaveStopFailed(p)
  <2>1. file' \in RuntimeState
    BY <1>6, <1>0, Shapes, States DEF SaveStopFailed, Status
  <2> QED BY <1>6, <2>1, <1>0, ReturnTyped DEF SaveStopFailed
<1> QED
  BY <1>1, <1>3, <1>4, <1>5, <1>6 DEF StopStep

(* After its report, status inside start returns or goes on to prepare. *)
LEMMA ReportTyped ==
  ASSUME TypeInv, NEW p \in Proc, NEW ready \in BOOLEAN, Reported(p, ready),
         op[p].pc \in {"probe", "report"},
         file' \in RuntimeState \/ file' = file,
         flows' \subseteq Profile, gateway' \in Answers, starts' \in Nat, owned' \subseteq Ref
  PROVE  TypeInv'
<1>0. op[p] \in Step
  BY DEF TypeOK, TypeInv
<1>1. CASE op[p].next = NoProfile \/ ready
  BY <1>1, ReturnTyped DEF Reported
<1>2. CASE ~(op[p].next = NoProfile \/ ready)
  <2> DEFINE s == Preparing(op[p].next)
  <2>1. op[p].next \in Profile /\ op[p] # Idle /\ ~Unlocked(p)
    BY <1>0, <1>2, Shapes DEF Unlocked
  <2>2. s \in Step /\ s # Idle /\ s.pc = "prepare"
    BY <2>1 DEF Step, Preparing, Idle
  <2>3. Go(p, s) /\ UNCHANGED lock
    BY <1>2 DEF Reported
  <2> HIDE DEF s
  <2> QED BY <2>1, <2>2, <2>3, InsideTyped
<1> QED BY <1>1, <1>2

LEMMA StatusTyped ==
  ASSUME TypeInv, NEW p \in Proc, StatusStep(p)
  PROVE  TypeInv'
<1> TypeOK
  BY DEF TypeInv
<1>0. /\ op[p] \in Step /\ file \in RuntimeState \cup {NoFile}
      /\ flows \subseteq Profile /\ gateway \in Answers /\ starts \in Nat /\ owned \subseteq Ref
  BY DEF TypeOK
<1>1. CASE ReadStatus(p)
  <2> DEFINE s == Reading(file, NoProfile)
  <2>1. s \in Step /\ s # Idle /\ s.pc = "status" /\ s.next = NoProfile
    BY <1>1, <1>0 DEF ReadStatus, Step, Reading, Idle
  <2>2. Go(p, s) /\ Enter(p) /\ UNCHANGED <<file, flows, gateway, starts, owned>>
    BY <1>1 DEF ReadStatus
  <2> HIDE DEF s
  <2> QED BY <2>1, <2>2, <1>0, LockKept, TypeKept
<1>2. CASE ProbeLock(p)
  <2> DEFINE s == [pc |-> "probe", seen |-> op[p].seen, next |-> op[p].next,
                   busy |-> op[p].seen.status = "starting" /\ lock # Nobody]
  <2>1. op[p].pc = "status" /\ op[p] # Idle
        /\ op[p].seen \in RuntimeState /\ op[p].next \in Profile \cup {NoProfile}
    BY <1>2, <1>0, Shapes DEF ProbeLock
  <2>2. s \in Step /\ s # Idle /\ s.pc = "probe" /\ s.next = op[p].next
    BY <2>1 DEF Step, Idle
  <2>3. Go(p, s) /\ UNCHANGED <<file, lock, flows, gateway, starts, owned>>
    BY <1>2 DEF ProbeLock
  <2>4. Unlocked(p) <=> op[p].next = NoProfile
    BY <2>1 DEF Unlocked
  <2> HIDE DEF s
  <2> QED BY <2>1, <2>2, <2>3, <2>4, <1>0, InsideTyped
<1>3. CASE Probe(p)
  <2>1. op[p].pc = "probe" /\ op[p] # Idle
        /\ op[p].seen \in RuntimeState /\ op[p].next \in Profile \cup {NoProfile}
        /\ UNCHANGED <<file, flows, gateway, starts, owned>>
    BY <1>3, <1>0, Shapes DEF Probe
  <2>2. CASE Reported(p, FALSE)
    BY <2>1, <2>2, <1>0, ReportTyped
  <2>3. ASSUME NEW up, NEW live, NEW n \in Reconciled(op[p].seen, up, live, op[p].busy),
               Go(p, [pc |-> "report", state |-> n, next |-> op[p].next]),
               UNCHANGED lock
        PROVE  TypeInv'
    <3> DEFINE s == [pc |-> "report", state |-> n, next |-> op[p].next]
    <3>1. s \in Step /\ s # Idle /\ s.pc = "report" /\ s.next = op[p].next
      BY <2>1, ReconciledStates DEF Step, Idle
    <3>2. Unlocked(p) <=> op[p].next = NoProfile
      BY <2>1 DEF Unlocked
    <3> HIDE DEF s
    <3> QED BY <2>1, <2>3, <3>1, <3>2, <1>0, InsideTyped DEF s
  <2> QED BY <1>3, <2>2, <2>3 DEF Probe
<1>4. CASE SaveReconciled(p)
  <2>1. file' \in RuntimeState
    BY <1>4, <1>0, Shapes DEF SaveReconciled
  <2>2. owned' \subseteq Ref
    BY <1>4, <1>0 DEF SaveReconciled
  <2> QED BY <1>4, <2>1, <2>2, <1>0, ReportTyped DEF SaveReconciled
<1> QED BY <1>1, <1>2, <1>3, <1>4 DEF StatusStep

LEMMA TrackTyped ==
  ASSUME TypeInv, NEW p \in Proc, TrackStep(p)
  PROVE  TypeInv'
<1> TypeOK
  BY DEF TypeInv
<1>0. /\ op[p] \in Step /\ file \in RuntimeState \cup {NoFile}
      /\ flows \subseteq Profile /\ gateway \in Answers /\ starts \in Nat /\ owned \subseteq Ref
  BY DEF TypeOK
<1>1. ASSUME NEW r \in Ref, NEW adding \in BOOLEAN, Track(p, r, adding)
      PROVE  TypeInv'
  <2> DEFINE s == [pc |-> "track", ref |-> r, adding |-> adding,
                   refs |-> IF adding THEN file.refs \cup {r} ELSE file.refs \ {r}]
  <2>1. file # NoFile /\ file.refs \subseteq Ref
    BY <1>1, <1>0, FileStates DEF Track, RuntimeState
  <2>2. s \in Step /\ s # Idle /\ s.pc = "track"
    BY <2>1 DEF Step, Idle
  <2>3. Go(p, s) /\ Enter(p) /\ UNCHANGED <<file, flows, gateway, starts, owned>>
    BY <1>1 DEF Track
  <2> HIDE DEF s
  <2> QED BY <2>1, <2>2, <2>3, <1>0, LockKept, TypeKept
<1>2. CASE LoadToReplace(p)
  <2> DEFINE s == [pc |-> "replace", ref |-> op[p].ref, adding |-> op[p].adding,
                   state |-> [file EXCEPT !.refs = op[p].refs]]
  <2>1. op[p].pc = "track" /\ op[p] # Idle /\ op[p].ref \in Ref /\ op[p].adding \in BOOLEAN
        /\ op[p].refs \subseteq Ref
    BY <1>2, <1>0, Shapes DEF LoadToReplace
  <2>2. file \in RuntimeState
    BY <2>1, <1>0 DEF TypeInv, FileExists
  <2>3. s \in Step /\ s # Idle /\ s.pc = "replace"
    BY <2>1, <2>2 DEF Step, Idle, RuntimeState
  <2>4. Go(p, s) /\ UNCHANGED <<file, lock, flows, gateway, starts, owned>>
    BY <1>2 DEF LoadToReplace
  <2>5. Unlocked(p)
    BY <2>1 DEF Unlocked
  <2> HIDE DEF s
  <2> QED BY <2>1, <2>3, <2>4, <2>5, <1>0, InsideTyped
<1>3. CASE Replace(p)
  <2>1. file' \in RuntimeState /\ op[p].ref \in Ref
    BY <1>3, <1>0, Shapes DEF Replace
  <2>2. owned' \subseteq Ref
    BY <1>3, <1>0, <2>1 DEF Replace
  <2> QED BY <1>3, <2>1, <2>2, <1>0, ReturnTyped DEF Replace
<1> QED BY <1>1, <1>2, <1>3 DEF TrackStep

(* Every step keeps every variable typed and the lock where it belongs. *)
LEMMA TypePreserved ==
  ASSUME TypeInv, [Next]_vars
  PROVE  TypeInv'
<1>1. ASSUME NEW p \in Proc, StepsOf(p)
      PROVE  TypeInv'
  <2>1. CASE Crash(p)
    BY <2>1, ReturnTyped DEF Crash, TypeInv, TypeOK
  <2> QED BY <1>1, <2>1, StartTyped, StopTyped, StatusTyped, TrackTyped DEF StepsOf
<1>2. CASE \/ \E f \in Profile : FlowDies(f)
           \/ \E g \in Answers : GatewayTurns(g)
           \/ UNCHANGED vars
  <2>1. /\ UNCHANGED <<file, lock, op, starts, owned>>
        /\ flows' \subseteq Profile /\ gateway' \in Answers
    BY <1>2 DEF FlowDies, GatewayTurns, vars, TypeInv, TypeOK
  <2> QED BY <2>1 DEF TypeInv, TypeOK, FileExists, Unlocked
<1> QED BY <1>1, <1>2 DEF Next, StepsOf

LEMMA TypeInit == Init => TypeInv
BY RuntimeAssumption DEF Init, TypeInv, TypeOK, FileExists, Step, Idle, Answers

(* Every reachable state is typed, and exactly the processes inside start  *)
(* or stop hold the lock, whatever overlaps and whoever dies.              *)
THEOREM RuntimeTyped == Spec => []TypeOK
<1>1. Spec => []TypeInv
  BY TypeInit, TypePreserved, PTL DEF Spec
<1> QED BY <1>1, PTL DEF TypeInv

(* Whoever replaces the file moves on in an operation. *)
LEMMA FileWriter ==
  ASSUME TypeInv, [Next]_vars, file' # file
  PROVE  \E q \in Proc : op[q] # Idle /\ op'[q] # op[q]
<1>1. ASSUME NEW q \in Proc, NEW s, Go(q, s), op[q].pc # s.pc, op[q] # Idle
      PROVE  op[q] # Idle /\ op'[q] # op[q]
  BY <1>1 DEF Go, TypeInv, TypeOK
<1>2. ASSUME NEW q \in Proc, Return(q), op[q] # Idle
      PROVE  op[q] # Idle /\ op'[q] # op[q]
  BY <1>2 DEF Return, Go, TypeInv, TypeOK
<1>3. ASSUME NEW q \in Proc, StartStep(q) PROVE op[q] # Idle /\ op'[q] # op[q]
  <2>1. CASE SaveStarting(q)
    BY <1>1, <2>1 DEF SaveStarting, Idle
  <2>2. CASE SaveRunning(q)
    <3>1. op[q] # Idle
      BY <2>2 DEF SaveRunning, Idle
    <3> QED BY <1>2, <2>2, <3>1 DEF SaveRunning
  <2>3. CASE SaveStartFailed(q)
    <3>1. op[q] # Idle
      BY <2>3 DEF SaveStartFailed, Idle
    <3> QED BY <1>2, <2>3, <3>1 DEF SaveStartFailed
  <2> QED BY <1>3, <2>1, <2>2, <2>3 DEF StartStep, Start, StartRefused, Launch, HookFails, StartFails,
         Rollback, RollbackRaises
<1>4. ASSUME NEW q \in Proc, StopStep(q) PROVE op[q] # Idle /\ op'[q] # op[q]
  <2>1. CASE SaveStopping(q)
    <3>1. op[q].pc = "stop" /\ Go(q, [op[q] EXCEPT !.pc = "stop_flow"])
      BY <2>1 DEF SaveStopping
    <3>2. [op[q] EXCEPT !.pc = "stop_flow"].pc = "stop_flow"
      BY <3>1 DEF TypeInv, TypeOK, Step, Idle
    <3>3. op[q] # Idle
      BY <3>1 DEF Idle
    <3> DEFINE s == [op[q] EXCEPT !.pc = "stop_flow"]
    <3>4. Go(q, s) /\ op[q].pc # s.pc
      BY <3>1, <3>2
    <3> HIDE DEF s
    <3> QED BY <1>1, <3>3, <3>4
  <2>2. CASE SaveStopped(q) \/ SaveStopFailed(q)
    BY <1>2, <2>2 DEF SaveStopped, SaveStopFailed, Idle
  <2> QED BY <1>4, <2>1, <2>2 DEF StopStep, Stop, StopFlow
<1>5. ASSUME NEW q \in Proc, StatusStep(q) PROVE op[q] # Idle /\ op'[q] # op[q]
  <2>1. CASE SaveReconciled(q)
    BY <1>1, <1>2, <2>1 DEF SaveReconciled, Reported, Preparing, Idle
  <2> QED BY <1>5, <2>1 DEF StatusStep, ReadStatus, ProbeLock, Probe
<1>6. ASSUME NEW q \in Proc, TrackStep(q) PROVE op[q] # Idle /\ op'[q] # op[q]
  <2>1. CASE Replace(q)
    BY <1>2, <2>1 DEF Replace, Idle
  <2> QED BY <1>6, <2>1 DEF TrackStep, Track, LoadToReplace
<1> QED BY <1>3, <1>4, <1>5, <1>6 DEF Next, Crash, FlowDies, GatewayTurns, vars

(* Whatever overlaps and whoever dies: between the first save of a start   *)
(* and its last, only status and the references, which take no lock,       *)
(* replace the file under it.                                              *)
THEOREM StartOwns == Spec => OwnStart
<1>1. TypeInv /\ [Next]_vars =>
        \A p \in Proc :
          op[p].pc \in StartSteps /\ file' # file =>
            \/ op'[p] # op[p]
            \/ \E q \in Proc : Unlocked(q) /\ op'[q] # op[q]
  <2> SUFFICES ASSUME TypeInv, [Next]_vars, NEW p \in Proc, op[p].pc \in StartSteps,
                      file' # file, op'[p] = op[p]
               PROVE  \E q \in Proc : Unlocked(q) /\ op'[q] # op[q]
    OBVIOUS
  <2>1. PICK q \in Proc : op[q] # Idle /\ op'[q] # op[q]
    BY FileWriter
  <2>2. lock = p
    BY DEF TypeInv, TypeOK, StartSteps, Unlocked, Idle
  <2>3. lock # q
    BY <2>1, <2>2
  <2> QED BY <2>1, <2>3 DEF TypeInv, TypeOK
<1>2. Spec => []TypeInv
  BY TypeInit, TypePreserved, PTL DEF Spec
<1> QED BY <1>1, <1>2, PTL DEF Spec, OwnStart

-----------------------------------------------------------------------------
(* What the only busy process has read or will write, against the file. *)
StopSaved == {"stop_flow", "stop_ok", "stop_failed"}

(* The references with one added or one taken away. *)
Edited(s, refs) ==
  refs = IF s.adding THEN file.refs \cup {s.ref} ELSE file.refs \ {s.ref}

Replaces(s) ==
  \E refs \in SUBSET Ref : Edited(s, refs) /\ s.state = [file EXCEPT !.refs = refs]

(* What a status may make of the Runtime it read. *)
Completes(state) ==
  \/ state = With(file, "running") /\ file.status \in {"starting", "running", "failed"}
  \/ state = With(file, "failed") /\ file.status \in {"starting", "running"}
  \/ state = Stopped(file) /\ file.status = "stopping"

Sound(s) ==
  /\ s.pc \in StartSteps => file = s.mine /\ file.status = "starting"
  /\ s.pc = "stop" => /\ file # NoFile /\ file.status # "stopped"
                      /\ s.state = Stopping(file)
  /\ s.pc \in StopSaved => file = s.state /\ file.status = "stopping"
  /\ s.pc = "stop_ok" => file.profile \notin flows
  /\ s.pc \in {"status", "probe"} => file = s.seen
  /\ s.pc = "report" =>
       /\ file # NoFile /\ file.status # "stopped" /\ s.state.status # "stopping"
       /\ s.state.profile = file.profile /\ s.state.instance = file.instance
       /\ s.state.status = "stopped" =>
            /\ file.status = "stopping" /\ file.profile \notin flows
            /\ s.state.audit = file.audit
       /\ Completes(s.state)
  /\ s.pc = "track" => file.status = "running" /\ Edited(s, s.refs)
  /\ s.pc = "replace" =>
       /\ file.status = "running" /\ s.state.status = "running"
       /\ s.state.profile = file.profile /\ s.state.instance = file.instance
       /\ Replaces(s)

FileSound ==
  /\ StoppedMeansDown
  /\ starts = IF file = NoFile THEN 0 ELSE file.instance
  /\ file.status = "stopping" => file.refs \subseteq file.audit

OneBusy == \A p, q \in Proc : op[p] # Idle /\ op[q] # Idle => p = q

AloneInv ==
  /\ TypeInv
  /\ OneBusy
  /\ \A p \in Proc : Sound(op[p])
  /\ FileSound

LifeStep == [Life!Next]_(Life!vars)

NeverBack ==
  file # NoFile =>
    /\ file' # NoFile
    /\ file'.instance >= file.instance
    /\ (file.status = "stopped" /\ file'.instance = file.instance) => file'.status = "stopped"

Forward == NeverBack /\ DropAudited /\ LifeStep

LEMMA AloneKept ==
  ASSUME AloneInv, TypeInv', NEW p \in Proc,
         op[p] # Idle \/ \A q \in Proc : op[q] = Idle,
         \A q \in Proc \ {p} : op'[q] = op[q],
         Sound(op[p])', FileSound'
  PROVE  AloneInv'
<1>1. \A q \in Proc \ {p} : op[q] = Idle /\ op'[q] = Idle
  BY DEF AloneInv, OneBusy
<1>2. OneBusy'
  BY <1>1 DEF OneBusy
<1>3. \A q \in Proc : Sound(op[q])'
  <2> TAKE q \in Proc
  <2>1. CASE q = p
    BY <2>1
  <2>2. CASE q # p
    BY <1>1, <2>2 DEF Sound, Idle, StartSteps, StopSaved
  <2> QED BY <2>1, <2>2
<1> QED BY <1>2, <1>3 DEF AloneInv

(* A step that leaves the file and starts nothing moves nothing back. *)
LEMMA FileUntouched ==
  ASSUME FileSound, UNCHANGED <<file, starts>>, flows' \subseteq flows,
         file \in RuntimeState \cup {NoFile}
  PROVE  FileSound' /\ Forward
<1>1. LifeStep
  BY DEF LifeStep, Life!Next, Life!FlowEnds
<1> QED
  BY <1>1, FileStates
  DEF FileSound, StoppedMeansDown, Forward, NeverBack, DropAudited, RuntimeState

(* A write for the same instance that neither stops it nor wakes it up. *)
LEMMA FileUpdated ==
  ASSUME FileSound, file \in RuntimeState, file' \in RuntimeState,
         file.status # "stopped", file'.status \notin {"stopped", "stopping"},
         file'.instance = file.instance, UNCHANGED starts, Life!Next
  PROVE  FileSound' /\ Forward
BY FileStates
DEF FileSound, StoppedMeansDown, Forward, NeverBack, DropAudited, RuntimeState, LifeStep

(* The last write of a stop, by stop or by the status that completes it. *)
LEMMA FileStopped ==
  ASSUME FileSound, file \in RuntimeState, file' \in RuntimeState,
         file.status = "stopping", file' = Stopped(file), file.profile \notin flows,
         UNCHANGED <<flows, starts>>
  PROVE  FileSound' /\ Forward
<1>1. /\ file'.status = "stopped" /\ file'.instance = file.instance
      /\ file'.profile = file.profile /\ file'.audit = file.audit
  BY States DEF Status
<1>2. file # NoFile /\ file' # NoFile
  BY FileStates
<1>3. Life!FinishStop
  BY <1>2 DEF Life!FinishStop, FileSound, Stopped
<1>4. LifeStep
  BY <1>3 DEF LifeStep, Life!Next
<1> QED
  BY <1>1, <1>2, <1>4, FileStates
  DEF FileSound, StoppedMeansDown, Forward, NeverBack, DropAudited, RuntimeState

(* The writes that change a status, on the lifecycle. *)
LEMMA StatusWrites ==
  ASSUME file \in RuntimeState, UNCHANGED flows,
         \/ file' = With(file, "running") /\ file.status \in {"starting", "running", "failed"}
         \/ file' = With(file, "failed") /\ file.status \in {"starting", "running", "stopping"}
  PROVE  Life!Next
<1>1. Life!Confirm \/ Life!Fail
  BY FileStates DEF Life!Confirm, Life!Fail, Life!Turns, With
<1> QED BY <1>1 DEF Life!Next

LEMMA Answer ==
  ASSUME ~ListMayFail, NEW f, NEW up \in FlowRunning(f)
  PROVE  up <=> f \in flows
BY DEF FlowRunning

(* A process that begins an operation finds no other one busy. *)
LEMMA Begins ==
  ASSUME Serialised, AloneInv, NEW p \in Proc, Acquire(p) \/ Enter(p)
  PROVE  op[p] = Idle /\ \A q \in Proc : op[q] = Idle
<1>1. TypeOK
  BY DEF AloneInv, TypeInv
<1>2. CASE Acquire(p)
  BY <1>1, <1>2, RuntimeAssumption DEF Acquire, TypeOK
<1>3. CASE Enter(p)
  BY <1>1, <1>3 DEF Enter
<1> QED BY <1>2, <1>3

(* Leaving an operation. *)
LEMMA Ends ==
  ASSUME AloneInv, TypeInv', NEW p \in Proc, op[p] # Idle, Return(p), FileSound'
  PROVE  AloneInv'
<1>1. op'[p] = Idle /\ \A q \in Proc \ {p} : op'[q] = op[q]
  BY DEF Return, Go, AloneInv, TypeInv, TypeOK
<1>2. Sound(op[p])'
  BY <1>1 DEF Sound, Idle, StartSteps, StopSaved
<1> QED BY <1>1, <1>2, AloneKept

LEMMA StartAlone ==
  ASSUME Serialised, ~ListMayFail, AloneInv, TypeInv', NEW p \in Proc, StartStep(p)
  PROVE  AloneInv' /\ Forward
<1>0. /\ op[p] \in Step /\ file \in RuntimeState \cup {NoFile} /\ starts \in Nat
      /\ op \in [Proc -> Step] /\ FileSound /\ Sound(op[p])
  BY DEF AloneInv, TypeInv, TypeOK
<1>1. ASSUME NEW f \in Profile, Start(p, f)
      PROVE  AloneInv' /\ Forward
  <2>1. /\ \A q \in Proc : op[q] = Idle
        /\ \A q \in Proc \ {p} : op'[q] = op[q]
        /\ op'[p] = IF file.status \in {"starting", "running"} /\ file.profile = f
                    THEN Reading(file, f) ELSE Preparing(f)
    BY <1>0, <1>1, Begins DEF Start, Go
  <2>2. UNCHANGED <<file, flows, starts>>
    BY <1>1 DEF Start
  <2>3. Sound(op[p])'
    BY <2>1, <2>2 DEF Sound, Reading, Preparing, StartSteps, StopSaved
  <2> QED BY <1>0, <2>1, <2>2, <2>3, AloneKept, FileUntouched
<1>2. CASE StartRefused(p) \/ RollbackRaises(p)
  <2>1. op[p] # Idle /\ Return(p) /\ UNCHANGED <<file, flows, starts>>
    BY <1>2 DEF StartRefused, RollbackRaises, Idle
  <2> QED BY <1>0, <2>1, Ends, FileUntouched
<1>3. CASE SaveStarting(p)
  <2>1. /\ op[p].pc = "prepare" /\ op[p] # Idle /\ op[p].profile \in Profile
        /\ UNCHANGED flows /\ starts' = starts + 1 /\ file' = Fresh(op[p].profile)
        /\ op'[p] = [pc |-> "launch", mine |-> Fresh(op[p].profile)]
        /\ \A q \in Proc \ {p} : op'[q] = op[q]
    BY <1>0, <1>3, Shapes DEF SaveStarting, Go
  <2>2. /\ file' \in RuntimeState /\ file'.status = "starting" /\ file'.instance = starts + 1
    BY <1>0, <2>1, FreshStates
  <2>3. /\ file # NoFile => file.instance \in Nat
        /\ starts = IF file = NoFile THEN 0 ELSE file.instance
    BY <1>0 DEF FileSound, RuntimeState
  <2>4. LifeStep
    <3>1. Life!Begin(op[p].profile)
      BY <2>1, <2>3 DEF Life!Begin, Fresh
    <3> QED BY <2>1, <3>1 DEF LifeStep, Life!Next
  <2>5. FileSound' /\ Forward
    BY <1>0, <2>1, <2>2, <2>3, <2>4, FileStates
    DEF FileSound, StoppedMeansDown, Forward, NeverBack, DropAudited
  <2>6. Sound(op[p])'
    BY <2>1, <2>2 DEF Sound, StartSteps, StopSaved
  <2> QED BY <2>1, <2>5, <2>6, AloneKept
<1>4. CASE Launch(p)
  <2>1. /\ op[p].pc \in StartSteps /\ op[p] # Idle
        /\ op'[p] = [op[p] EXCEPT !.pc = "wait"]
        /\ \A q \in Proc \ {p} : op'[q] = op[q]
        /\ UNCHANGED <<file, starts>>
    BY <1>0, <1>4 DEF Launch, Go, StartSteps, Idle
  <2>2. op[p] = [pc |-> op[p].pc, mine |-> op[p].mine] /\ file = op[p].mine
        /\ file.status = "starting"
    BY <1>0, <2>1, Shapes DEF Sound
  <2>3. Life!Launch
    BY <1>0, <1>4, <2>1, <2>2 DEF Launch, Life!Launch, NoFile
  <2>4. FileSound' /\ Forward
    BY <1>0, <2>1, <2>2, <2>3
    DEF FileSound, StoppedMeansDown, Forward, NeverBack, DropAudited, RuntimeState,
        LifeStep, Life!Next
  <2>5. op'[p] = [pc |-> "wait", mine |-> op[p].mine]
    BY <2>1, <2>2
  <2>6. Sound(op[p])'
    BY <2>1, <2>2, <2>5 DEF Sound, StartSteps, StopSaved
  <2> QED BY <2>1, <2>4, <2>6, AloneKept
<1>5. CASE HookFails(p) \/ StartFails(p) \/ Rollback(p)
  <2>1. /\ op[p].pc \in StartSteps /\ op[p] # Idle
        /\ flows' \subseteq flows /\ UNCHANGED <<file, starts>>
        /\ \A q \in Proc \ {p} : op'[q] = op[q]
        /\ \E pc \in {"start_failed", "rollback"} : op'[p] = [op[p] EXCEPT !.pc = pc]
    BY <1>0, <1>5 DEF HookFails, StartFails, Rollback, Go, StartSteps, Idle
  <2>2. op[p] = [pc |-> op[p].pc, mine |-> op[p].mine] /\ file = op[p].mine
        /\ file.status = "starting"
    BY <1>0, <2>1, Shapes DEF Sound
  <2>3. \E pc \in {"start_failed", "rollback"} : op'[p] = [pc |-> pc, mine |-> op[p].mine]
    BY <2>1, <2>2
  <2>4. Sound(op[p])'
    BY <2>1, <2>2, <2>3 DEF Sound, StartSteps, StopSaved
  <2> QED BY <1>0, <2>1, <2>4, AloneKept, FileUntouched
<1>6. CASE SaveRunning(p) \/ SaveStartFailed(p)
  <2>1. op[p].pc \in StartSteps /\ op[p] # Idle /\ Return(p) /\ UNCHANGED <<flows, starts>>
        /\ \E st \in {"running", "failed"} : file' = With(op[p].mine, st)
    <3>1. op[p].pc \in {"wait", "start_failed"} => op[p].pc \in StartSteps /\ op[p] # Idle
      BY DEF StartSteps, Idle
    <3>2. CASE SaveRunning(p)
      BY <3>1, <3>2 DEF SaveRunning
    <3>3. CASE SaveStartFailed(p)
      BY <3>1, <3>3 DEF SaveStartFailed
    <3> QED BY <1>6, <3>2, <3>3
  <2>2. op[p].mine \in RuntimeState /\ file = op[p].mine /\ file.status = "starting"
    BY <1>0, <2>1, Shapes DEF Sound
  <2>3. file' \in RuntimeState /\ file'.status \in {"running", "failed"}
        /\ file'.instance = file.instance
    BY <2>1, <2>2, States DEF Status
  <2>4. Life!Next
    BY <2>1, <2>2, StatusWrites
  <2>5. FileSound' /\ Forward
    BY <1>0, <2>1, <2>2, <2>3, <2>4, FileUpdated
  <2> QED BY <2>1, <2>5, Ends
<1> QED BY <1>1, <1>2, <1>3, <1>4, <1>5, <1>6 DEF StartStep

LEMMA StopAlone ==
  ASSUME Serialised, ~ListMayFail, AloneInv, TypeInv', NEW p \in Proc, StopStep(p)
  PROVE  AloneInv' /\ Forward
<1>0. /\ op[p] \in Step /\ file \in RuntimeState \cup {NoFile} /\ starts \in Nat
      /\ op \in [Proc -> Step] /\ FileSound /\ Sound(op[p])
  BY DEF AloneInv, TypeInv, TypeOK
<1>1. ASSUME NEW force \in BOOLEAN, Stop(p, force)
      PROVE  AloneInv' /\ Forward
  <2>1. /\ \A q \in Proc : op[q] = Idle
        /\ \A q \in Proc \ {p} : op'[q] = op[q]
        /\ op'[p] = [pc |-> "stop", state |-> Stopping(file), force |-> force]
    BY <1>0, <1>1, Begins DEF Stop, Go
  <2>2. UNCHANGED <<file, flows, starts>> /\ file # NoFile
    BY <1>1 DEF Stop, StopProceeds
  <2>3. file.status # "stopped"
    BY <1>0, <1>1 DEF Stop, StopProceeds, FileSound, StoppedMeansDown, FlowRunning
  <2>4. Sound(op[p])'
    BY <2>1, <2>2, <2>3 DEF Sound, StartSteps, StopSaved, Stopping
  <2> QED BY <1>0, <2>1, <2>2, <2>4, AloneKept, FileUntouched
<1>2. CASE SaveStopping(p)
  <2>1. /\ op[p].pc = "stop" /\ op[p] # Idle /\ UNCHANGED <<flows, starts>>
        /\ file' = op[p].state /\ op'[p] = [op[p] EXCEPT !.pc = "stop_flow"]
        /\ \A q \in Proc \ {p} : op'[q] = op[q]
    BY <1>0, <1>2 DEF SaveStopping, Go, Idle
  <2>2. /\ file \in RuntimeState /\ file.status # "stopped" /\ file' = Stopping(file)
        /\ op'[p] = [pc |-> "stop_flow", state |-> op[p].state, force |-> op[p].force]
    BY <1>0, <2>1, Shapes DEF Sound
  <2>3. /\ file' \in RuntimeState /\ file'.status = "stopping"
        /\ file'.instance = file.instance /\ file'.refs \subseteq file'.audit
    BY <2>2, States DEF Status
  <2>4. Life!BeginStop
    BY <2>1, <2>2, FileStates DEF Life!BeginStop, Stopping
  <2>5. FileSound' /\ Forward
    BY <1>0, <2>1, <2>2, <2>3, <2>4, FileStates
    DEF FileSound, StoppedMeansDown, Forward, NeverBack, DropAudited, RuntimeState,
        LifeStep, Life!Next
  <2>6. Sound(op[p])'
    BY <2>1, <2>2, <2>3 DEF Sound, StartSteps, StopSaved
  <2> QED BY <2>1, <2>5, <2>6, AloneKept
<1>3. CASE StopFlow(p)
  <2>1. /\ op[p].pc = "stop_flow" /\ op[p] # Idle /\ flows' \subseteq flows
        /\ UNCHANGED <<file, starts>>
        /\ \A q \in Proc \ {p} : op'[q] = op[q]
    <3>1. op[p].pc = "stop_flow" /\ op[p] # Idle
      BY <1>3 DEF StopFlow, Idle
    <3>2. flows' \subseteq flows /\ UNCHANGED <<file, starts>>
      BY <1>3 DEF StopFlow
    <3>3. \E s : Go(p, s)
      BY <1>3 DEF StopFlow
    <3> QED BY <1>0, <3>1, <3>2, <3>3 DEF Go
  <2>2. /\ file = op[p].state /\ file.status = "stopping"
        /\ op[p] = [pc |-> op[p].pc, state |-> op[p].state, force |-> op[p].force]
    BY <1>0, <2>1, Shapes DEF Sound, StopSaved
  <2>3. \/ op'[p].pc = "stop_ok" /\ file.profile \notin flows'
        \/ op'[p].pc = "stop_failed"
    BY <1>0, <1>3, <2>1, <2>2 DEF StopFlow, Go, FlowRunning
  <2>4. op'[p].state = op[p].state
    BY <1>0, <1>3, <2>2 DEF StopFlow, Go
  <2>5. Sound(op[p])'
    BY <2>1, <2>2, <2>3, <2>4 DEF Sound, StartSteps, StopSaved
  <2> QED BY <1>0, <2>1, <2>5, AloneKept, FileUntouched
<1>4. CASE SaveStopped(p)
  <2>1. /\ op[p].pc = "stop_ok" /\ op[p] # Idle /\ Return(p) /\ UNCHANGED <<flows, starts>>
        /\ file' = Stopped(op[p].state)
    BY <1>4 DEF SaveStopped, Idle
  <2>2. /\ op[p].state \in RuntimeState /\ file = op[p].state
        /\ file.status = "stopping" /\ file.profile \notin flows
    BY <1>0, <2>1, Shapes DEF Sound, StopSaved
  <2>3. file' \in RuntimeState
    BY <2>1, <2>2, States DEF Status
  <2>4. FileSound' /\ Forward
    BY <1>0, <2>1, <2>2, <2>3, FileStopped
  <2> QED BY <2>1, <2>4, Ends
<1>5. CASE SaveStopFailed(p)
  <2>1. /\ op[p].pc = "stop_failed" /\ op[p] # Idle /\ Return(p) /\ UNCHANGED <<flows, starts>>
        /\ file' = With(op[p].state, "failed")
    BY <1>5 DEF SaveStopFailed, Idle
  <2>2. op[p].state \in RuntimeState /\ file = op[p].state /\ file.status = "stopping"
    BY <1>0, <2>1, Shapes DEF Sound, StopSaved
  <2>3. file' \in RuntimeState /\ file'.status = "failed" /\ file'.instance = file.instance
    BY <2>1, <2>2, States DEF Status
  <2>4. Life!Next
    BY <2>1, <2>2, StatusWrites
  <2>5. FileSound' /\ Forward
    BY <1>0, <2>1, <2>2, <2>3, <2>4, FileUpdated
  <2> QED BY <2>1, <2>5, Ends
<1> QED BY <1>1, <1>2, <1>3, <1>4, <1>5 DEF StopStep

(* Once the report is written, status ends or start goes on to prepare. *)
LEMMA ReportAlone ==
  ASSUME AloneInv, TypeInv', NEW p \in Proc, NEW ready \in BOOLEAN,
         op[p] # Idle, Reported(p, ready), FileSound'
  PROVE  AloneInv'
<1>1. CASE op[p].next = NoProfile \/ ready
  BY <1>1, Ends DEF Reported
<1>2. CASE ~(op[p].next = NoProfile \/ ready)
  <2>1. op'[p] = Preparing(op[p].next) /\ \A q \in Proc \ {p} : op'[q] = op[q]
    BY <1>2 DEF Reported, Go, AloneInv, TypeInv, TypeOK
  <2>2. Sound(op[p])'
    BY <2>1 DEF Sound, Preparing, StartSteps, StopSaved
  <2> QED BY <2>1, <2>2, AloneKept
<1> QED BY <1>1, <1>2

LEMMA StatusAlone ==
  ASSUME Serialised, ~ListMayFail, AloneInv, TypeInv', NEW p \in Proc, StatusStep(p)
  PROVE  AloneInv' /\ Forward
<1>0. /\ op[p] \in Step /\ file \in RuntimeState \cup {NoFile} /\ starts \in Nat
      /\ op \in [Proc -> Step] /\ FileSound /\ Sound(op[p])
  BY DEF AloneInv, TypeInv, TypeOK
<1>1. CASE ReadStatus(p)
  <2>1. /\ \A q \in Proc : op[q] = Idle
        /\ \A q \in Proc \ {p} : op'[q] = op[q]
        /\ op'[p] = Reading(file, NoProfile)
        /\ UNCHANGED <<file, flows, starts>>
    BY <1>0, <1>1, Begins DEF ReadStatus, Go
  <2>2. Sound(op[p])'
    BY <2>1 DEF Sound, Reading, StartSteps, StopSaved
  <2> QED BY <1>0, <2>1, <2>2, AloneKept, FileUntouched
<1>2. CASE ProbeLock(p)
  <2>1. /\ op[p].pc = "status" /\ op[p] # Idle
        /\ UNCHANGED <<file, flows, starts>>
        /\ op'[p].pc = "probe" /\ op'[p].seen = op[p].seen
        /\ \A q \in Proc \ {p} : op'[q] = op[q]
    BY <1>0, <1>2 DEF ProbeLock, Go, Idle
  <2>2. Sound(op[p])'
    BY <1>0, <2>1 DEF Sound, StartSteps, StopSaved
  <2> QED BY <1>0, <2>1, <2>2, AloneKept, FileUntouched
<1>3. CASE Probe(p)
  <2>1. /\ op[p].pc = "probe" /\ op[p] # Idle
        /\ UNCHANGED <<file, flows, starts>>
        /\ op[p].seen \in RuntimeState /\ file = op[p].seen
    BY <1>0, <1>3, Shapes DEF Probe, Idle, Sound
  <2>2. FileSound' /\ Forward
    BY <1>0, <2>1, FileUntouched
  <2>3. CASE Reported(p, FALSE)
    BY <2>1, <2>2, <2>3, ReportAlone
  <2>4. ASSUME NEW up \in FlowRunning(op[p].seen.profile), NEW live,
               NEW n \in Reconciled(op[p].seen, up, live, op[p].busy),
               Go(p, [pc |-> "report", state |-> n, next |-> op[p].next])
        PROVE  AloneInv' /\ Forward
    <3>1. /\ op'[p] = [pc |-> "report", state |-> n, next |-> op[p].next]
          /\ \A q \in Proc \ {p} : op'[q] = op[q]
      BY <1>0, <2>4 DEF Go
    <3>2. /\ n.profile = file.profile /\ n.instance = file.instance
          /\ file.status # "stopped" /\ n.status # "stopping"
          /\ n.status = "stopped" => /\ file.status = "stopping" /\ ~up
                                     /\ n.audit = file.audit
          /\ Completes(n)
      BY <2>1, <2>4, ReconciledStates DEF Completes
    <3>3. ~up => file.profile \notin flows
      BY <2>1, <2>4, Answer
    <3>4. file # NoFile
      BY <2>1, FileStates
    <3>5. Sound(op[p])'
      BY <2>1, <3>1, <3>2, <3>3, <3>4 DEF Sound, StartSteps, StopSaved, Completes, With, Stopped
    <3> QED BY <2>1, <2>2, <3>1, <3>5, AloneKept
  <2> QED BY <1>3, <2>3, <2>4, <2>2 DEF Probe
<1>4. CASE SaveReconciled(p)
  <2>1. /\ op[p].pc = "report" /\ op[p] # Idle
        /\ UNCHANGED <<flows, starts>> /\ file' = op[p].state
        /\ file' \in RuntimeState
        /\ Reported(p, file'.status = "running")
    BY <1>0, <1>4, Shapes DEF SaveReconciled
  <2>2. /\ file \in RuntimeState /\ file.status # "stopped" /\ file'.status # "stopping"
        /\ file'.profile = file.profile /\ file'.instance = file.instance
        /\ file'.status = "stopped" =>
             /\ file.status = "stopping" /\ file.profile \notin flows
             /\ file'.audit = file.audit
        /\ Completes(file')
    BY <1>0, <2>1 DEF Sound
  <2>3. FileSound' /\ Forward
    <3>1. CASE file' = Stopped(file) /\ file.status = "stopping"
      <4>1. file'.status = "stopped"
        BY <2>2, <3>1, States DEF Status
      <4> QED BY <1>0, <2>1, <2>2, <3>1, <4>1, FileStopped
    <3>2. CASE ~(file' = Stopped(file) /\ file.status = "stopping")
      <4>1. Life!Next /\ file'.status # "stopped"
        BY <2>1, <2>2, <3>2, StatusWrites, States DEF Status, Completes
      <4> QED BY <1>0, <2>1, <2>2, <4>1, FileUpdated
    <3> QED BY <3>1, <3>2
  <2> QED BY <2>1, <2>3, ReportAlone
<1> QED BY <1>1, <1>2, <1>3, <1>4 DEF StatusStep

LEMMA TrackAlone ==
  ASSUME Serialised, ~ListMayFail, AloneInv, TypeInv', NEW p \in Proc, TrackStep(p)
  PROVE  AloneInv' /\ Forward
<1>0. /\ op[p] \in Step /\ file \in RuntimeState \cup {NoFile} /\ starts \in Nat
      /\ op \in [Proc -> Step] /\ FileSound /\ Sound(op[p])
  BY DEF AloneInv, TypeInv, TypeOK
<1>1. ASSUME NEW r \in Ref, NEW adding \in BOOLEAN, Track(p, r, adding)
      PROVE  AloneInv' /\ Forward
  <2>1. /\ \A q \in Proc : op[q] = Idle
        /\ \A q \in Proc \ {p} : op'[q] = op[q]
        /\ op'[p].pc = "track" /\ Edited(op'[p], op'[p].refs)
        /\ file.status = "running" /\ UNCHANGED <<file, flows, starts>>
    BY <1>0, <1>1, Begins DEF Track, Go, Edited
  <2>2. Sound(op[p])'
    BY <2>1 DEF Sound, StartSteps, StopSaved, Edited, Replaces
  <2> QED BY <1>0, <2>1, <2>2, AloneKept, FileUntouched
<1>2. CASE LoadToReplace(p)
  <2>1. /\ op[p].pc = "track" /\ op[p] # Idle
        /\ UNCHANGED <<file, flows, starts>>
        /\ op'[p].pc = "replace" /\ op'[p].state = [file EXCEPT !.refs = op[p].refs]
        /\ op'[p].ref = op[p].ref /\ op'[p].adding = op[p].adding
        /\ \A q \in Proc \ {p} : op'[q] = op[q]
    BY <1>0, <1>2 DEF LoadToReplace, Go, Idle
  <2>2. /\ file \in RuntimeState /\ file.status = "running"
        /\ op[p].refs \in SUBSET Ref /\ Edited(op'[p], op[p].refs)
    BY <1>0, <2>1, FileStates, Shapes DEF Sound, Edited
  <2>3. /\ op'[p].state.status = "running" /\ op'[p].state.profile = file.profile
        /\ op'[p].state.instance = file.instance
    BY <2>1, <2>2 DEF RuntimeState
  <2>4. Sound(op[p])'
    BY <2>1, <2>2, <2>3 DEF Sound, StartSteps, StopSaved, Edited, Replaces
  <2> QED BY <1>0, <2>1, <2>4, AloneKept, FileUntouched
<1>3. CASE Replace(p)
  <2>1. /\ op[p].pc = "replace" /\ op[p] # Idle /\ Return(p) /\ UNCHANGED <<flows, starts>>
        /\ file' = op[p].state /\ file' \in RuntimeState /\ op[p].ref \in Ref
    BY <1>0, <1>3, Shapes DEF Replace
  <2>2. /\ file \in RuntimeState /\ file.status = "running" /\ file'.status = "running"
        /\ file'.instance = file.instance
    BY <1>0, <2>1, FileStates DEF Sound
  <2>3. Life!Next
    <3>1. PICK refs \in SUBSET Ref : Edited(op[p], refs) /\ file' = [file EXCEPT !.refs = refs]
      BY <1>0, <2>1 DEF Sound, Replaces
    <3>2. Life!Hold(op[p].ref)
      BY <2>1, <2>2, <3>1, FileStates DEF Life!Hold, Edited
    <3> QED BY <2>1, <3>2 DEF Life!Next
  <2>4. FileSound' /\ Forward
    BY <1>0, <2>1, <2>2, <2>3, FileUpdated
  <2> QED BY <2>1, <2>4, Ends
<1> QED BY <1>1, <1>2, <1>3 DEF TrackStep

LEMMA AlonePreserved ==
  ASSUME Serialised, ~ListMayFail, AloneInv, [Next]_vars
  PROVE  AloneInv' /\ Forward
<1>0. /\ TypeInv' /\ FileSound
      /\ file \in RuntimeState \cup {NoFile}
  BY TypePreserved DEF AloneInv, TypeInv, TypeOK
<1>1. ASSUME NEW p \in Proc, StepsOf(p)
      PROVE  AloneInv' /\ Forward
  <2>1. CASE Crash(p)
    <3>1. op[p] # Idle /\ Return(p) /\ UNCHANGED <<file, flows, starts>>
      BY <2>1 DEF Crash
    <3> QED BY <1>0, <3>1, Ends, FileUntouched
  <2> QED BY <1>0, <1>1, <2>1, StartAlone, StopAlone, StatusAlone, TrackAlone DEF StepsOf
<1>2. CASE \/ \E f \in Profile : FlowDies(f)
           \/ \E g \in Answers : GatewayTurns(g)
           \/ UNCHANGED vars
  <2>1. UNCHANGED <<file, op, starts>> /\ flows' \subseteq flows
    BY <1>2 DEF FlowDies, GatewayTurns, vars
  <2>2. FileSound' /\ Forward
    BY <1>0, <2>1, FileUntouched
  <2>3. ASSUME NEW p \in Proc PROVE Sound(op[p])'
    <3> DEFINE s == op[p]
    <3>1. /\ file' = file /\ s' = s /\ Sound(s) /\ flows' \subseteq flows
      BY <2>1 DEF AloneInv
    <3>2. /\ s.pc = "replace" => Replaces(s)'
          /\ s.pc = "track" => Edited(s, s.refs)'
      BY <3>1 DEF Sound, Replaces, Edited
    <3>3. s.pc = "report" => Completes(s.state)'
      BY <3>1 DEF Sound, Completes, With, Stopped
    <3> QED BY <3>1, <3>2, <3>3 DEF Sound, Stopping
  <2>4. OneBusy'
    BY <2>1 DEF AloneInv, OneBusy
  <2> QED BY <1>0, <2>2, <2>3, <2>4 DEF AloneInv
<1> QED BY <1>1, <1>2 DEF Next, StepsOf

LEMMA AloneInit == Init => AloneInv
<1> SUFFICES ASSUME Init PROVE AloneInv
  OBVIOUS
<1>1. \A p \in Proc : op[p] = Idle
  BY DEF Init
<1>2. \A p \in Proc : Sound(op[p])
  <2>1. Sound(Idle)
    BY DEF Sound, Idle, StartSteps, StopSaved
  <2> QED BY <1>1, <2>1
<1>3. FileSound
  BY DEF Init, FileSound, StoppedMeansDown, NoFile
<1> QED BY <1>1, <1>2, <1>3, TypeInit DEF AloneInv, OneBusy

LEMMA AloneAlways ==
  ASSUME Serialised, ~ListMayFail
  PROVE  Spec => []AloneInv /\ [][Forward]_vars
<1>1. Init => AloneInv
  BY AloneInit
<1>2. AloneInv /\ [Next]_vars => AloneInv'
  BY AlonePreserved
<1>3. AloneInv /\ [Next]_vars => [Forward]_vars
  BY AlonePreserved
<1> QED BY <1>1, <1>2, <1>3, PTL DEF Spec

(* A Runtime recorded as stopped is down, for any number of processes that *)
(* start, stop and die, when nothing overlaps the unlocked operations.     *)
THEOREM StoppedDown ==
  ASSUME Serialised, ~ListMayFail
  PROVE  Spec => []StoppedMeansDown
<1>1. AloneInv => StoppedMeansDown
  BY DEF AloneInv, FileSound
<1> QED BY AloneAlways, <1>1, PTL

(* Under the same conditions a reference that a stop drops is audited. *)
THEOREM AuditedDrops ==
  ASSUME Serialised, ~ListMayFail
  PROVE  Spec => DropsAudited
<1>1. Forward => DropAudited
  BY DEF Forward
<1> QED BY AloneAlways, <1>1, PTL DEF DropsAudited

(* Under the same conditions the file and the flows implement              *)
(* RuntimeLifecycle, for any processes, profiles and references: start,    *)
(* stop, the status that completes either, and the sets of references move *)
(* a Runtime only along that lifecycle, whoever dies in between.           *)
THEOREM LifecycleImplemented ==
  ASSUME Serialised, ~ListMayFail
  PROVE  Spec => ImplementsLifecycle
<1>1. Init => Life!Init
  BY DEF Init, Life!Init
<1>2. Forward => [Life!Next]_(Life!vars)
  BY DEF Forward, LifeStep
<1>3. UNCHANGED vars => UNCHANGED Life!vars
  BY DEF vars, Life!vars
<1> QED BY AloneAlways, <1>1, <1>2, <1>3, PTL DEF Spec, ImplementsLifecycle, Life!Spec
=============================================================================
