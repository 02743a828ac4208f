---------------------------- MODULE RuntimeSwitch ----------------------------
(***************************************************************************)
(* Switching from one Skill Runtime to another (switch of                  *)
(* skill_runtime/integration.py, called by paos skill switch), while the   *)
(* Agent in another process follows the state files, binds a task to the   *)
(* Runtime it finds and records the reference.                             *)
(*                                                                         *)
(* start, stop and status of one Skill are one step each: SkillRuntime     *)
(* has their details.  One switch runs at a time, and no other command.    *)
(***************************************************************************)
EXTENDS Naturals, FiniteSets

CONSTANTS
  Skill, Profile,
  NoRuntime,      \* no Runtime
  ServesAt,       \* the Gateway address of each Skill, as its manifest says
  MaxSwitches,    \* bound: switches begun
  MaxSwitchFaults \* bound: operations that fail

ASSUME SwitchAssumption ==
  /\ NoRuntime \notin Skill
  /\ MaxSwitches \in Nat /\ MaxSwitchFaults \in Nat

VARIABLES
  recorded, \* state files: the status and profile of each Skill
  refs,     \* state files: Skills that hold a reference to a task
  live,     \* <<skill, profile>> of each flow that runs
  slot,     \* the Runtime of the non-terminal task, or NoRuntime
  binding,  \* create_task: what the Agent is doing, with the Runtime it froze
  switch,   \* the switch: its step, the Runtime it found, its target
  switches,
  startFaults, \* starts that failed, and targets found not ready
  stopFaults,  \* flows that dora could not stop, or that the discovery missed
  lostStops    \* stops that failed although dora had stopped the flow

switchVars == <<recorded, refs, live, slot, binding, switch, switches, startFaults,
                stopFaults, lostStops>>

Runtime == Skill \X Profile
SwitchStatus == {"none", "running", "stopped", "failed"}
NoSwitch == [pc |-> "idle", current |-> {}, target |-> {}]

SwitchTypeOK ==
  /\ recorded \in [Skill -> [status: SwitchStatus, profile: Profile]]
  /\ refs \subseteq Skill
  /\ live \subseteq Runtime
  /\ slot \in Skill \cup {NoRuntime}
  /\ binding \in [pc: {"none", "frozen", "held", "ended"}, skill: Skill \cup {NoRuntime}]
  /\ switch \in [pc: {"idle", "check", "stop first", "start", "ready", "clean up", "restore",
                      "stop old", "undo"},
                 current: SUBSET Runtime, target: SUBSET Runtime]
  /\ switches \in 0..MaxSwitches /\ startFaults \in Nat /\ stopFaults \in Nat
  /\ lostStops \in Nat /\ startFaults + stopFaults + lostStops <= MaxSwitchFaults

\* One Runtime serves: it was started earlier.
SwitchInit ==
  /\ \E r \in Runtime : live = {r} /\ recorded = [s \in Skill |->
       [status |-> IF s = r[1] THEN "running" ELSE "none", profile |-> r[2]]]
  /\ refs = {} /\ slot = NoRuntime /\ binding = [pc |-> "none", skill |-> NoRuntime]
  /\ switch = NoSwitch /\ switches = 0 /\ startFaults = 0 /\ stopFaults = 0
  /\ lostStops = 0

switchFaults == <<startFaults, stopFaults, lostStops>>
MayFail == startFaults + stopFaults + lostStops < MaxSwitchFaults
StartFault == MayFail /\ startFaults' = startFaults + 1 /\ UNCHANGED <<stopFaults, lostStops>>
StopFault == MayFail /\ stopFaults' = stopFaults + 1 /\ UNCHANGED <<startFaults, lostStops>>
LostStop == MayFail /\ lostStops' = lostStops + 1 /\ UNCHANGED <<startFaults, stopFaults>>
SwitchAt(pc) == switch' = [switch EXCEPT !.pc = pc]
Over == switch' = NoSwitch
agent == <<slot, binding>>
Records(s, st, p) == recorded' = [recorded EXCEPT ![s] = [status |-> st, profile |-> p]]

-----------------------------------------------------------------------------
(* The Agent: ActiveRuntimeRegistry.current follows the state files and     *)
(* raises when two Runtimes are recorded as running.                        *)
Followed == {s \in Skill : recorded[s].status = "running"}
Current(s) == Followed = {s}

BindTask(s) ==
  /\ binding.pc = "none" /\ slot = NoRuntime /\ Current(s)
  /\ binding' = [pc |-> "frozen", skill |-> s]
  /\ UNCHANGED <<recorded, refs, live, slot, switch, switches, switchFaults>>

\* The reference goes to the Runtime that is current now; without one, create_task raises.
HoldBinding ==
  /\ binding.pc = "frozen"
  /\ IF Cardinality(Followed) = 1
     THEN refs' = refs \cup Followed /\ binding' = [binding EXCEPT !.pc = "held"]
     ELSE refs' = refs /\ binding' = [pc |-> "none", skill |-> NoRuntime]
  /\ UNCHANGED <<recorded, live, slot, switch, switches, switchFaults>>

StoreTask ==
  /\ binding.pc = "held" /\ slot = NoRuntime
  /\ slot' = binding.skill
  /\ UNCHANGED <<recorded, refs, live, binding, switch, switches, switchFaults>>

EndTask ==
  /\ binding.pc = "held" /\ slot # NoRuntime
  /\ slot' = NoRuntime /\ binding' = [binding EXCEPT !.pc = "ended"]
  /\ UNCHANGED <<recorded, refs, live, switch, switches, switchFaults>>

\* discard acts on the Runtime that is current, and on none when there is none or more.
ReleaseBinding ==
  /\ binding.pc = "ended"
  /\ refs' = IF Cardinality(Followed) = 1 THEN refs \ Followed ELSE refs
  /\ binding' = [pc |-> "none", skill |-> NoRuntime]
  /\ UNCHANGED <<recorded, live, slot, switch, switches, switchFaults>>

-----------------------------------------------------------------------------
(* RuntimeManager, as the switch calls it.                                  *)
InUse(s) == \E r \in live : ServesAt[r[1]] = ServesAt[s]

\* start refuses an address in use, before or (a fault) after its first save fails.
StartDone(s, p) == ~InUse(s) /\ live' = live \cup {<<s, p>>} /\ Records(s, "running", p)
               /\ refs' = refs \ {s} /\ UNCHANGED switchFaults
AddressRefused(s) == InUse(s) /\ UNCHANGED <<live, recorded, refs, switchFaults>>
StartBroken(s, p) ==
  /\ ~InUse(s) /\ StartFault
  /\ \/ UNCHANGED <<live, recorded, refs>>
     \/ live' = live /\ Records(s, "failed", p) /\ refs' = refs \ {s}
\* The rollback of a start does not look whether its dora stop achieved anything.
LeftBehind(s, p) ==
  /\ ~InUse(s) /\ startFaults + stopFaults + lostStops + 2 <= MaxSwitchFaults
  /\ startFaults' = startFaults + 1 /\ stopFaults' = stopFaults + 1 /\ UNCHANGED lostStops
  /\ live' = live \cup {<<s, p>>} /\ Records(s, "failed", p) /\ refs' = refs \ {s}
StartFailed(s, p) == AddressRefused(s) \/ StartBroken(s, p) \/ LeftBehind(s, p)

\* The status right after a start: a Tool context has gone again.
StartUnready(s, p) == ~InUse(s) /\ live' = live \cup {<<s, p>>} /\ Records(s, "failed", p)
                  /\ refs' = refs \ {s} /\ StartFault

(* stop refuses while references exist, unless forced.  dora stop may fail  *)
(* and leave the flow, or time out when the flow is down already.           *)
FlowGone(s) == {r \in live : r[1] # s}
StopDone(s, force) ==
  /\ s \notin refs \/ force
  /\ live' = FlowGone(s) /\ Records(s, "stopped", recorded[s].profile)
  /\ refs' = refs \ {s} /\ UNCHANGED switchFaults
StopFailed(s, force) ==
  \/ s \in refs /\ ~force /\ UNCHANGED <<live, recorded, refs, switchFaults>>
  \/ /\ s \notin refs \/ force
     /\ \/ StopFault /\ UNCHANGED live
        \/ LostStop /\ live' = FlowGone(s)
     /\ Records(s, "failed", recorded[s].profile) /\ UNCHANGED refs

-----------------------------------------------------------------------------
(* SkillRuntimeController.switch.                                           *)
Wanted == CHOOSE r \in switch.target : TRUE
Old == CHOOSE r \in switch.current : TRUE
\* The old Runtime makes way before the target starts.
MakesWay(r, t) == r[1] = t[1] \/ ServesAt[r[1]] = ServesAt[t[1]]
StopFirst == \E r \in switch.current : MakesWay(r, Wanted)

(* discover_active_runtime: status of every Skill reconciles its record     *)
(* with what serves, or misses it when a probe fails; a switch that finds   *)
(* two Runtimes raises.                                                     *)
Reconcile(seen) == recorded' = [s \in Skill |->
  IF \E p \in Profile : <<s, p>> \in seen /\ recorded[s].profile = p
  THEN [recorded[s] EXCEPT !.status = "running"]
  ELSE IF recorded[s].status = "running" THEN [recorded[s] EXCEPT !.status = "failed"]
  ELSE recorded[s]]

BeginSwitch(t) ==
  /\ switch.pc = "idle" /\ switches < MaxSwitches
  /\ switches' = switches + 1
  /\ \/ /\ Cardinality(live) <= 1 /\ Reconcile(live) /\ UNCHANGED switchFaults
        /\ switch' = [pc |-> "check", current |-> live, target |-> {t}]
     \/ /\ Cardinality(live) > 1 /\ Reconcile(live) /\ UNCHANGED switchFaults
        /\ switch' = switch
     \/ /\ StopFault /\ Reconcile({})
        /\ switch' = [pc |-> "check", current |-> {}, target |-> {t}]
  /\ UNCHANGED <<refs, live, agent>>

CheckSlot ==
  /\ switch.pc = "check"
  /\ CASE slot # NoRuntime \/ switch.target = switch.current -> Over
       [] StopFirst -> SwitchAt("stop first")
       [] OTHER -> SwitchAt("start")
  /\ UNCHANGED <<recorded, refs, live, agent, switches, switchFaults>>

StopOldFirst ==
  /\ switch.pc = "stop first"
  /\ \/ StopDone(Old[1], FALSE) /\ SwitchAt("start")
     \/ StopFailed(Old[1], FALSE) /\ Over
  /\ UNCHANGED <<agent, switches>>

AfterTargetFailed == IF StopFirst THEN SwitchAt("restore") ELSE Over

StartTarget ==
  /\ switch.pc = "start"
  /\ \/ StartDone(Wanted[1], Wanted[2]) /\ SwitchAt("ready")
     \/ StartFailed(Wanted[1], Wanted[2]) /\ AfterTargetFailed
  /\ UNCHANGED <<agent, switches>>

\* status right after the start: a Tool context may have gone.
TargetReady ==
  /\ switch.pc = "ready"
  /\ \/ /\ IF switch.current # {} /\ ~StopFirst THEN SwitchAt("stop old") ELSE Over
        /\ UNCHANGED <<recorded, switchFaults>>
     \/ StartFault /\ Records(Wanted[1], "failed", Wanted[2]) /\ SwitchAt("clean up")
  /\ UNCHANGED <<refs, live, agent, switches>>

CleanUpTarget ==
  /\ switch.pc = "clean up"
  /\ StopDone(Wanted[1], TRUE) \/ StopFailed(Wanted[1], TRUE)
  /\ AfterTargetFailed
  /\ UNCHANGED <<agent, switches>>

\* The previous Runtime is started again; when that fails too, nothing is published.
RestoreOld ==
  /\ switch.pc = "restore"
  /\ \/ StartDone(Old[1], Old[2]) \/ StartFailed(Old[1], Old[2])
     \/ StartUnready(Old[1], Old[2])
  /\ Over
  /\ UNCHANGED <<agent, switches>>

\* For the mutant of StopOldLast: a new Runtime is left beside an old one that did not stop.
StopOldOnly ==
  /\ switch.pc = "stop old"
  /\ StopDone(Old[1], FALSE) \/ StopFailed(Old[1], FALSE)
  /\ Over
  /\ UNCHANGED <<agent, switches>>

StopOldLast ==
  /\ switch.pc = "stop old"
  /\ \/ StopDone(Old[1], FALSE) /\ Over
     \/ StopFailed(Old[1], FALSE) /\ SwitchAt("undo")
  /\ UNCHANGED <<agent, switches>>

UndoTarget ==
  /\ switch.pc = "undo"
  /\ StopDone(Wanted[1], TRUE) \/ StopFailed(Wanted[1], TRUE)
  /\ Over
  /\ UNCHANGED <<agent, switches>>

SwitchNext ==
  \/ \E s \in Skill : BindTask(s)
  \/ HoldBinding \/ StoreTask \/ EndTask \/ ReleaseBinding
  \/ \E t \in Runtime : BeginSwitch(t)
  \/ CheckSlot \/ StopOldFirst \/ StartTarget \/ TargetReady \/ CleanUpTarget \/ RestoreOld
  \/ StopOldLast \/ UndoTarget

-----------------------------------------------------------------------------
(* A switch that is over never leaves two Runtimes that drive the robot,    *)
(* unless dora could not stop one or the discovery missed it, and never     *)
(* none, unless the target failed and then the previous Runtime too, or     *)
(* dora failed a stop after it had stopped the flow: whatever task is bound *)
(* meanwhile, whichever step fails, and whether or not the two share a      *)
(* Gateway.                                                                 *)
OneRuntime ==
  switch.pc = "idle" =>
    /\ stopFaults = 0 => Cardinality(live) <= 1
    /\ startFaults <= 1 /\ lostStops = 0 => live # {}

=============================================================================
