-------------------------- MODULE RuntimeLifecycle --------------------------
(***************************************************************************)
(* What the Runtime file promises about the Dora flows of one Skill: a     *)
(* Runtime is begun as a new instance, holds references only while it      *)
(* runs, is stopped in two steps, and is stopped only when its flow is     *)
(* down and every reference it drops is audited.  Nothing but a new        *)
(* instance leaves "stopped".  Locks, processes, probes and Dora's answers *)
(* are SkillRuntime.tla.                                                   *)
(***************************************************************************)
EXTENDS Naturals

CONSTANTS
  Profile,   \* what a flow can run
  Ref,       \* identifiers of what a Runtime serves
  None       \* no Runtime was ever begun

VARIABLES
  state,     \* the recorded Runtime, or None
  live       \* the flows that run

vars == <<state, live>>

Init == state = None /\ live = {}

Turns(from, status) ==
  /\ state # None /\ state.status \in from
  /\ state' = [state EXCEPT !.status = status]
  /\ UNCHANGED live

Begin(f) ==
  /\ state' = [status |-> "starting", profile |-> f, refs |-> {}, audit |-> {},
               instance |-> IF state = None THEN 1 ELSE state.instance + 1]
  /\ UNCHANGED live

(* Only a Runtime that is starting brings its flow up. *)
Launch ==
  /\ state # None /\ state.status = "starting"
  /\ live' = live \cup {state.profile}
  /\ UNCHANGED state

Confirm == Turns({"starting", "running", "failed"}, "running")

Fail == Turns({"starting", "running", "stopping"}, "failed")

Hold(r) ==
  /\ state # None /\ state.status = "running"
  /\ \/ state' = [state EXCEPT !.refs = @ \cup {r}]
     \/ state' = [state EXCEPT !.refs = @ \ {r}]
  /\ UNCHANGED live

BeginStop ==
  /\ state # None /\ state.status # "stopped"
  /\ state' = [state EXCEPT !.status = "stopping", !.audit = @ \cup state.refs]
  /\ UNCHANGED live

FinishStop ==
  /\ state # None /\ state.status = "stopping"
  /\ state.profile \notin live /\ state.refs \subseteq state.audit
  /\ state' = [state EXCEPT !.status = "stopped", !.refs = {}]
  /\ UNCHANGED live

FlowEnds == live' \in SUBSET live /\ UNCHANGED state

Next ==
  \/ \E f \in Profile : Begin(f)
  \/ Launch \/ Confirm \/ Fail \/ BeginStop \/ FinishStop \/ FlowEnds
  \/ \E r \in Ref : Hold(r)

Spec == Init /\ [][Next]_vars
=============================================================================
