------------------------------ MODULE TaskSlot ------------------------------
(***************************************************************************)
(* What the AgentTask lifecycle promises to a user: one global slot that   *)
(* at most one task occupies, a bounded number of replans of that task,    *)
(* and a cancellation that is never turned back into a success.  How Tool  *)
(* calls, evidence and verification decide the outcome is left open;       *)
(* AgentTask.tla is the coordinator that implements this contract.         *)
(***************************************************************************)
EXTENDS Naturals

CONSTANTS
  TaskId,      \* identities an AgentTask may have
  MaxReplans   \* replans a task may use after its initial plan

VARIABLES
  status,      \* status[t]: lifecycle status of task t, "absent" before it exists
  replans      \* replans[t]: plan revisions opened after the initial one

vars == <<status, replans>>

Terminal == {"succeeded", "failed", "cancelled"}
Active   == {"executing", "cancelling", "awaiting_replan"}

Init ==
  /\ status  = [t \in TaskId |-> "absent"]
  /\ replans = [t \in TaskId |-> 0]

Move(t, s) == status' = [status EXCEPT ![t] = s]

(* A task enters the slot only when no other task occupies it. *)
Open(t) ==
  /\ status[t] = "absent"
  /\ \A u \in TaskId : status[u] \notin Active
  /\ Move(t, "executing")
  /\ UNCHANGED replans

(* A verdict asks for another plan, while the budget can still pay for it. *)
AskReplan(t) ==
  /\ status[t] = "executing"
  /\ replans[t] < MaxReplans
  /\ Move(t, "awaiting_replan")
  /\ UNCHANGED replans

Replan(t) ==
  /\ status[t] = "awaiting_replan"
  /\ replans[t] < MaxReplans
  /\ Move(t, "executing")
  /\ replans' = [replans EXCEPT ![t] = @ + 1]

Cancel(t) ==
  /\ status[t] \in Active
  /\ Move(t, "cancelling")
  /\ UNCHANGED replans

(* A cancelling task closes without success; a closed task stays closed. *)
Close(t, s) ==
  /\ status[t] \in Active
  /\ s \in Terminal
  /\ status[t] = "cancelling" => s # "succeeded"
  /\ Move(t, s)
  /\ UNCHANGED replans

Next ==
  \E t \in TaskId :
    \/ Open(t) \/ AskReplan(t) \/ Replan(t) \/ Cancel(t)
    \/ \E s \in Terminal : Close(t, s)

Spec == Init /\ [][Next]_vars
=============================================================================
