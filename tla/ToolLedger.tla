----------------------------- MODULE ToolLedger -----------------------------
(***************************************************************************)
(* What the coordinator promises about each Tool record, whatever turns    *)
(* overlap and whoever dies.  Forge owns the execution facts: PAOS stores  *)
(* an intent with the one POST that it sends for it, stores the answer to  *)
(* that POST at most once, and otherwise claims only what it has read of   *)
(* an invocation that it can name.  Which calls are made, and when, is     *)
(* left open; AgentTask.tla is the coordinator that keeps this ledger.     *)
(***************************************************************************)
CONSTANTS
  Record,   \* Tool executions
  Posted    \* those that are POSTed to a Gateway: Actions and Sessions

VARIABLES
  claim,    \* claim[r]: the status stored for r
  named,    \* named[r]: the invocation id of r is stored
  fact      \* fact[r]: what the Gateway has done with the POST of r

vars == <<claim, named, fact>>

Definite == {"succeeded", "failed", "cancelled", "stopped"}

Init ==
  /\ claim = [r \in Record |-> "absent"]
  /\ named = [r \in Record |-> FALSE]
  /\ fact  = [r \in Record |-> "none"]

Claim(r, s) == claim' = [claim EXCEPT ![r] = s]

(* The intent is stored, and its POST leaves, in one step. *)
Intend(r) ==
  /\ claim[r] = "absent" /\ fact[r] = "none"
  /\ Claim(r, "pending")
  /\ fact' = IF r \in Posted THEN [fact EXCEPT ![r] = "sent"] ELSE fact
  /\ UNCHANGED named

(* A query has no invocation; it answers or fails. *)
Answer(r) ==
  /\ r \notin Posted /\ claim[r] = "pending"
  /\ \E s \in {"succeeded", "unknown"} : Claim(r, s)
  /\ UNCHANGED <<named, fact>>

(* The answer to the POST names the invocation of a POST that arrived, once. *)
Acknowledge(r) ==
  /\ r \in Posted /\ claim[r] = "pending" /\ ~named[r]
  /\ fact[r] \notin {"none", "sent"}
  /\ \E s \in {"accepted", "unknown"} : Claim(r, s)
  /\ named' = [named EXCEPT ![r] = TRUE]
  /\ UNCHANGED fact

(* No answer, or the process died: the intent is never sent again. *)
GiveUp(r) ==
  /\ r \in Posted /\ claim[r] = "pending" /\ ~named[r]
  /\ Claim(r, "unknown")
  /\ UNCHANGED <<named, fact>>

(* An invocation that can be named is read back, perhaps late: the Gateway  *)
(* was still dispatching it ("pending"), ran it, forgot it or settled it.   *)
Observe(r) ==
  /\ named[r]
  /\ \E s \in {"pending", "running", "unknown"} \cup ({fact[r]} \cap Definite) : Claim(r, s)
  /\ UNCHANGED <<named, fact>>

(* The Gateway's own steps; a definite outcome is final. *)
Admit(r) ==
  /\ fact[r] = "sent" /\ fact' = [fact EXCEPT ![r] = "running"]
  /\ UNCHANGED <<claim, named>>

Settle(r) ==
  /\ fact[r] = "running"
  /\ \E s \in Definite : fact' = [fact EXCEPT ![r] = s]
  /\ UNCHANGED <<claim, named>>

Next ==
  \E r \in Record :
    \/ Intend(r) \/ Answer(r) \/ Acknowledge(r) \/ GiveUp(r) \/ Observe(r)
    \/ Admit(r) \/ Settle(r)

Spec == Init /\ [][Next]_vars
=============================================================================
