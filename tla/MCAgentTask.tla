---------------------------- MODULE MCAgentTask -----------------------------
(* Values for TLC: "look" is a query, "grasp" an Action, "follow" a Session *)
(* the task must stop, "map" a Session it shares.                           *)
EXTENDS AgentTask, TLC

MCSem == [q \in Request |-> CASE q = "look" -> "query"
                              [] q = "grasp" -> "action"
                              [] OTHER -> "session"]
MCOwn == [q \in Request |-> IF q = "map" THEN "shared" ELSE "task"]

Symmetry == Permutations(TaskId) \cup Permutations(Actor)
=============================================================================
