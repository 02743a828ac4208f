---------------------------- MODULE MCAgentLoop -----------------------------
(* Values for TLC: a chat, a thread inside it or a second chat, cron. *)
EXTENDS AgentLoop

MCChatOf == [k \in UserKey |-> IF k = "thread" THEN "alice" ELSE k]
=============================================================================
