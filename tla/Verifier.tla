------------------------------ MODULE Verifier -------------------------------
(***************************************************************************)
(* The verification service (verification/service.py) as the verifier of   *)
(* AgentTasks uses it (agent/session_verifier.py): a child process that    *)
(* listens on one port, started by whichever worker thread needs it first, *)
(* and stopped by AgentLoop.stop while workers are in start or verify_task.*)
(*                                                                         *)
(* The Agent may die, or replace itself by /restart: both leave the child  *)
(* behind, on the port, with the token of its own Agent.                   *)
(***************************************************************************)
EXTENDS Naturals, FiniteSets

CONSTANTS
  Worker,            \* to_thread workers: verifications under way at once
  Child,             \* child processes ever started
  NoChild,
  MaxCalls,          \* max_verifier_calls_per_run
  MaxVerifierFaults  \* bound: deaths of the Agent or of a child, and timeouts

ASSUME VerifierAssumption ==
  /\ NoChild \notin Child /\ {"no", "done"} \cap (Child \cup {NoChild}) = {}
  /\ MaxCalls \in Nat \ {0} /\ MaxVerifierFaults \in Nat

VARIABLES
  closed,    \* _closed
  process,   \* _process
  stopping,  \* AgentLoop.stop: "no", the process it took, or "done"
  calls,     \* ForgeTaskVerifier.calls
  worker,    \* worker[w]: where the thread is, and the process it kills or asks
  child,     \* child[c]: "none", "starting", "serving" or "dead"
  mine,      \* children started by the running Agent
  verifierFaults

verifierVars == <<closed, process, stopping, calls, worker, child, mine, verifierFaults>>

-----------------------------------------------------------------------------
Rest == [pc |-> "rest", child |-> NoChild]
Running(c) == c # NoChild /\ child[c] \in {"starting", "serving"}
Listeners == {c \in Child : child[c] = "serving"}
AgentRuns == stopping # "done"
AgentState == <<closed, process, stopping, calls, mine>>

VerifierTypeOK ==
  /\ closed \in BOOLEAN /\ process \in Child \cup {NoChild}
  /\ stopping \in Child \cup {NoChild, "no", "done"} /\ calls \in 0..MaxCalls
  /\ worker \in [Worker -> [pc: {"rest", "start", "poll", "kill", "post", "wait"},
                            child: Child \cup {NoChild}]]
  /\ child \in [Child -> {"none", "starting", "serving", "dead"}]
  /\ mine \subseteq Child
  /\ Cardinality(Listeners) <= 1
  /\ verifierFaults \in 0..MaxVerifierFaults

VerifierInit ==
  /\ closed = FALSE /\ process = NoChild /\ stopping = "no" /\ calls = 0
  /\ worker = [w \in Worker |-> Rest] /\ child = [c \in Child |-> "none"] /\ mine = {}
  /\ verifierFaults = 0

Move(w, pc, c) == worker' = [worker EXCEPT ![w] = [pc |-> pc, child |-> c]]
VerifierFault ==
  verifierFaults < MaxVerifierFaults /\ verifierFaults' = verifierFaults + 1

-----------------------------------------------------------------------------
(* _verify_content counts the call, then hands it to a thread. *)
Verify(w) ==
  /\ worker[w] = Rest /\ AgentRuns /\ calls < MaxCalls
  /\ calls' = calls + 1
  /\ Move(w, "start", NoChild)
  /\ UNCHANGED <<closed, process, stopping, child, mine, verifierFaults>>

Spawn(w) ==
  \E c \in Child :
    /\ child[c] = "none"
    /\ child' = [child EXCEPT ![c] = "starting"]
    /\ process' = c /\ mine' = mine \cup {c}
    /\ Move(w, "poll", NoChild)

\* For the mutant of StartService: stop may have come before.
StartUnchecked(w) ==
  /\ worker[w].pc = "start"
  /\ \/ Running(process) /\ Move(w, "post", NoChild) /\ UNCHANGED <<process, child, mine>>
     \/ ~Running(process) /\ Spawn(w)
  /\ UNCHANGED <<closed, stopping, calls, verifierFaults>>

(* start, under the lifecycle lock: a closed service refuses, a process    *)
(* that runs is taken as it is, ready or not.                              *)
StartService(w) ==
  /\ worker[w].pc = "start"
  /\ \/ closed /\ Move(w, "rest", NoChild) /\ UNCHANGED <<process, child, mine>>
     \/ ~closed /\ Running(process) /\ Move(w, "post", NoChild)
          /\ UNCHANGED <<process, child, mine>>
     \/ ~closed /\ ~Running(process) /\ Spawn(w)
  /\ UNCHANGED <<closed, stopping, calls, verifierFaults>>

(* start, without the lock: wait until somebody answers /healthz. *)
PollReadiness(w) ==
  /\ worker[w].pc = "poll"
  /\ \/ ~Running(process) /\ Move(w, "rest", NoChild)
     \/ Running(process) /\ Listeners # {} /\ Move(w, "post", NoChild)
  /\ UNCHANGED <<AgentState, child, verifierFaults>>

(* Five seconds without an answer: start calls stop, which is final. *)
PollTimeout(w) ==
  /\ worker[w].pc = "poll" /\ VerifierFault
  /\ Move(w, "kill", process)
  /\ closed' = TRUE /\ process' = NoChild
  /\ UNCHANGED <<stopping, calls, child, mine>>

Killed(c) == child' = IF Running(c) THEN [child EXCEPT ![c] = "dead"] ELSE child

KillAfterTimeout(w) ==
  /\ worker[w].pc = "kill"
  /\ Killed(worker[w].child)
  /\ Move(w, "rest", NoChild)
  /\ UNCHANGED <<AgentState, verifierFaults>>

(* verify_task: whoever listens gets the request; one that does not know   *)
(* the token refuses it (403), and a closed port fails at once.            *)
PostTask(w) ==
  /\ worker[w].pc = "post"
  /\ \/ \E c \in Listeners \cap mine : Move(w, "wait", c)
     \/ Listeners \cap mine = {} /\ Move(w, "rest", NoChild)
  /\ UNCHANGED <<AgentState, child, verifierFaults>>

(* A verdict, an error of the model, a timeout, or a broken connection. *)
EndJudgement(w) ==
  /\ worker[w].pc = "wait"
  /\ Move(w, "rest", NoChild)
  /\ UNCHANGED <<AgentState, child, verifierFaults>>

-----------------------------------------------------------------------------
(* The child binds the port, or ends because another one holds it. *)
BindPort(c) ==
  /\ child[c] = "starting"
  /\ child' = [child EXCEPT ![c] = IF Listeners = {} THEN "serving" ELSE "dead"]
  /\ UNCHANGED <<AgentState, worker, verifierFaults>>

ChildDies(c) ==
  /\ Running(c) /\ VerifierFault
  /\ child' = [child EXCEPT ![c] = "dead"]
  /\ UNCHANGED <<AgentState, worker>>

(* AgentLoop.stop in the event loop: under the lock it takes the process,  *)
(* then it ends it.                                                        *)
StopService ==
  /\ stopping = "no"
  /\ closed' = TRUE /\ process' = NoChild /\ stopping' = process
  /\ UNCHANGED <<calls, worker, child, mine, verifierFaults>>

EndService ==
  /\ stopping \in Child \cup {NoChild}
  /\ Killed(stopping)
  /\ stopping' = "done"
  /\ UNCHANGED <<closed, process, calls, worker, mine, verifierFaults>>

(* The Agent dies or replaces itself, and starts again with a new secret. *)
AgentRestarts ==
  /\ VerifierFault
  /\ closed' = FALSE /\ process' = NoChild /\ stopping' = "no" /\ calls' = 0 /\ mine' = {}
  /\ worker' = [w \in Worker |-> Rest]
  /\ UNCHANGED child

VerifierNext ==
  \/ \E w \in Worker : Verify(w)
  \/ \E w \in Worker : StartService(w)
  \/ \E w \in Worker : PollReadiness(w)
  \/ \E w \in Worker : PollTimeout(w)
  \/ \E w \in Worker : KillAfterTimeout(w)
  \/ \E w \in Worker : PostTask(w)
  \/ \E w \in Worker : EndJudgement(w)
  \/ \E c \in Child : BindPort(c)
  \/ \E c \in Child : ChildDies(c)
  \/ StopService
  \/ EndService
  \/ AgentRestarts

-----------------------------------------------------------------------------
(* When AgentLoop.stop has returned and no thread is still ending a child  *)
(* it took, no child of this Agent runs, however the workers' starts,      *)
(* timeouts and polls interleaved with it; and no child is ever lost from  *)
(* _process while it runs and nobody is about to end it                    *)
(* (verification/service.py:71, :112, agent/session_verifier.py:166).      *)
StopLeavesNoChild ==
  \A c \in mine : Running(c) =>
    \/ c = process /\ ~closed
    \/ c = stopping
    \/ \E w \in Worker : worker[w] = [pc |-> "kill", child |-> c]
=============================================================================
