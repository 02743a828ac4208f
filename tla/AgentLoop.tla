----------------------------- MODULE AgentLoop ------------------------------
(***************************************************************************)
(* The agent loop (src/PhyAgentOS/agent/loop.py) with the inbound queue,   *)
(* the turns it dispatches, the turns cron and the heartbeat run beside    *)
(* them, the subagents, the tools whose routing the turns share, and the   *)
(* sessions they save.                                                     *)
(*                                                                         *)
(* A message, an announcement of a subagent and a direct turn are one id   *)
(* in Turn.  Dispatched turns take _processing_lock in the order they      *)
(* arrive; process_direct takes no lock.  A step is what runs between two  *)
(* awaits.                                                                 *)
(***************************************************************************)
EXTENDS Sessions, FiniteSets

CONSTANTS
  UserKey,      \* session keys of chats; the other keys are direct turns'
  ChatOf,       \* ChatOf[k]: the key of the chat a (thread-scoped) session is in
  MaxMessages,  \* bound: messages users send
  MaxSubs,      \* bound: subagents
  MaxDirect,    \* bound: direct turns
  MaxCalls,     \* AgentLoop.max_iterations
  MaxCrashes    \* bound: times the process dies or restarts

Direct == Key \ UserKey
Chat == {ChatOf[k] : k \in UserKey}
Sub == 1..MaxSubs

ASSUME LoopAssumption ==
  /\ UserKey \subseteq Key /\ UserKey # {}
  /\ ChatOf \in [UserKey -> UserKey]
  /\ \A k \in UserKey : ChatOf[ChatOf[k]] = ChatOf[k]
  /\ MaxMessages \in Nat /\ MaxSubs \in Nat /\ MaxDirect \in Nat
  /\ MaxCalls \in Nat /\ MaxCrashes \in Nat

VARIABLES
  inbound,     \* MessageBus.inbound
  turn,        \* turn[t]: the message and the asyncio task that processes it
  queue,       \* the tasks at _processing_lock, its holder first
  main,        \* what AgentLoop.run stands at, with the /stop it handles; and, while
               \* cancel_task awaits the Gateway, whether its AgentTask has ended
  ctx,         \* routing shared by the message, spawn, cron and task tools
  sent,        \* MessageTool._sent_in_turn
  sub,         \* sub[s]: a subagent of SubagentManager
  robots,      \* the AgentTasks that are not terminal, oldest first, with
               \* origin_session_key
  restarting,  \* a /restart has been answered
  crashes      \* process ends so far

loopVars == <<inbound, turn, queue, main, ctx, sent, sub, robots, restarting, crashes>>
vars == <<sessionVars, loopVars>>

InFlight == {"archiving", "first", "thinking", "last"}
Nowhere == CHOOSE k \in UserKey : ChatOf[k] = k

NoTurn == [kind |-> "none", cmd |-> "text", key |-> Nowhere, chat |-> Nowhere, pc |-> "none",
           calls |-> 0, plan |-> NoPlan, cancel |-> FALSE,
           own |-> FALSE, overlap |-> FALSE, astray |-> FALSE, out |-> "none"]
NoSub == [pc |-> "none", chat |-> Nowhere, from |-> {}, cancel |-> FALSE]
GoneSub == [NoSub EXCEPT !.pc = "done"]
Idle == [at |-> "idle", stop |-> 0, ended |-> FALSE]

TurnRec == [kind: {"none", "chat", "system", "direct"}, cmd: {"text", "new", "stop", "restart"},
            key: Key, chat: Chat, pc: {"none", "queued", "waiting", "done"} \cup InFlight,
            calls: 0..MaxCalls, plan: Plan, cancel: BOOLEAN,
            own: BOOLEAN, overlap: BOOLEAN, astray: BOOLEAN,
            out: {"none", "replied", "silent", "dropped"}]

TaskRec == [status: {"active", "cancelling"}, key: Key]

TypeOK ==
  /\ SessionsTypeOK
  /\ inbound \in Seq(Turn)
  /\ turn \in [Turn -> TurnRec]
  /\ queue \in Seq(Turn)
  /\ main \in [at: {"idle", "tasks", "subs", "forge"}, stop: 0..MaxTurns, ended: BOOLEAN]
  /\ ctx \in [chat: Chat, key: Key]
  /\ sent \in BOOLEAN
  /\ sub \in [Sub -> [pc: {"none", "running", "done"}, chat: Chat, from: SUBSET Key,
                      cancel: BOOLEAN]]
  /\ robots \in Seq(TaskRec)
  /\ restarting \in BOOLEAN
  /\ crashes \in 0..MaxCrashes

Init ==
  /\ SessionsInit
  /\ inbound = <<>>
  /\ turn = [t \in Turn |-> NoTurn]
  /\ queue = <<>>
  /\ main = Idle
  /\ ctx = [chat |-> Nowhere, key |-> Nowhere]
  /\ sent = FALSE
  /\ sub = [s \in Sub |-> NoSub]
  /\ robots = <<>>
  /\ restarting = FALSE
  /\ crashes = 0

-----------------------------------------------------------------------------
(* Ids are used in order. *)
Fresh(t) == turn[t].kind = "none" /\ \A u \in Turn : u < t => turn[u].kind # "none"
Count(kind) == Cardinality({t \in Turn : turn[t].kind = kind})

(* The asyncio tasks _active_tasks lists under a session key. *)
Active(k) == {t \in Turn : /\ turn[t].kind = "chat" /\ turn[t].key = k
                           /\ turn[t].pc \in {"waiting"} \cup InFlight}
(* The subagents _session_tasks lists under it: SpawnTool files them under *)
(* channel:chat_id.                                                        *)
Subs(k) == {s \in Sub : sub[s].pc = "running" /\ sub[s].chat = k}

(* What is kept of a turn that has ended: the flags of the properties, when *)
(* they can still matter.                                                   *)
Ended(t, out) ==
  [NoTurn EXCEPT !.kind = turn[t].kind, !.pc = "done", !.out = out,
                 !.astray = turn[t].astray,
                 !.own = turn[t].own /\ out = "silent",
                 !.overlap = turn[t].overlap /\ (out = "silent" \/ turn[t].astray)]

(* A task that ends leaves the lock, or the queue for it. *)
Leave(t) ==
  IF t \in Elems(queue)
    THEN \E i \in DOMAIN queue :
           /\ queue[i] = t
           /\ queue' = SubSeq(queue, 1, i - 1) \o SubSeq(queue, i + 1, Len(queue))
    ELSE UNCHANGED queue

-----------------------------------------------------------------------------
(* Messages arrive *)

Send(t, k, cmd) ==
  /\ Fresh(t)
  /\ Count("chat") < MaxMessages
  /\ turn' = [turn EXCEPT ![t] = [NoTurn EXCEPT !.kind = "chat", !.cmd = cmd, !.key = k,
                                                !.chat = ChatOf[k], !.pc = "queued"]]
  /\ inbound' = Append(inbound, t)
  /\ UNCHANGED <<sessionVars, queue, main, ctx, sent, sub, robots, restarting, crashes>>

(* A subagent ends and announces its result to the main agent. *)
Announce(s, t) ==
  /\ Fresh(t)
  /\ sub[s].pc = "running" /\ ~sub[s].cancel
  /\ sub' = [sub EXCEPT ![s] = GoneSub]
  /\ turn' = [turn EXCEPT ![t] = [NoTurn EXCEPT !.kind = "system", !.key = sub[s].chat,
                                                !.chat = sub[s].chat, !.pc = "queued"]]
  /\ inbound' = Append(inbound, t)
  /\ UNCHANGED <<sessionVars, queue, main, ctx, sent, robots, restarting, crashes>>

SubCancelled(s) ==
  /\ sub[s].pc = "running" /\ sub[s].cancel
  /\ sub' = [sub EXCEPT ![s] = GoneSub]
  /\ UNCHANGED <<sessionVars, inbound, turn, queue, main, ctx, sent, robots, restarting, crashes>>

-----------------------------------------------------------------------------
(* AgentLoop.run *)

Consume(t) ==
  /\ main.at = "idle"
  /\ inbound # <<>> /\ t = Head(inbound)
  /\ inbound' = Tail(inbound)

(* Anything but a command the loop handles itself becomes a task. *)
Dispatch(t) ==
  /\ Consume(t)
  /\ turn[t].cmd \in {"text", "new"}
  /\ turn' = [turn EXCEPT ![t].pc = "waiting"]
  /\ queue' = Append(queue, t)
  /\ UNCHANGED <<sessionVars, main, ctx, sent, sub, robots, restarting, crashes>>

HandleRestart(t) ==
  /\ Consume(t)
  /\ turn[t].cmd = "restart"
  /\ turn' = [turn EXCEPT ![t] = Ended(t, "replied")]
  /\ restarting' = TRUE
  /\ UNCHANGED <<sessionVars, queue, main, ctx, sent, sub, robots, crashes>>

(* _handle_stop answers. *)
StopAnswers(t) ==
  /\ turn' = [turn EXCEPT ![t] = Ended(t, "replied")]
  /\ main' = Idle

(* The AgentTask active() gives: cancel_task asks the Gateway to stop each  *)
(* invocation that runs, and awaits it; with none to ask it writes at once, *)
(* a terminal status when nothing was executed (so none was asked before).  *)
StopRest(t) ==
  /\ IF robots # <<>> /\ Head(robots).key = turn[t].key
       THEN \/ /\ robots' = [robots EXCEPT ![1].status = "cancelling"]
               /\ StopAnswers(t)
            \/ /\ Head(robots).status = "active"
               /\ robots' = Tail(robots)
               /\ StopAnswers(t)
            \/ /\ main' = [at |-> "forge", stop |-> t, ended |-> FALSE]
               /\ UNCHANGED <<turn, robots>>
       ELSE /\ StopAnswers(t)
            /\ UNCHANGED robots
  /\ UNCHANGED sub

(* cancel_by_session: cancel the session's subagents and wait for them. *)
StopSubs(t) ==
  IF Subs(turn[t].key) = {}
    THEN StopRest(t)
    ELSE /\ sub' = [s \in Sub |-> IF s \in Subs(turn[t].key)
                                    THEN [sub[s] EXCEPT !.cancel = TRUE] ELSE sub[s]]
         /\ main' = [at |-> "subs", stop |-> t, ended |-> FALSE]
         /\ UNCHANGED <<turn, robots>>

(* Mutant: with subagents to cancel, the tasks are forgotten. *)
HandleStopSubsFirst(t) ==
  /\ Consume(t)
  /\ turn[t].cmd = "stop"
  /\ IF Active(turn[t].key) = {} \/ Subs(turn[t].key) # {}
       THEN StopSubs(t)
       ELSE /\ turn' = [u \in Turn |-> IF u \in Active(turn[t].key)
                                         THEN [turn[u] EXCEPT !.cancel = TRUE] ELSE turn[u]]
            /\ main' = [at |-> "tasks", stop |-> t, ended |-> FALSE]
            /\ UNCHANGED <<sub, robots>>
  /\ UNCHANGED <<sessionVars, queue, ctx, sent, restarting, crashes>>

(* /stop: cancel the session's tasks; the loop waits for them to end. *)
HandleStop(t) ==
  /\ Consume(t)
  /\ turn[t].cmd = "stop"
  /\ IF Active(turn[t].key) = {}
       THEN StopSubs(t)
       ELSE /\ turn' = [u \in Turn |-> IF u \in Active(turn[t].key)
                                         THEN [turn[u] EXCEPT !.cancel = TRUE] ELSE turn[u]]
            /\ main' = [at |-> "tasks", stop |-> t, ended |-> FALSE]
            /\ UNCHANGED <<sub, robots>>
  /\ UNCHANGED <<sessionVars, queue, ctx, sent, restarting, crashes>>

StopTasksEnded ==
  /\ main.at = "tasks"
  /\ \A u \in Turn : ~turn[u].cancel
  /\ StopSubs(main.stop)
  /\ UNCHANGED <<sessionVars, inbound, queue, ctx, sent, restarting, crashes>>

StopSubsEnded ==
  /\ main.at = "subs"
  /\ \A s \in Sub : ~sub[s].cancel
  /\ StopRest(main.stop)
  /\ UNCHANGED <<sessionVars, inbound, queue, ctx, sent, restarting, crashes>>

(* Mutant: a Gateway that fails to answer ends cancel_task. *)
StopForgeFails ==
  /\ main.at = "forge"
  /\ UNCHANGED robots
  /\ StopAnswers(main.stop)
  /\ UNCHANGED <<sessionVars, inbound, queue, ctx, sent, sub, restarting, crashes>>

(* The Gateway has answered, or failed to: cancel_task writes "cancelling", *)
(* into the record of an AgentTask that has ended meanwhile as well.        *)
StopForgeEnded ==
  /\ main.at = "forge"
  /\ robots' = IF main.ended
                 THEN <<[status |-> "cancelling", key |-> turn[main.stop].key]>> \o robots
                 ELSE [robots EXCEPT ![1].status = "cancelling"]
  /\ StopAnswers(main.stop)
  /\ UNCHANGED <<sessionVars, inbound, queue, ctx, sent, sub, restarting, crashes>>

(* Mutant: a cancelled task keeps the lock. *)
UnwindLocked(t) ==
  /\ turn[t].cancel
  /\ turn' = [turn EXCEPT ![t] = Ended(t, "dropped")]
  /\ UNCHANGED <<sessionVars, inbound, queue, main, ctx, sent, sub, robots, restarting, crashes>>

(* The CancelledError reaches the task at its await: nothing more of the turn *)
(* happens, the lock is released.                                            *)
Unwind(t) ==
  /\ turn[t].cancel
  /\ turn' = [turn EXCEPT ![t] = Ended(t, "dropped")]
  /\ Leave(t)
  /\ UNCHANGED <<sessionVars, inbound, main, ctx, sent, sub, robots, restarting, crashes>>

-----------------------------------------------------------------------------
(* _process_message *)

Running(t, pc) == turn[t].pc = pc /\ ~turn[t].cancel

(* Turn t with message m: context of the tools, start of the turn, call of  *)
(* the model.  "overlap" records that a turn outside the lock is between     *)
(* this point and its end at once with another.                             *)
EnterThinking(t, m) ==
  LET others == {u \in Turn \ {t} : /\ turn[u].pc \in {"thinking", "last"}
                                    /\ "direct" \in {m.kind, turn[u].kind}}
  IN  /\ turn' = [u \in Turn |->
                    IF u = t THEN [m EXCEPT !.pc = "thinking", !.plan = NoPlan,
                                                  !.overlap = others # {}]
                    ELSE IF u \in others THEN [turn[u] EXCEPT !.overlap = TRUE]
                    ELSE turn[u]]
      /\ ctx' = [chat |-> m.chat, key |-> m.key]
      /\ sent' = IF m.kind = "system" THEN sent ELSE FALSE

(* maybe_consolidate_by_tokens with session s: over the budget with a      *)
(* boundary, or straight on.                                               *)
Consolidating(t, m, s, mem, pc, round) ==
  \E p \in Plans(s, mem, round) :
    turn' = [turn EXCEPT ![t] = [m EXCEPT !.pc = pc, !.plan = p]]

BeginTurn(t, m) ==
  /\ \/ /\ m.cmd = "new"
        /\ Unconsolidated(GetOrCreate(m.key)) # <<>>
        /\ turn' = [turn EXCEPT ![t] = [m EXCEPT !.pc = "archiving",
                                                 !.plan = ArchivePlan(m.key)]]
        /\ UNCHANGED <<ctx, sent>>
     \/ /\ m.cmd = "text"
        /\ Consolidating(t, m, GetOrCreate(m.key), memory, "first", 1)
        /\ UNCHANGED <<ctx, sent>>
     \/ /\ m.cmd = "text"
        /\ EnterThinking(t, m)
  /\ Open(m.key)

(* Mutant: turns do not wait for the lock. *)
AcquireAtOnce(t) ==
  /\ Running(t, "waiting")
  /\ BeginTurn(t, turn[t])
  /\ UNCHANGED <<inbound, queue, main, sub, robots, restarting, crashes>>

(* _dispatch: the lock goes to the task that has waited longest. *)
Acquire(t) ==
  /\ Running(t, "waiting")
  /\ queue # <<>> /\ t = Head(queue)
  /\ BeginTurn(t, turn[t])
  /\ UNCHANGED <<inbound, queue, main, sub, robots, restarting, crashes>>

(* process_direct, called by cron or by the heartbeat, for the chat it reports to. *)
BeginDirect(t, k, c) ==
  /\ Fresh(t)
  /\ Count("direct") < MaxDirect
  /\ \A u \in Turn : turn[u].key = k => turn[u].pc = "done"
  /\ BeginTurn(t, [NoTurn EXCEPT !.kind = "direct", !.key = k, !.chat = c])
  /\ UNCHANGED <<inbound, queue, main, sub, robots, restarting, crashes>>

-----------------------------------------------------------------------------
(* _run_agent_loop: the model asks for a tool.  Every routed tool reads the *)
(* shared context, whoever set it last.                                     *)

(* Mutant: one call more than max_iterations. *)
ToolCallMore(t) == Running(t, "thinking") /\ turn[t].calls <= MaxCalls

ToolCall(t) == Running(t, "thinking") /\ turn[t].calls < MaxCalls
Called(t) == [turn[t] EXCEPT !.calls = @ + 1, !.astray = @ \/ ctx.chat # turn[t].chat]

(* message, to the chat of the context or to one the model names *)
MessageDefault(t) ==
  /\ ToolCall(t)
  /\ turn' = [turn EXCEPT ![t] = [Called(t) EXCEPT !.own = @ \/ ctx.chat = turn[t].chat]]
  /\ sent' = TRUE
  /\ UNCHANGED <<sessionVars, inbound, queue, main, ctx, sub, robots, restarting, crashes>>

MessageTo(t, c) ==
  /\ ToolCall(t)
  /\ turn' = [turn EXCEPT ![t].calls = @ + 1, ![t].own = @ \/ c = turn[t].chat]
  /\ sent' = (sent \/ c = ctx.chat)
  /\ UNCHANGED <<sessionVars, inbound, queue, main, ctx, sub, robots, restarting, crashes>>

Spawn(t, s) ==
  /\ ToolCall(t)
  /\ sub[s].pc = "none" /\ \A r \in Sub : r < s => sub[r].pc # "none"
  /\ turn' = [turn EXCEPT ![t] = Called(t)]
  /\ sub' = [sub EXCEPT ![s] = [NoSub EXCEPT !.pc = "running", !.chat = ctx.chat,
                                          !.from = IF turn[t].kind = "chat" THEN {turn[t].key}
                                                    ELSE {}]]
  /\ UNCHANGED <<sessionVars, inbound, queue, main, ctx, sent, robots, restarting, crashes>>

(* forge_task_create: one active AgentTask, owned by the session of the context *)
CreateTask(t) ==
  /\ ToolCall(t)
  /\ robots = <<>>
  /\ turn' = [turn EXCEPT ![t] = Called(t)]
  /\ robots' = <<[status |-> "active", key |-> ctx.key]>>
  /\ UNCHANGED <<sessionVars, inbound, queue, main, ctx, sent, sub, restarting, crashes>>

(* An AgentTask reaches a terminal status. *)
TaskEnds(i) ==
  /\ i \in DOMAIN robots
  /\ robots' = SubSeq(robots, 1, i - 1) \o SubSeq(robots, i + 1, Len(robots))
  /\ main' = [main EXCEPT !.ended = @ \/ (main.at = "forge" /\ i = 1)]
  /\ UNCHANGED <<sessionVars, inbound, turn, queue, ctx, sent, sub, restarting, crashes>>

-----------------------------------------------------------------------------
(* The answer: nothing when the message tool has reached the chat of the   *)
(* context, except that system turns always answer.                        *)
Reply(t) ==
  /\ turn' = [turn EXCEPT ![t] = Ended(t, IF turn[t].kind # "system" /\ sent
                                            THEN "silent" ELSE "replied")]
  /\ Leave(t)

(* The model answers in text, fails, or has used its iterations. *)
Finish(t) ==
  /\ Running(t, "thinking")
  /\ SaveTurn(turn[t].key, t)
  /\ \/ /\ Consolidating(t, turn[t], WithTurn(turn[t].key, t), memory, "last", 1)
        /\ UNCHANGED queue
     \/ Reply(t)
  /\ UNCHANGED <<inbound, main, ctx, sent, sub, robots, restarting, crashes>>

(* After a consolidation: the model call, or the answer. *)
Proceed(t) ==
  \/ turn[t].pc = "first" /\ EnterThinking(t, turn[t]) /\ UNCHANGED queue
  \/ turn[t].pc = "last" /\ Reply(t) /\ UNCHANGED <<ctx, sent>>

(* Mutant: the turns count as consolidated although their archive failed. *)
ConsolidationFailsAdvanced(t) ==
  /\ Running(t, "first") \/ Running(t, "last")
  /\ Proceed(t)
  /\ Save(turn[t].key, Consolidated(turn[t].key, turn[t].plan))
  /\ UNCHANGED <<history, memory, spoken, inbound, main, sub, robots, restarting, crashes>>

ConsolidationFails(t) ==
  /\ Running(t, "first") \/ Running(t, "last")
  /\ Proceed(t)
  /\ UNCHANGED <<sessionVars, inbound, main, sub, robots, restarting, crashes>>

ConsolidationSucceeds(t, entry) ==
  /\ Running(t, "first") \/ Running(t, "last")
  /\ AdvanceConsolidated(turn[t].key, turn[t].plan, entry)
  /\ \/ /\ turn[t].plan.round < MaxRounds
        /\ Consolidating(t, turn[t], Consolidated(turn[t].key, turn[t].plan),
                         turn[t].plan.read \cup Chunk(turn[t].key, turn[t].plan),
                         turn[t].pc, turn[t].plan.round + 1)
        /\ UNCHANGED <<queue, ctx, sent>>
     \/ Proceed(t)
  /\ UNCHANGED <<inbound, main, sub, robots, restarting, crashes>>

(* /new: the session is cleared only when its archive was written. *)
NewSession(t, entry) ==
  /\ \/ Running(t, "archiving")
     \/ /\ Running(t, "waiting") /\ queue # <<>> /\ t = Head(queue)
        /\ turn[t].cmd = "new" /\ Unconsolidated(GetOrCreate(turn[t].key)) = <<>>
  /\ ClearSession(turn[t].key, turn[t].plan, entry)
  /\ turn' = [turn EXCEPT ![t] = Ended(t, "replied")]
  /\ Leave(t)
  /\ UNCHANGED <<inbound, main, ctx, sent, sub, robots, restarting, crashes>>

NewRefused(t) ==
  /\ Running(t, "archiving")
  /\ turn' = [turn EXCEPT ![t] = Ended(t, "replied")]
  /\ Leave(t)
  /\ UNCHANGED <<sessionVars, inbound, main, ctx, sent, sub, robots, restarting, crashes>>

(* An exception ends the turn with an apology. *)
Apologise(t) ==
  /\ Running(t, "thinking")
  /\ turn' = [turn EXCEPT ![t] = Ended(t, "replied")]
  /\ Leave(t)
  /\ UNCHANGED <<sessionVars, inbound, main, ctx, sent, sub, robots, restarting, crashes>>

(* A cron tick re-armed by an API call cancels the job's turn. *)
CronRearmed(t) ==
  /\ turn[t].kind = "direct" /\ turn[t].pc \in InFlight
  /\ turn' = [turn EXCEPT ![t] = Ended(t, "dropped")]
  /\ UNCHANGED <<sessionVars, inbound, queue, main, ctx, sent, sub, robots, restarting, crashes>>

-----------------------------------------------------------------------------
(* A crash, or os.execv after /restart: files and the AgentTask row survive. *)

VolatileLost ==
  /\ turn' = [t \in Turn |-> IF turn[t].kind # "none" /\ turn[t].pc # "done"
                               THEN Ended(t, "dropped") ELSE turn[t]]
  /\ inbound' = <<>>
  /\ queue' = <<>>
  /\ main' = Idle
  /\ ctx' = [chat |-> Nowhere, key |-> Nowhere]
  /\ sent' = FALSE
  /\ sub' = [s \in Sub |-> IF sub[s].pc = "running" THEN GoneSub
                           ELSE sub[s]]
  /\ restarting' = FALSE
  /\ UNCHANGED robots

Restart ==
  /\ restarting /\ crashes < MaxCrashes
  /\ crashes' = crashes + 1
  /\ VolatileLost
  /\ ForgetCache

Crash ==
  /\ crashes < MaxCrashes
  /\ crashes' = crashes + 1
  /\ VolatileLost
  /\ \/ ForgetCache
     \/ \E t \in Turn, entry \in Entries :
          /\ \/ Running(t, "first") \/ Running(t, "last") \/ Running(t, "archiving")
          /\ CrashAfterArchive(turn[t].key, turn[t].plan, entry)

TurnStep(t) ==
  \/ Acquire(t) \/ Finish(t) \/ ConsolidationFails(t) \/ NewRefused(t)
  \/ \E entry \in Entries : ConsolidationSucceeds(t, entry) \/ NewSession(t, entry)
  \/ Unwind(t)

LoopStep ==
  \/ \E t \in Turn : Dispatch(t) \/ HandleRestart(t) \/ HandleStop(t)
  \/ StopTasksEnded
  \/ StopSubsEnded
  \/ StopForgeEnded

Next ==
  \/ \E t \in Turn, k \in UserKey, cmd \in {"text", "new", "stop", "restart"} : Send(t, k, cmd)
  \/ \E t \in Turn, k \in Direct, c \in Chat : BeginDirect(t, k, c)
  \/ \E t \in Turn :
       \/ TurnStep(t) \/ Apologise(t) \/ CronRearmed(t)
       \/ MessageDefault(t) \/ CreateTask(t)
       \/ \E c \in Chat : MessageTo(t, c)
       \/ \E s \in Sub : Spawn(t, s) \/ Announce(s, t)
  \/ \E s \in Sub : SubCancelled(s)
  \/ LoopStep
  \/ \E i \in DOMAIN robots : TaskEnds(i)
  \/ Restart \/ Crash

Spec == Init /\ [][Next]_vars

(* Model calls return and some ready task runs, the loop consumes, cancelled *)
(* subagents unwind.                                                        *)
Fairness ==
  /\ WF_vars(\E t \in Turn : TurnStep(t))
  /\ WF_vars(LoopStep)
  /\ WF_vars(\E s \in Sub : SubCancelled(s))
FairSpec == Spec /\ Fairness

-----------------------------------------------------------------------------
(* Turns do not mix: unless a turn outside the lock ran beside it, what a   *)
(* turn sends, spawns or creates by default goes to its own chat, and it    *)
(* ends without an answer only when the message tool has reached that chat. *)
OwnChat ==
  \A t \in Turn : ~turn[t].overlap =>
    ~turn[t].astray /\ (turn[t].out = "silent" => turn[t].own)

(* When /stop answers, no task of the session runs, no subagent it spawned *)
(* under its own key runs, and the AgentTask active() gives is not one of  *)
(* the session that goes on uncancelled, although tasks, subagents, direct *)
(* turns and AgentTasks move, end and begin while /stop waits for the       *)
(* tasks, for the subagents and for the Gateway.                            *)
StopLeavesNothing ==
  [][\A m \in Turn, k \in UserKey :
       turn[m].cmd = "stop" /\ turn[m].key = k /\ turn'[m].out = "replied" =>
         /\ Active(k)' = {}
         /\ \A s \in Subs(k)' : k \notin sub'[s].from
         /\ robots' # <<>> /\ Head(robots').key = k => Head(robots').status # "active"]_vars

(* Every message accepted is done with: answered, silenced, stopped or lost *)
(* with the process.  The lock is never left behind and no stop waits for   *)
(* ever.                                                                    *)
EveryMessageEnds ==
  []<>(\A t \in Turn : turn[t].pc \in {"none", "done"})
=============================================================================
