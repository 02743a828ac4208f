------------------------------- MODULE Gateway -------------------------------
(***************************************************************************)
(* The gateway process from start to end: run of cli/commands.py, the      *)
(* connection of a channel, the connections to the MCP servers that the    *)
(* Agent, a cron job and a heartbeat make when they first need them, and   *)
(* the shutdown, which closes all of it while some of it is being opened.  *)
(*                                                                         *)
(* Ctrl-C cancels the coroutines of the Agent and of the channels before   *)
(* the shutdown begins; an error of the Agent's loop leaves the channels   *)
(* running.  One channel of any platform: the channels share nothing, and  *)
(* stop_all comes to this one after any delay.                             *)
(***************************************************************************)
EXTENDS Naturals, FiniteSets

CONSTANTS
  Platform,    \* the platforms to look at: a subset of Platforms
  MaxStacks    \* bound: attempts to connect the MCP servers

VARIABLES
  phase,       \* of run: "runs", "closing", "closed", "stopping", "returned", "ended"
  platform,    \* the platform of the channel
  link,        \* its connection: "dialing", "open", "waiting" to dial again, "closed"
  keepsOn,     \* the channel's _running
  caller,      \* caller[k]: where the Agent's loop, the cron timer, the heartbeat stand
  mcp,         \* _mcp_connecting, _mcp_connected, _mcp_stack
  opened,      \* stacks with connections to MCP servers
  abandoned,   \* stacks a cancelled turn was filling (history, for GatewayConnections)
  stacks       \* stacks ever made

gatewayVars == <<phase, platform, link, keepsOn, caller, mcp, opened, abandoned, stacks>>

-----------------------------------------------------------------------------
(* What start and stop of each platform do.                                *)
(*   outlives: the connection is not the start coroutine's own, so that    *)
(*             cancelling start does not end it;                           *)
(*   redials:  start begins anew when a connection fails or ends; the      *)
(*             others report a failed start and never try again;           *)
(*   knows:    stop has the client at hand while it still connects;        *)
(*   stops:    stop closes the connection, waits until its task has ended, *)
(*             or leaves it to whoever made it.                            *)
WhatsApp == [name |-> "whatsapp", outlives |-> FALSE, redials |-> TRUE,
             knows |-> FALSE, stops |-> "closes"]
Discord  == [name |-> "discord", outlives |-> FALSE, redials |-> TRUE,
             knows |-> FALSE, stops |-> "closes"]
QQ       == [name |-> "qq", outlives |-> FALSE, redials |-> TRUE,
             knows |-> TRUE, stops |-> "closes"]
DingTalk == [name |-> "dingtalk", outlives |-> FALSE, redials |-> TRUE,
             knows |-> TRUE, stops |-> "leaves"]
Telegram == [name |-> "telegram", outlives |-> TRUE, redials |-> FALSE,
             knows |-> TRUE, stops |-> "closes"]
Slack    == [name |-> "slack", outlives |-> TRUE, redials |-> FALSE,
             knows |-> TRUE, stops |-> "closes"]
WeCom    == [name |-> "wecom", outlives |-> TRUE, redials |-> FALSE,
             knows |-> TRUE, stops |-> "closes"]
Matrix   == [name |-> "matrix", outlives |-> TRUE, redials |-> TRUE,
             knows |-> TRUE, stops |-> "waits"]
\* A daemon thread: it ends with the process.
Feishu   == [name |-> "feishu", outlives |-> TRUE, redials |-> TRUE,
             knows |-> TRUE, stops |-> "leaves"]

Platforms ==
  {WhatsApp, Discord, QQ, DingTalk, Telegram, Slack, WeCom, Matrix, Feishu}

ASSUME GatewayAssumption == Platform \subseteq Platforms /\ MaxStacks \in Nat \ {0}

-----------------------------------------------------------------------------
Callers == {"agent", "cron", "heartbeat"}
NoStack == 0
CallerAt(k, pc) == caller[k].pc = pc
GoTo(k, pc) == caller' = [caller EXCEPT ![k] = [pc |-> pc, stack |-> NoStack]]
Channel == <<platform, link, keepsOn>>
Mcp == <<mcp, opened, abandoned, stacks>>

GatewayTypeOK ==
  /\ phase \in {"runs", "closing", "closed", "stopping", "returned", "ended"}
  /\ platform \in Platform /\ keepsOn \in BOOLEAN
  /\ link \in {"dialing", "open", "waiting", "closed"}
  /\ caller \in [Callers -> [pc: {"off", "sleep", "decide", "enter", "connect", "turn", "notify"},
                             stack: 0..MaxStacks]]
  /\ mcp \in [connecting: BOOLEAN, connected: BOOLEAN, stack: 0..MaxStacks]
  /\ stacks \in 0..MaxStacks /\ opened \subseteq 1..stacks /\ abandoned \subseteq 1..stacks

(* run starts cron and, unless disabled, the heartbeat, then the Agent's   *)
(* loop, which connects first of all, and the channels.                    *)
GatewayInit ==
  /\ phase = "runs"
  /\ platform \in Platform /\ link = "dialing" /\ keepsOn = TRUE
  /\ \E beat \in {"sleep", "off"} :
       caller = [k \in Callers |->
         [pc |-> CASE k = "agent" -> "enter" [] k = "cron" -> "sleep" [] OTHER -> beat,
          stack |-> NoStack]]
  /\ mcp = [connecting |-> FALSE, connected |-> FALSE, stack |-> NoStack]
  /\ opened = {} /\ abandoned = {} /\ stacks = 0

-----------------------------------------------------------------------------
(* The start loop of a channel, or the SDK for it. *)
Opens ==
  /\ link = "dialing" /\ link' = "open"
  /\ UNCHANGED <<phase, platform, keepsOn, caller, Mcp>>

(* A failed start is reported by _start_channel. *)
DialFails ==
  /\ link = "dialing"
  /\ link' = IF platform.redials /\ keepsOn THEN "waiting" ELSE "closed"
  /\ UNCHANGED <<phase, platform, keepsOn, caller, Mcp>>

\* For the mutant of GatewayConnections: the loop does not look at _running.
DropsAndRedials ==
  /\ link = "open" /\ platform.redials
  /\ link' \in {"waiting", "dialing"}
  /\ UNCHANGED <<phase, platform, keepsOn, caller, Mcp>>

(* The other side ends the connection, with an error or without; an SDK    *)
(* that connects again by itself is not seen here.                         *)
Drops ==
  /\ link = "open" /\ platform.redials
  /\ link' \in IF keepsOn THEN {"waiting", "dialing"} ELSE {"closed"}
  /\ UNCHANGED <<phase, platform, keepsOn, caller, Mcp>>

Redials ==
  /\ link = "waiting"
  /\ link' = IF keepsOn THEN "dialing" ELSE "closed"
  /\ UNCHANGED <<phase, platform, keepsOn, caller, Mcp>>

-----------------------------------------------------------------------------
CronWakes ==
  /\ CallerAt("cron", "sleep") /\ GoTo("cron", "enter")
  /\ UNCHANGED <<phase, Channel, Mcp>>

HeartbeatWakes ==
  /\ CallerAt("heartbeat", "sleep") /\ GoTo("heartbeat", "decide")
  /\ UNCHANGED <<phase, Channel, Mcp>>

(* The model says run or skip; every error of a tick ends only the tick. *)
HeartbeatDecides ==
  /\ CallerAt("heartbeat", "decide")
  /\ \E pc \in {"enter", "sleep"} : GoTo("heartbeat", pc)
  /\ UNCHANGED <<phase, Channel, Mcp>>

HeartbeatNotifies ==
  /\ CallerAt("heartbeat", "notify") /\ GoTo("heartbeat", "sleep")
  /\ UNCHANGED <<phase, Channel, Mcp>>

\* For the mutant of GatewayConnections: nobody sees that another one connects.
ConnectAnyway(k) ==
  /\ CallerAt(k, "enter")
  /\ \/ mcp.connected /\ GoTo(k, "turn") /\ UNCHANGED Mcp
     \/ /\ ~mcp.connected /\ stacks < MaxStacks
        /\ stacks' = stacks + 1 /\ opened' = opened \cup {stacks'}
        /\ mcp' = [mcp EXCEPT !.connecting = TRUE, !.stack = stacks']
        /\ caller' = [caller EXCEPT ![k] = [pc |-> "connect", stack |-> stacks']]
        /\ UNCHANGED abandoned
  /\ UNCHANGED <<phase, Channel>>

(* _connect_mcp, once the records are reconciled and the experience worker *)
(* runs: whoever finds no connection, and nobody at work on one, makes it. *)
ConnectMcp(k) ==
  /\ CallerAt(k, "enter")
  /\ \/ (mcp.connected \/ mcp.connecting) /\ GoTo(k, "turn") /\ UNCHANGED Mcp
     \/ /\ ~mcp.connected /\ ~mcp.connecting /\ stacks < MaxStacks
        /\ stacks' = stacks + 1 /\ opened' = opened \cup {stacks'}
        /\ mcp' = [mcp EXCEPT !.connecting = TRUE, !.stack = stacks']
        /\ caller' = [caller EXCEPT ![k] = [pc |-> "connect", stack |-> stacks']]
        /\ UNCHANGED abandoned
  /\ UNCHANGED <<phase, Channel>>

(* Servers that refuse are logged and skipped: the stack counts as         *)
(* connected with the others, and with none.                               *)
Connected(k) ==
  /\ CallerAt(k, "connect")
  /\ mcp' = [mcp EXCEPT !.connecting = FALSE, !.connected = TRUE]
  /\ opened' = opened \cup {caller[k].stack}
  /\ GoTo(k, "turn")
  /\ UNCHANGED <<phase, Channel, abandoned, stacks>>

(* Without the MCP package: what _mcp_stack holds is closed. *)
ConnectFails(k) ==
  /\ CallerAt(k, "connect")
  /\ mcp' = [mcp EXCEPT !.connecting = FALSE, !.stack = NoStack]
  /\ opened' = opened \ {mcp.stack, caller[k].stack}
  /\ GoTo(k, "turn")
  /\ UNCHANGED <<phase, Channel, abandoned, stacks>>

(* The records could not be reconciled, or the turn failed. *)
TurnFails(k) ==
  /\ k # "agent" /\ (CallerAt(k, "enter") \/ CallerAt(k, "turn"))
  /\ GoTo(k, "sleep")
  /\ UNCHANGED <<phase, Channel, Mcp>>

DirectTurnEnds(k) ==
  /\ k # "agent" /\ CallerAt(k, "turn")
  /\ GoTo(k, IF k = "heartbeat" THEN "notify" ELSE "sleep")
  /\ UNCHANGED <<phase, Channel, Mcp>>

-----------------------------------------------------------------------------
(* A cancelled turn that was connecting leaves its stack where it is: the   *)
(* cancellation is no Exception, and nobody closes what was opened.         *)
LeaveStack(K) ==
  LET left == {k \in K : CallerAt(k, "connect")}
  IN /\ mcp' = [mcp EXCEPT !.connecting = @ /\ left = {}]
     /\ abandoned' = abandoned \cup {caller[k].stack : k \in left}

CutOff(K) ==
  /\ caller' = [k \in Callers |->
                  IF k \in K THEN [pc |-> "off", stack |-> NoStack] ELSE caller[k]]
  /\ LeaveStack(K)

(* A call of the scheduler's API arms its timer anew, which cancels the     *)
(* tick under way with the turn it runs.  The next turn that connects then  *)
(* puts its own stack in the place of the one that was left open.           *)
RearmCron ==
  /\ phase \in {"runs", "closing", "closed"}
  /\ caller["cron"].pc \in {"enter", "connect", "turn"}
  /\ GoTo("cron", "sleep")
  /\ LeaveStack({"cron"})
  /\ UNCHANGED <<phase, Channel, opened, stacks>>

StartCancelled ==
  link' = IF platform.outlives /\ (platform.redials \/ link # "dialing")
          THEN link ELSE "closed"

(* Ctrl-C: gather cancels the Agent's loop and the starts of the channels. *)
(* A start that handed its loop to a task or a thread has nothing to lose. *)
Interrupt ==
  /\ phase = "runs" /\ phase' = "closing"
  /\ CutOff({"agent"})
  /\ StartCancelled
  /\ UNCHANGED <<platform, keepsOn, opened, stacks>>

(* The loop raises: gather passes it on and cancels nothing. *)
AgentFails ==
  /\ phase = "runs" /\ phase' = "closing"
  /\ CallerAt("agent", "enter") \/ CallerAt("agent", "turn")
  /\ CutOff({"agent"})
  /\ UNCHANGED <<Channel, opened, stacks>>

(* close_mcp, while cron, the heartbeat and turns in flight go on. *)
CloseMcp ==
  /\ phase = "closing" /\ phase' = "closed"
  /\ opened' = opened \ {mcp.stack}
  /\ mcp' = [mcp EXCEPT !.stack = NoStack]
  /\ UNCHANGED <<Channel, caller, abandoned, stacks>>

(* Then the heartbeat, cron and the Agent in one piece. *)
StopServices ==
  /\ phase = "closed" /\ phase' = "stopping"
  /\ CutOff(Callers)
  /\ UNCHANGED <<Channel, opened, stacks>>

(* stop_all: the dispatcher is gone, the channels follow one by one. *)
StopChannel ==
  /\ phase = "stopping" /\ keepsOn
  /\ keepsOn' = FALSE
  /\ CASE platform.stops = "leaves" -> UNCHANGED link
       [] platform.stops = "waits" -> link' = "closed"
       [] link = "open" -> link' = "closed"
       [] link = "dialing" /\ platform.knows -> link' \in {"dialing", "closed"}
       [] OTHER -> UNCHANGED link
  /\ UNCHANGED <<phase, platform, caller, Mcp>>

StopAllReturns ==
  /\ phase = "stopping" /\ ~keepsOn
  /\ phase' = "returned"
  /\ UNCHANGED <<Channel, caller, Mcp>>

(* asyncio.run cancels every task that is left, and the process ends with  *)
(* its daemon threads.                                                     *)
EndProcess ==
  /\ phase = "returned" /\ phase' = "ended"
  /\ link' = "closed" /\ opened' = {}
  /\ UNCHANGED <<platform, keepsOn, caller, mcp, abandoned, stacks>>

GatewayNext ==
  \/ Opens
  \/ DialFails
  \/ Drops
  \/ Redials
  \/ CronWakes
  \/ HeartbeatWakes
  \/ HeartbeatDecides
  \/ HeartbeatNotifies
  \/ \E k \in Callers : ConnectMcp(k)
  \/ \E k \in Callers : Connected(k)
  \/ \E k \in Callers : ConnectFails(k)
  \/ \E k \in Callers : TurnFails(k)
  \/ \E k \in Callers : DirectTurnEnds(k)
  \/ RearmCron
  \/ Interrupt
  \/ AgentFails
  \/ CloseMcp
  \/ StopServices
  \/ StopChannel
  \/ StopAllReturns
  \/ EndProcess

-----------------------------------------------------------------------------
(* Nothing is opened that the shutdown would not close, but for what a      *)
(* cancelled turn left.  While the gateway runs, every connection to an MCP *)
(* server is on the stack that close_mcp will close, whichever of the       *)
(* Agent, cron and the heartbeat came first (agent/loop.py:269), or on one  *)
(* that a cron turn was filling when its tick was cancelled                 *)
(* (cron/service.py:210, agent/loop.py:273); and a channel whose stop has   *)
(* been called never begins to connect again, wherever its loop stood, so   *)
(* that no message is taken that nobody will handle                         *)
(* (channels/whatsapp.py:44, discord.py:49).                                *)
GatewayConnections ==
  [][ /\ phase' = "runs" => opened' \subseteq {mcp'.stack} \cup abandoned'
      /\ ~keepsOn /\ link' = "dialing" => link = "dialing" ]_gatewayVars
=============================================================================
