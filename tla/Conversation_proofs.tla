------------------------ MODULE Conversation_proofs ------------------------
(***************************************************************************)
(* Proofs about the agent loop and the sessions it writes (AgentLoop with  *)
(* Sessions), for every set of turns, chats and keys and for every bound.  *)
(* One inductive invariant carries all of them:                            *)
(*                                                                         *)
(*   ConvInv == LoopInv /\ StopInv /\ RobotsInv                            *)
(*                                                                         *)
(* The argument goes in three stages.  First every action is classified    *)
(* by what it does to the rows of `turn' (TurnsMove, EveryMove), to the    *)
(* sessions (SessionsMove, SessionsStep) and to the inbound queue          *)
(* (QuietSteps).  Then each part of the invariant is shown to survive      *)
(* each kind of move.  Last the theorems are read off the invariant.       *)
(***************************************************************************)
EXTENDS AgentLoop, SequenceTheorems, TLAPS

(* Places. *)
LEMMA Places ==
  /\ UserKey \subseteq Key /\ Chat \subseteq UserKey
  /\ Nowhere \in UserKey /\ Nowhere \in Chat
  /\ \A k \in UserKey : ChatOf[k] \in Chat
<1>1. UserKey \subseteq Key /\ Chat \subseteq UserKey /\ \A k \in UserKey : ChatOf[k] \in Chat
  BY LoopAssumption DEF Chat
<1>2. \E k \in UserKey : ChatOf[k] = k
  <2>1. PICK k : k \in UserKey
    BY LoopAssumption
  <2>2. ChatOf[k] \in UserKey /\ ChatOf[ChatOf[k]] = ChatOf[k]
    BY <2>1, LoopAssumption
  <2> QED BY <2>2
<1>3. Nowhere \in UserKey /\ ChatOf[Nowhere] = Nowhere
  BY <1>2 DEF Nowhere
<1> QED BY <1>1, <1>3 DEF Chat

-----------------------------------------------------------------------------
(* One turn.  What is true of its row by itself.                           *)
Waits == {"queued", "waiting"}
RowOK(r) ==
  /\ r \in TurnRec
  /\ r.kind = "none" <=> r.pc = "none"
  /\ r.kind \in {"chat", "system"} /\ r.pc # "done" => r.key \in UserKey
  /\ r.kind = "direct" /\ r.pc # "done" => r.key \in Direct /\ r.pc \notin Waits
  /\ r.cmd \in {"stop", "restart"} => r.kind = "chat" /\ r.pc = "queued"
  /\ r.pc # "done" => r.out = "none"
  /\ r.pc \notin {"queued", "waiting", "archiving"} => r.cmd = "text"
  /\ r.cancel => r.kind = "chat" /\ r.pc \in {"waiting"} \cup InFlight
  /\ r.pc \notin {"thinking", "last", "done"} => ~r.astray
  /\ ~r.overlap => ~r.astray /\ (r.out = "silent" => r.own)

LEMMA NoPlanTyped == NoPlan \in Plan
BY SessionsAssumption DEF NoPlan, Plan

LEMMA NoTurnOK ==
  /\ NoTurn \in TurnRec
  /\ NoTurn.kind = "none" /\ NoTurn.pc = "none" /\ NoTurn.cmd = "text" /\ NoTurn.out = "none"
  /\ NoTurn.key = Nowhere /\ NoTurn.plan = NoPlan
  /\ ~NoTurn.cancel /\ ~NoTurn.astray /\ ~NoTurn.own /\ ~NoTurn.overlap
<1>1. FALSE \in BOOLEAN /\ 0 \in 0..MaxCalls /\ Nowhere \in Key /\ Nowhere \in Chat
  BY LoopAssumption, Places
<1>2. PICK p : p = NoPlan
  OBVIOUS
<1>3. p \in Plan
  BY <1>2, NoPlanTyped
<1>4. NoTurn \in TurnRec
  BY <1>1, <1>2, <1>3 DEF NoTurn, TurnRec
<1> QED BY <1>4 DEF NoTurn

LEMMA NewRow ==
  ASSUME NEW kind \in {"chat", "system"}, NEW cmd \in {"text", "new", "stop", "restart"},
         NEW k \in UserKey, NEW c \in Chat, cmd # "text" => kind = "chat"
  PROVE  RowOK([NoTurn EXCEPT !.kind = kind, !.cmd = cmd, !.key = k, !.chat = c, !.pc = "queued"])
<1> DEFINE r == [NoTurn EXCEPT !.kind = kind, !.cmd = cmd, !.key = k, !.chat = c, !.pc = "queued"]
<1>1. k \in Key
  BY Places
<1>2. r \in TurnRec
  BY <1>1, NoTurnOK DEF TurnRec
<1>3. /\ r.kind = kind /\ r.cmd = cmd /\ r.key = k /\ r.pc = "queued" /\ r.out = "none"
      /\ ~r.cancel /\ ~r.astray
  BY NoTurnOK DEF TurnRec
<1> HIDE DEF r
<1>4. RowOK(r)
  BY <1>2, <1>3 DEF RowOK, Waits
<1> QED BY <1>4 DEF r

LEMMA EndedRow ==
  ASSUME NEW t \in Turn, RowOK(turn[t]), NEW out \in {"replied", "silent", "dropped"},
         turn[t].kind # "none", out = "silent" => turn[t].own \/ turn[t].overlap
  PROVE  /\ RowOK(Ended(t, out))
         /\ Ended(t, out).pc = "done" /\ Ended(t, out).kind = turn[t].kind
         /\ Ended(t, out).key = Nowhere /\ Ended(t, out).cmd = "text" /\ Ended(t, out).out = out
<1>1. PICK own : own = (turn[t].own /\ out = "silent")
  OBVIOUS
<1>2. PICK overlap : overlap = (turn[t].overlap /\ (out = "silent" \/ turn[t].astray))
  OBVIOUS
<1>3. PICK astray : astray = turn[t].astray
  OBVIOUS
<1>4. PICK kind : kind = turn[t].kind
  OBVIOUS
<1>5. own \in BOOLEAN /\ overlap \in BOOLEAN
  BY <1>1, <1>2, Zenon
<1>6. astray \in BOOLEAN /\ kind \in {"none", "chat", "system", "direct"}
  BY <1>3, <1>4 DEF RowOK, TurnRec
<1> DEFINE r == [NoTurn EXCEPT !.kind = kind, !.pc = "done", !.out = out, !.astray = astray,
                               !.own = own, !.overlap = overlap]
<1>7. r \in TurnRec
  BY <1>5, <1>6, NoTurnOK DEF TurnRec
<1>8. /\ r.kind = kind /\ r.pc = "done" /\ r.out = out /\ r.astray = astray /\ r.own = own
      /\ r.overlap = overlap /\ r.cmd = "text" /\ r.key = Nowhere /\ ~r.cancel
  BY NoTurnOK DEF TurnRec
<1>9. Ended(t, out) = r
  BY <1>1, <1>2, <1>3, <1>4, Zenon DEF Ended
<1> HIDE DEF r
<1>10. ~overlap => ~astray /\ (out = "silent" => own)
  BY <1>1, <1>2, <1>3 DEF RowOK
<1>11. RowOK(r)
  BY <1>4, <1>7, <1>8, <1>10 DEF RowOK
<1> QED BY <1>4, <1>8, <1>9, <1>11

LEMMA RowDispatched ==
  ASSUME NEW r, RowOK(r), r.pc = "queued", r.cmd \in {"text", "new"}
  PROVE  RowOK([r EXCEPT !.pc = "waiting"])
<1> DEFINE s == [r EXCEPT !.pc = "waiting"]
<1>1. s \in TurnRec
  BY DEF RowOK, TurnRec
<1>2. /\ s.pc = "waiting" /\ s.kind = r.kind /\ s.cmd = r.cmd /\ s.key = r.key /\ s.out = r.out
      /\ s.cancel = r.cancel /\ s.astray = r.astray /\ s.own = r.own /\ s.overlap = r.overlap
  BY DEF RowOK, TurnRec
<1> HIDE DEF s
<1>3. RowOK(s)
  BY <1>1, <1>2 DEF RowOK, Waits
<1> QED BY <1>3 DEF s

LEMMA RowCancelled ==
  ASSUME NEW r, RowOK(r), r.kind = "chat", r.pc \in {"waiting"} \cup InFlight
  PROVE  RowOK([r EXCEPT !.cancel = TRUE])
<1> DEFINE s == [r EXCEPT !.cancel = TRUE]
<1>1. s \in TurnRec
  <2>1. TRUE \in BOOLEAN
    OBVIOUS
  <2> QED BY <2>1 DEF RowOK, TurnRec
<1>2. /\ s.pc = r.pc /\ s.kind = r.kind /\ s.cmd = r.cmd /\ s.key = r.key /\ s.out = r.out
      /\ s.astray = r.astray /\ s.own = r.own /\ s.overlap = r.overlap
  BY DEF RowOK, TurnRec
<1> HIDE DEF s
<1>3. RowOK(s)
  BY <1>1, <1>2 DEF RowOK
<1> QED BY <1>3 DEF s

LEMMA RowOverlaps ==
  ASSUME NEW r, RowOK(r)
  PROVE  LET s == [r EXCEPT !.overlap = TRUE]
         IN  /\ RowOK(s) /\ s.overlap /\ s.pc = r.pc /\ s.kind = r.kind /\ s.key = r.key
             /\ s.cmd = r.cmd /\ s.cancel = r.cancel /\ s.plan = r.plan
<1> DEFINE s == [r EXCEPT !.overlap = TRUE]
<1>1. s \in TurnRec
  <2>1. TRUE \in BOOLEAN
    OBVIOUS
  <2> QED BY <2>1 DEF RowOK, TurnRec
<1>2. /\ s.pc = r.pc /\ s.kind = r.kind /\ s.cmd = r.cmd /\ s.key = r.key /\ s.out = r.out
      /\ s.astray = r.astray /\ s.own = r.own /\ s.cancel = r.cancel /\ s.overlap /\ s.plan = r.plan
  BY DEF RowOK, TurnRec
<1> HIDE DEF s
<1>3. RowOK(s)
  BY <1>1, <1>2 DEF RowOK
<1> QED BY <1>2, <1>3 DEF s

(* A turn that is about to run, or runs. *)
RowReady(m) ==
  /\ m \in TurnRec /\ m.kind # "none" /\ m.cmd \in {"text", "new"} /\ m.out = "none" /\ ~m.cancel
  /\ m.kind \in {"chat", "system"} => m.key \in UserKey
  /\ m.kind = "direct" => m.key \in Direct
  /\ ~m.overlap => ~m.astray

PlotRow(m, pc, p) == [m EXCEPT !.pc = pc, !.plan = p]
EnterRow(m, b) == [m EXCEPT !.pc = "thinking", !.plan = NoPlan, !.overlap = b]

LEMMA RowPlots ==
  ASSUME NEW m, RowReady(m), NEW pc \in {"archiving", "first", "last"}, NEW p \in Plan,
         pc # "archiving" => m.cmd = "text", pc # "last" => ~m.astray,
         NEW r, r = PlotRow(m, pc, p)
  PROVE  /\ RowOK(r) /\ r.pc = pc /\ r.plan = p /\ r.kind = m.kind /\ r.key = m.key
         /\ r.chat = m.chat /\ r.cmd = m.cmd /\ r.cancel = m.cancel /\ r.own = m.own
         /\ r.overlap = m.overlap
<1> DEFINE s == [m EXCEPT !.pc = pc, !.plan = p]
<1>1. s \in TurnRec
  BY DEF RowReady, TurnRec, InFlight
<1>2. /\ s.pc = pc /\ s.plan = p /\ s.kind = m.kind /\ s.key = m.key /\ s.chat = m.chat
      /\ s.cmd = m.cmd /\ s.cancel = m.cancel /\ s.own = m.own /\ s.overlap = m.overlap
      /\ s.out = m.out /\ s.astray = m.astray
  BY DEF RowReady, TurnRec
<1>3. r = s
  BY DEF PlotRow
<1> HIDE DEF s
<1>4. RowOK(s)
  BY <1>1, <1>2 DEF RowOK, RowReady, Waits
<1> QED BY <1>2, <1>3, <1>4

LEMMA RowEnters ==
  ASSUME NEW m, RowReady(m), NEW b \in BOOLEAN, m.cmd = "text", ~m.astray,
         NEW r, r = EnterRow(m, b)
  PROVE  /\ RowOK(r) /\ r.pc = "thinking" /\ r.kind = m.kind /\ r.key = m.key
         /\ r.chat = m.chat /\ r.overlap = b /\ r.cancel = m.cancel
<1> DEFINE s == [m EXCEPT !.pc = "thinking", !.plan = NoPlan, !.overlap = b]
<1>1. s \in TurnRec
  BY NoPlanTyped DEF RowReady, TurnRec, InFlight
<1>2. /\ s.pc = "thinking" /\ s.kind = m.kind /\ s.key = m.key /\ s.chat = m.chat
      /\ s.cmd = m.cmd /\ s.cancel = m.cancel /\ s.overlap = b
      /\ s.out = m.out /\ s.astray = m.astray
  BY DEF RowReady, TurnRec
<1>3. r = s
  BY DEF EnterRow
<1> HIDE DEF s
<1>4. RowOK(s)
  BY <1>1, <1>2 DEF RowOK, RowReady, Waits
<1> QED BY <1>2, <1>3, <1>4

(* What is the same of a turn before and after a tool call. *)
CallKeeps(r, s) ==
  /\ s.pc = r.pc /\ s.kind = r.kind /\ s.key = r.key /\ s.chat = r.chat /\ s.cmd = r.cmd
  /\ s.cancel = r.cancel /\ s.overlap = r.overlap /\ s.plan = r.plan /\ s.out = r.out

CalledRow(r, a) == [r EXCEPT !.calls = @ + 1, !.astray = a]
SpokenRow(r, a, o) == [CalledRow(r, a) EXCEPT !.own = o]
NamedRow(r, o) == [r EXCEPT !.calls = @ + 1, !.own = o]

LEMMA RowCalls ==
  ASSUME NEW r, RowOK(r), r.pc = "thinking", r.calls < MaxCalls,
         NEW a \in BOOLEAN, NEW o \in BOOLEAN, a => r.astray \/ r.overlap
  PROVE  /\ RowOK(CalledRow(r, a)) /\ CallKeeps(r, CalledRow(r, a))
         /\ CalledRow(r, a).own = r.own
         /\ RowOK(SpokenRow(r, a, o)) /\ CallKeeps(r, SpokenRow(r, a, o))
         /\ SpokenRow(r, a, o).own = o
         /\ RowOK(NamedRow(r, o)) /\ CallKeeps(r, NamedRow(r, o)) /\ NamedRow(r, o).own = o
<1>1. r.calls + 1 \in 0..MaxCalls
  BY LoopAssumption DEF RowOK, TurnRec
<1>2. PICK n \in 0..MaxCalls : n = r.calls + 1
  BY <1>1
<1>3. r \in TurnRec /\ (~r.overlap => ~r.astray) /\ r.out = "none"
  BY DEF RowOK
<1> DEFINE u == [r EXCEPT !.calls = n, !.astray = a]
           v == [u EXCEPT !.own = o]
           w == [r EXCEPT !.calls = n, !.own = o]
<1>4. u \in TurnRec /\ CallKeeps(r, u) /\ u.own = r.own /\ u.astray = a
  BY <1>3 DEF TurnRec, CallKeeps
<1>5. v \in TurnRec /\ CallKeeps(r, v) /\ v.own = o /\ v.astray = a
  BY <1>3 DEF TurnRec, CallKeeps
<1>6. w \in TurnRec /\ CallKeeps(r, w) /\ w.own = o /\ w.astray = r.astray
  BY <1>3 DEF TurnRec, CallKeeps
<1> HIDE DEF u, v, w
<1>7. RowOK(u) /\ RowOK(v) /\ RowOK(w)
  BY <1>3, <1>4, <1>5, <1>6 DEF RowOK, CallKeeps
<1>8. CalledRow(r, a) = u /\ SpokenRow(r, a, o) = v /\ NamedRow(r, o) = w
  BY <1>2, Zenon DEF CalledRow, SpokenRow, NamedRow, u, v, w
<1> QED BY <1>4, <1>5, <1>6, <1>7, <1>8

-----------------------------------------------------------------------------
(* The turns together.                                                     *)
(*   LockInv:   a turn in flight holds the lock, unless it is direct;      *)
(*   DirectInv: two direct turns never share a session;                    *)
(*   InboundInv: what is on the bus is queued, once, and a /stop that is   *)
(*     being handled has left the bus;                                     *)
(*   RoutingInv: a turn that no turn outside the lock met owns the routing *)
(*     of the tools from its start to its end.                             *)
Rows == \A t \in Turn : RowOK(turn[t])

LockInv ==
  \A t \in Turn : turn[t].pc \in InFlight /\ turn[t].kind # "direct" =>
    queue # <<>> /\ queue[1] = t

IsDirect(r) == r.kind = "direct" /\ r.pc # "done"
DirectInv ==
  \A t \in Turn : \A u \in Turn :
    IsDirect(turn[t]) /\ IsDirect(turn[u]) /\ turn[t].key = turn[u].key => t = u

InboundInv ==
  /\ \A i \in DOMAIN inbound :
       /\ turn[inbound[i]].pc = "queued"
       /\ \A j \in DOMAIN inbound : inbound[i] = inbound[j] => i = j
       /\ main.at # "idle" => inbound[i] # main.stop
  /\ main.at # "idle" => main.stop \in Turn /\ turn[main.stop].cmd = "stop"

Routes(r) == r.pc \in {"thinking", "last"}
RoutingInv ==
  /\ \A t \in Turn : ~turn[t].overlap /\ Routes(turn[t]) =>
       /\ ctx.chat = turn[t].chat
       /\ turn[t].kind # "system" /\ sent => turn[t].own
  /\ \A t \in Turn : \A u \in Turn :
       t # u /\ Routes(turn[t]) /\ Routes(turn[u]) => turn[t].overlap

(* A cached session is its file, and the chunk of a consolidation in flight  *)
(* is within it.                                                           *)
MemoryInv ==
  /\ \A k \in Key :
       /\ cache[k].open => cache[k].turns = disk[k].turns /\ cache[k].lc = disk[k].lc
       /\ disk[k].lc <= Len(disk[k].turns)
  /\ \A t \in Turn :
       /\ turn[t].pc \in {"first", "last"} => turn[t].plan.end <= Len(disk[turn[t].key].turns)
       /\ turn[t].pc = "archiving" => turn[t].plan.end = Len(disk[turn[t].key].turns)

LoopInv ==
  /\ TypeOK /\ Rows /\ LockInv /\ DirectInv /\ InboundInv /\ RoutingInv
  /\ MemoryInv

-----------------------------------------------------------------------------
(* What a step does to the turns.                                          *)
routing == <<queue, ctx, sent>>

Arrives(t, r) ==
  /\ turn[t].kind = "none" /\ RowOK(r) /\ r.pc = "queued" /\ r.kind # "direct"
  /\ turn' = [turn EXCEPT ![t] = r]
  /\ UNCHANGED routing

Starts(t) ==
  /\ turn[t].pc = "queued" /\ turn[t].cmd \in {"text", "new"}
  /\ turn' = [turn EXCEPT ![t].pc = "waiting"]
  /\ queue' = Append(queue, t)
  /\ UNCHANGED <<ctx, sent>>

Ends(t, out) ==
  /\ turn[t].kind # "none"
  /\ out = "silent" => Routes(turn[t]) /\ turn[t].kind # "system" /\ sent
  /\ turn' = [turn EXCEPT ![t] = Ended(t, out)]
  /\ \/ Leave(t)
     \/ queue' = queue /\ (turn[t].kind = "direct" \/ turn[t].pc = "queued")
  /\ UNCHANGED <<ctx, sent>>

(* The row a turn goes on with: its own, with the lock or in flight, or    *)
(* that of a direct turn whose session no other turn works on.             *)
NewDirectRow(k, c) == [NoTurn EXCEPT !.kind = "direct", !.key = k, !.chat = c]
GoesOnWith(t, m) ==
  \/ /\ m = turn[t] /\ ~turn[t].cancel
     /\ \/ turn[t].pc = "waiting" /\ queue # <<>> /\ queue[1] = t
        \/ turn[t].pc \in InFlight
  \/ /\ turn[t].kind = "none"
     /\ \E k \in Direct, c \in Chat :
          /\ m = NewDirectRow(k, c)
          /\ \A u \in Turn : turn[u].key = k => turn[u].pc = "done"

Plots(t, m, pc, p) ==
  /\ GoesOnWith(t, m)
  /\ p \in Plan /\ pc \in {"archiving", "first", "last"}
  /\ pc = "archiving" => turn[t].pc = "waiting"
  /\ pc = "first" => turn[t].pc \in {"waiting", "none", "first"} /\ m.cmd = "text"
  /\ pc = "last" => turn[t].pc \in {"thinking", "last"}
  /\ p.end <= Len(disk'[m.key].turns)
  /\ pc = "archiving" => p.end = Len(disk'[m.key].turns)
  /\ turn' = [turn EXCEPT ![t] = [m EXCEPT !.pc = pc, !.plan = p]]
  /\ UNCHANGED routing

Enters(t, m) ==
  /\ GoesOnWith(t, m) /\ m.cmd = "text" /\ turn[t].pc \in {"waiting", "none", "first"}
  /\ EnterThinking(t, m)
  /\ UNCHANGED queue

Calls(t) ==
  /\ ToolCall(t)
  /\ \/ turn' = [turn EXCEPT ![t] = Called(t)] /\ sent' = sent
     \/ /\ turn' = [turn EXCEPT ![t] = [Called(t) EXCEPT !.own = @ \/ ctx.chat = turn[t].chat]]
        /\ sent' = TRUE
     \/ \E c \in Chat :
          /\ turn' = [turn EXCEPT ![t].calls = @ + 1, ![t].own = @ \/ c = turn[t].chat]
          /\ sent' = (sent \/ c = ctx.chat)
  /\ UNCHANGED <<queue, ctx>>

Marks(k) ==
  /\ turn' = [u \in Turn |-> IF u \in Active(k) THEN [turn[u] EXCEPT !.cancel = TRUE] ELSE turn[u]]
  /\ UNCHANGED routing

TurnsMove ==
  \/ UNCHANGED <<turn, routing>>
  \/ \E t \in Turn, r \in TurnRec : Arrives(t, r)
  \/ \E t \in Turn : Starts(t)
  \/ \E t \in Turn, out \in {"replied", "silent", "dropped"} : Ends(t, out)
  \/ \E t \in Turn, m \in TurnRec, pc \in {"archiving", "first", "last"}, p \in Plan :
       Plots(t, m, pc, p)
  \/ \E t \in Turn, m \in TurnRec : Enters(t, m)
  \/ \E t \in Turn : Calls(t)
  \/ \E k \in Key : Marks(k)
  \/ VolatileLost

LEMMA Heads ==
  ASSUME InboundInv, TypeOK, NEW t \in Turn, Consume(t)
  PROVE  /\ turn[t].pc = "queued" /\ inbound # <<>> /\ t = inbound[1]
         /\ main.at = "idle" /\ inbound' = Tail(inbound)
<1>1. inbound # <<>> /\ t = Head(inbound) /\ main.at = "idle" /\ inbound' = Tail(inbound)
  BY DEF Consume
<1>2. 1 \in DOMAIN inbound /\ t = inbound[1]
  BY <1>1 DEF TypeOK
<1> QED BY <1>1, <1>2 DEF InboundInv

LEMMA AnnouncedRow ==
  ASSUME NEW c \in Chat
  PROVE  LET r == [NoTurn EXCEPT !.kind = "system", !.key = c, !.chat = c, !.pc = "queued"]
         IN  RowOK(r) /\ r.pc = "queued" /\ r.kind = "system"
<1> DEFINE r == [NoTurn EXCEPT !.kind = "system", !.key = c, !.chat = c, !.pc = "queued"]
<1>1. c \in Key /\ c \in UserKey
  BY Places
<1>2. r \in TurnRec
  BY <1>1, NoTurnOK DEF TurnRec
<1>3. /\ r.kind = "system" /\ r.cmd = "text" /\ r.key = c /\ r.pc = "queued" /\ r.out = "none"
      /\ ~r.cancel /\ ~r.astray
  BY NoTurnOK DEF TurnRec
<1> HIDE DEF r
<1>4. RowOK(r)
  BY <1>1, <1>2, <1>3 DEF RowOK, Waits
<1> QED BY <1>3, <1>4 DEF r

LEMMA ArrivingMoves ==
  ASSUME LoopInv, NEW t \in Turn,
         \/ \E k \in UserKey, cmd \in {"text", "new", "stop", "restart"} : Send(t, k, cmd)
         \/ \E s \in Sub : Announce(s, t)
  PROVE  \E r \in TurnRec : Arrives(t, r)
<1>1. ASSUME NEW k \in UserKey, NEW cmd \in {"text", "new", "stop", "restart"}, Send(t, k, cmd)
      PROVE  \E r \in TurnRec : Arrives(t, r)
  <2> DEFINE r == [NoTurn EXCEPT !.kind = "chat", !.cmd = cmd, !.key = k,
                                 !.chat = ChatOf[k], !.pc = "queued"]
  <2>1. ChatOf[k] \in Chat
    BY Places
  <2>2. RowOK(r)
    BY <2>1, NewRow
  <2>3. r.pc = "queued" /\ r.kind = "chat" /\ r \in TurnRec
    BY <2>2, NoTurnOK DEF RowOK, TurnRec
  <2>4. turn[t].kind = "none" /\ turn' = [turn EXCEPT ![t] = r] /\ UNCHANGED routing
    BY <1>1 DEF Send, Fresh, routing
  <2> HIDE DEF r
  <2> QED BY <2>2, <2>3, <2>4 DEF Arrives
<1>2. ASSUME NEW s \in Sub, Announce(s, t) PROVE \E r \in TurnRec : Arrives(t, r)
  <2>1. PICK c : c = sub[s].chat
    OBVIOUS
  <2>2. c \in Chat /\ c \in UserKey
    BY <2>1, Places DEF LoopInv, TypeOK
  <2> DEFINE r == [NoTurn EXCEPT !.kind = "system", !.key = c, !.chat = c, !.pc = "queued"]
  <2>3. RowOK(r) /\ r.pc = "queued" /\ r.kind = "system"
    BY <2>2, AnnouncedRow
  <2>4. turn[t].kind = "none" /\ turn' = [turn EXCEPT ![t] = r] /\ UNCHANGED routing
    BY <1>2, <2>1 DEF Announce, Fresh, routing
  <2> HIDE DEF r
  <2>5. r \in TurnRec
    BY <2>3 DEF RowOK
  <2> QED BY <2>3, <2>4, <2>5 DEF Arrives
<1> QED BY <1>1, <1>2

LEMMA EndingMoves ==
  ASSUME LoopInv, NEW t \in Turn,
         \/ HandleRestart(t) \/ Unwind(t) \/ NewRefused(t) \/ Apologise(t) \/ CronRearmed(t)
         \/ \E entry \in Entries : NewSession(t, entry)
  PROVE  \E out \in {"replied", "silent", "dropped"} : Ends(t, out)
<1>1. RowOK(turn[t])
  BY DEF LoopInv, Rows
<1>2. CASE HandleRestart(t)
  <2>1. turn[t].pc = "queued"
    BY <1>2, Heads DEF HandleRestart, LoopInv
  <2>2. turn[t].kind # "none"
    BY <1>1, <2>1 DEF RowOK
  <2>3. Ends(t, "replied")
    BY <1>2, <2>1, <2>2 DEF HandleRestart, Ends
  <2> QED BY <2>3
<1>3. CASE Unwind(t)
  <2>1. turn[t].kind # "none"
    BY <1>1, <1>3 DEF RowOK, Unwind
  <2>2. Ends(t, "dropped")
    BY <1>3, <2>1 DEF Unwind, Ends
  <2> QED BY <2>2
<1>4. CASE NewRefused(t) \/ Apologise(t)
  <2>1. turn[t].kind # "none"
    BY <1>1, <1>4 DEF RowOK, NewRefused, Apologise, Running
  <2>2. Ends(t, "replied")
    BY <1>4, <2>1 DEF NewRefused, Apologise, Ends
  <2> QED BY <2>2
<1>5. CASE CronRearmed(t)
  <2>1. Ends(t, "dropped")
    BY <1>5 DEF CronRearmed, Ends
  <2> QED BY <2>1
<1>6. ASSUME NEW entry \in Entries, NewSession(t, entry)
      PROVE  \E out \in {"replied", "silent", "dropped"} : Ends(t, out)
  <2>1. turn[t].kind # "none"
    BY <1>1, <1>6 DEF RowOK, NewSession, Running
  <2>2. Ends(t, "replied")
    BY <1>6, <2>1 DEF NewSession, Ends
  <2> QED BY <2>2
<1> QED BY <1>2, <1>3, <1>4, <1>5, <1>6

LEMMA ReplyMoves ==
  ASSUME LoopInv, NEW t \in Turn, Reply(t), Routes(turn[t]), UNCHANGED <<ctx, sent>>
  PROVE  \E out \in {"replied", "silent", "dropped"} : Ends(t, out)
<1>1. turn[t].kind # "none"
  BY DEF LoopInv, Rows, RowOK, Routes
<1>2. PICK out : out = IF turn[t].kind # "system" /\ sent THEN "silent" ELSE "replied"
  OBVIOUS
<1>3. turn' = [turn EXCEPT ![t] = Ended(t, out)] /\ Leave(t)
  BY <1>2, Zenon DEF Reply
<1>4. Ends(t, out)
  BY <1>1, <1>2, <1>3 DEF Ends
<1> QED BY <1>2, <1>4

LEMMA CallingMoves ==
  ASSUME NEW t \in Turn,
         \/ MessageDefault(t) \/ CreateTask(t)
         \/ \E c \in Chat : MessageTo(t, c)
         \/ \E s \in Sub : Spawn(t, s)
  PROVE  Calls(t)
BY Zenon DEF MessageDefault, CreateTask, MessageTo, Spawn, Calls

-----------------------------------------------------------------------------
(* Sessions: what is loaded is what the file holds.                        *)
LEMMA SessionIs ==
  ASSUME LoopInv, NEW k \in Key
  PROVE  /\ GetOrCreate(k) \in Session
         /\ GetOrCreate(k).turns = disk[k].turns /\ GetOrCreate(k).lc = disk[k].lc
         /\ GetOrCreate(k).open
<1>1. cache[k] \in Session /\ disk[k] \in Session
  BY DEF LoopInv, TypeOK, SessionsTypeOK
<1>2. CASE cache[k].open
  BY <1>1, <1>2 DEF LoopInv, MemoryInv, GetOrCreate
<1>3. CASE ~cache[k].open
  <2> DEFINE s == [disk[k] EXCEPT !.open = TRUE]
  <2>1. TRUE \in BOOLEAN
    OBVIOUS
  <2>2. s \in Session /\ s.turns = disk[k].turns /\ s.lc = disk[k].lc /\ s.open
    BY <1>1, <2>1 DEF Session
  <2>3. GetOrCreate(k) = s
    BY <1>3, Zenon DEF GetOrCreate
  <2> QED BY <2>2, <2>3
<1> QED BY <1>2, <1>3

LEMMA ConsolidatedIs ==
  ASSUME LoopInv, NEW k \in Key, NEW p \in Plan
  PROVE  /\ Consolidated(k, p) \in Session
         /\ Consolidated(k, p).turns = disk[k].turns /\ Consolidated(k, p).lc = p.end
         /\ Consolidated(k, p).open
BY SessionIs DEF Consolidated, Session, Plan

LEMMA WithTurnIs ==
  ASSUME LoopInv, NEW k \in Key, NEW t \in Turn
  PROVE  /\ WithTurn(k, t) \in Session
         /\ WithTurn(k, t).turns = Append(disk[k].turns, t) /\ WithTurn(k, t).lc = disk[k].lc
         /\ WithTurn(k, t).open
<1>1. disk[k].turns \in Seq(Turn)
  BY DEF LoopInv, TypeOK, SessionsTypeOK, Session
<1>2. PICK q : q = Append(disk[k].turns, t)
  OBVIOUS
<1>3. q \in Seq(Turn)
  BY <1>1, <1>2
<1>4. PICK s \in Session : s = GetOrCreate(k)
  BY SessionIs
<1>5. s.turns = disk[k].turns /\ s.lc = disk[k].lc /\ s.open
  BY <1>4, SessionIs
<1> DEFINE w == [s EXCEPT !.turns = q]
<1>6. w \in Session /\ w.turns = q /\ w.lc = s.lc /\ w.open = s.open
  BY <1>3 DEF Session
<1>7. WithTurn(k, t) = w
  BY <1>2, <1>4, <1>5, Zenon DEF WithTurn
<1> HIDE DEF w
<1> QED BY <1>2, <1>5, <1>6, <1>7

LEMMA SavedIs ==
  ASSUME TypeOK, NEW k \in Key, NEW s \in Session, Save(k, s)
  PROVE  /\ cache' \in [Key -> Session] /\ disk' \in [Key -> Session]
         /\ cache'[k] = s /\ disk'[k].turns = s.turns /\ disk'[k].lc = s.lc
         /\ \A j \in Key : j # k => cache'[j] = cache[j] /\ disk'[j] = disk[j]
<1> DEFINE f == [s EXCEPT !.open = FALSE]
<1>1. FALSE \in BOOLEAN
  OBVIOUS
<1>2. f \in Session /\ f.turns = s.turns /\ f.lc = s.lc
  BY <1>1 DEF Session
<1>3. cache' = [cache EXCEPT ![k] = s] /\ disk' = [disk EXCEPT ![k] = f]
  BY DEF Save
<1> HIDE DEF f
<1> QED BY <1>2, <1>3 DEF TypeOK, SessionsTypeOK

LEMMA ElemsOf ==
  ASSUME NEW S, NEW s \in Seq(S), NEW m \in Nat \ {0}, NEW n \in Nat, n <= Len(s)
  PROVE  /\ Elems(SubSeq(s, m, n)) = {s[i] : i \in m..n}
         /\ Elems(SubSeq(s, m, n)) \subseteq S
<1>1. PICK f : f = SubSeq(s, m, n)
  OBVIOUS
<1>2. \A i \in m..n : s[i] \in S
  OBVIOUS
<1>3. f \in Seq(S) /\ Len(f) = (IF m <= n THEN n - m + 1 ELSE 0)
      /\ \A i \in 1..(n - m + 1) : f[i] = s[m + i - 1]
  BY <1>1, <1>2, SubSeqProperties
<1>4. DOMAIN f = 1..(n - m + 1) /\ \A i \in 1..(n - m + 1) : f[i] = s[m + i - 1]
  BY <1>3
<1>5. {f[i] : i \in DOMAIN f} = {s[i] : i \in m..n}
  <2>1. \A i \in DOMAIN f : m + i - 1 \in m..n /\ f[i] = s[m + i - 1]
    BY <1>4
  <2>2. \A i \in m..n : i - m + 1 \in DOMAIN f /\ f[i - m + 1] = s[i]
    BY <1>4
  <2>3. \A i \in DOMAIN f : \E j \in m..n : f[i] = s[j]
    BY <2>1
  <2>4. \A j \in m..n : \E i \in DOMAIN f : f[i] = s[j]
    BY <2>2
  <2>5. \A x : x \in {f[i] : i \in DOMAIN f} <=> \E i \in DOMAIN f : f[i] = x
    BY Zenon
  <2>6. \A x : x \in {s[j] : j \in m..n} <=> \E j \in m..n : s[j] = x
    BY Zenon
  <2>7. ASSUME NEW x PROVE x \in {f[i] : i \in DOMAIN f} <=> x \in {s[j] : j \in m..n}
    BY <2>3, <2>4, <2>5, <2>6, Zenon
  <2> QED BY <2>7, Zenon
<1>6. Elems(f) = {s[i] : i \in m..n}
  BY <1>5 DEF Elems
<1> QED BY <1>1, <1>2, <1>6

LEMMA ChunkIs ==
  ASSUME LoopInv, NEW k \in Key, NEW p \in Plan, p.end <= Len(disk[k].turns)
  PROVE  /\ Chunk(k, p) = {disk[k].turns[i] : i \in (disk[k].lc + 1)..p.end}
         /\ Chunk(k, p) \subseteq Turn
<1>1. disk[k].turns \in Seq(Turn) /\ disk[k].lc \in Nat
  BY DEF LoopInv, TypeOK, SessionsTypeOK, Session
<1>2. p.end \in Nat /\ disk[k].lc + 1 \in Nat \ {0}
  BY <1>1 DEF Plan
<1>3. Chunk(k, p) = Elems(SubSeq(disk[k].turns, disk[k].lc + 1, p.end))
  BY SessionIs DEF Chunk
<1> QED BY <1>1, <1>2, <1>3, ElemsOf

LEMMA PlansTyped ==
  ASSUME NEW s \in Session, NEW mem \in SUBSET Turn, NEW round \in 0..MaxRounds,
         NEW p \in Plans(s, mem, round)
  PROVE  p \in Plan /\ p.end \in Nat /\ p.end <= Len(s.turns)
<1>1. PICK e \in Boundaries(s) : p = [end |-> e, read |-> mem, round |-> round]
  BY DEF Plans
<1>2. s.lc \in Nat /\ Len(s.turns) \in Nat
  BY DEF Session
<1>3. e \in Nat /\ e <= Len(s.turns)
  BY <1>2 DEF Boundaries
<1> QED BY <1>1, <1>3 DEF Plan

LEMMA ArchiveTyped ==
  ASSUME LoopInv, NEW k \in Key
  PROVE  ArchivePlan(k) \in Plan /\ ArchivePlan(k).end = Len(disk[k].turns)
<1>1. memory \subseteq Turn /\ Len(disk[k].turns) \in Nat /\ 0 \in 0..MaxRounds
  <2>1. disk[k] \in Session /\ memory \subseteq Turn
    BY DEF LoopInv, TypeOK, SessionsTypeOK
  <2> QED BY <2>1, SessionsAssumption DEF Session
<1>2. ArchivePlan(k) = [end |-> Len(disk[k].turns), read |-> memory, round |-> 0]
  BY SessionIs DEF ArchivePlan
<1> QED BY <1>1, <1>2 DEF Plan

-----------------------------------------------------------------------------
(* Every step of the loop is one of those moves.                           *)
Halves(t, m) ==
  \/ \E pc \in {"archiving", "first", "last"}, p \in Plan : Plots(t, m, pc, p)
  \/ Enters(t, m)

LEMMA RunningReady ==
  ASSUME LoopInv, NEW t \in Turn, ~turn[t].cancel, turn[t].pc \in {"waiting"} \cup InFlight
  PROVE  /\ RowReady(turn[t])
         /\ turn[t].pc # "waiting" => GoesOnWith(t, turn[t])
         /\ turn[t].pc \in {"waiting", "archiving", "first"} => ~turn[t].astray
         /\ turn[t].pc \notin {"waiting", "archiving"} => turn[t].cmd = "text"
<1>1. RowOK(turn[t])
  BY DEF LoopInv, Rows
<1>2. RowReady(turn[t])
  BY <1>1 DEF RowOK, RowReady, InFlight, TurnRec
<1>3. turn[t].pc # "waiting" => GoesOnWith(t, turn[t])
  BY DEF GoesOnWith
<1>4. /\ turn[t].pc \in {"waiting", "archiving", "first"} => ~turn[t].astray
      /\ turn[t].pc \notin {"waiting", "archiving"} => turn[t].cmd = "text"
  BY <1>1 DEF RowOK, InFlight
<1> QED BY <1>2, <1>3, <1>4

LEMMA BeginsMoves ==
  ASSUME LoopInv, NEW t \in Turn, NEW m, RowReady(m), GoesOnWith(t, m),
         turn[t].pc \in {"waiting", "none"}, m.cmd = "new" => turn[t].pc = "waiting",
         BeginTurn(t, m), UNCHANGED queue
  PROVE  Halves(t, m)
<1>1. m.key \in Key /\ 1 \in 0..MaxRounds /\ memory \in SUBSET Turn
  BY SessionsAssumption DEF RowReady, TurnRec, LoopInv, TypeOK, SessionsTypeOK
<1>2. disk' = disk
  BY DEF BeginTurn, Open
<1>3. ASSUME m.cmd = "new", UNCHANGED <<ctx, sent>>,
             turn' = [turn EXCEPT ![t] = [m EXCEPT !.pc = "archiving", !.plan = ArchivePlan(m.key)]]
      PROVE  Halves(t, m)
  <2>1. PICK p \in Plan : p = ArchivePlan(m.key)
    BY <1>1, ArchiveTyped
  <2>2. p.end = Len(disk'[m.key].turns)
    BY <1>1, <1>2, <2>1, ArchiveTyped
  <2>3. p.end <= Len(disk'[m.key].turns)
    BY <2>2 DEF Plan
  <2>4. turn' = [turn EXCEPT ![t] = [m EXCEPT !.pc = "archiving", !.plan = p]]
    BY <1>3, <2>1
  <2>5. Plots(t, m, "archiving", p)
    BY <1>3, <2>2, <2>3, <2>4 DEF Plots, routing
  <2> QED BY <2>5 DEF Halves
<1>4. ASSUME m.cmd = "text", UNCHANGED <<ctx, sent>>,
             Consolidating(t, m, GetOrCreate(m.key), memory, "first", 1)
      PROVE  Halves(t, m)
  <2>1. PICK p \in Plans(GetOrCreate(m.key), memory, 1) :
          turn' = [turn EXCEPT ![t] = [m EXCEPT !.pc = "first", !.plan = p]]
    BY <1>4 DEF Consolidating
  <2>2. GetOrCreate(m.key) \in Session /\ GetOrCreate(m.key).turns = disk[m.key].turns
    BY <1>1, SessionIs
  <2>3. p \in Plan /\ p.end <= Len(disk[m.key].turns)
    BY <1>1, <2>1, <2>2, PlansTyped
  <2>4. Plots(t, m, "first", p)
    BY <1>2, <1>4, <2>1, <2>3 DEF Plots, routing
  <2> QED BY <2>3, <2>4 DEF Halves
<1>5. ASSUME m.cmd = "text", EnterThinking(t, m)
      PROVE  Halves(t, m)
  BY <1>5 DEF Enters, Halves
<1> QED BY <1>3, <1>4, <1>5 DEF BeginTurn

LEMMA AcquireMoves ==
  ASSUME LoopInv, NEW t \in Turn, Acquire(t)
  PROVE  Halves(t, turn[t])
<1>1. turn[t].pc = "waiting" /\ ~turn[t].cancel /\ queue # <<>> /\ t = Head(queue)
  BY DEF Acquire, Running
<1>2. queue[1] = t
  BY <1>1 DEF LoopInv, TypeOK
<1>3. RowReady(turn[t])
  BY <1>1, RunningReady
<1>4. GoesOnWith(t, turn[t])
  BY <1>1, <1>2 DEF GoesOnWith
<1>5. BeginTurn(t, turn[t]) /\ UNCHANGED queue
  BY DEF Acquire
<1> QED BY <1>1, <1>3, <1>4, <1>5, BeginsMoves

LEMMA DirectMoves ==
  ASSUME LoopInv, NEW t \in Turn, NEW k \in Direct, NEW c \in Chat, BeginDirect(t, k, c)
  PROVE  Halves(t, NewDirectRow(k, c))
<1> DEFINE r == [NoTurn EXCEPT !.kind = "direct", !.key = k, !.chat = c]
           m == NewDirectRow(k, c)
<1>0. /\ r \in TurnRec /\ r.kind = "direct" /\ r.key = k /\ r.cmd = "text" /\ r.out = "none"
      /\ ~r.cancel /\ ~r.astray
  BY NoTurnOK DEF TurnRec, Direct
<1>1. /\ m \in TurnRec /\ m.kind = "direct" /\ m.key = k /\ m.cmd = "text" /\ m.out = "none"
      /\ ~m.cancel /\ ~m.astray
  <2>1. m = r
    BY DEF NewDirectRow
  <2> HIDE DEF m, r
  <2> QED BY <1>0, <2>1
<1>2. RowReady(m)
  BY <1>1 DEF RowReady
<1>3. turn[t].kind = "none" /\ BeginTurn(t, m) /\ UNCHANGED queue
      /\ \A u \in Turn : turn[u].key = k => turn[u].pc = "done"
  BY DEF BeginDirect, Fresh, NewDirectRow
<1>4. turn[t].pc = "none"
  BY <1>3 DEF LoopInv, Rows, RowOK
<1>5. GoesOnWith(t, m)
  BY <1>3, Zenon DEF GoesOnWith
<1> HIDE DEF m
<1>6. m.cmd = "new" => turn[t].pc = "waiting"
  BY <1>1
<1>7. Halves(t, m)
  BY <1>2, <1>3, <1>4, <1>5, <1>6, BeginsMoves
<1> QED BY <1>7 DEF m

LEMMA FinishMoves ==
  ASSUME LoopInv, NEW t \in Turn, Finish(t)
  PROVE  Halves(t, turn[t]) \/ \E out \in {"replied", "silent", "dropped"} : Ends(t, out)
<1>1. turn[t].pc = "thinking" /\ ~turn[t].cancel
  BY DEF Finish, Running
<1>2. RowReady(turn[t]) /\ GoesOnWith(t, turn[t]) /\ turn[t].cmd = "text"
  BY <1>1, RunningReady DEF InFlight
<1>3. CASE Reply(t)
  BY <1>1, <1>3, ReplyMoves DEF Finish, Routes
<1>4. CASE /\ Consolidating(t, turn[t], WithTurn(turn[t].key, t), memory, "last", 1)
           /\ UNCHANGED queue
  <2>1. turn[t].key \in Key /\ 1 \in 0..MaxRounds /\ memory \in SUBSET Turn
    BY <1>2, SessionsAssumption DEF RowReady, TurnRec, LoopInv, TypeOK, SessionsTypeOK
  <2>2. PICK s \in Session : s = WithTurn(turn[t].key, t)
    BY <2>1, WithTurnIs
  <2>3. Save(turn[t].key, s)
    BY <2>2 DEF Finish, SaveTurn
  <2>4. disk'[turn[t].key].turns = s.turns
    BY <2>1, <2>3, SavedIs DEF LoopInv
  <2>5. PICK p \in Plans(s, memory, 1) :
          turn' = [turn EXCEPT ![t] = [turn[t] EXCEPT !.pc = "last", !.plan = p]]
    BY <1>4, <2>2 DEF Consolidating
  <2>6. p \in Plan /\ p.end <= Len(disk'[turn[t].key].turns)
    BY <2>1, <2>4, <2>5, PlansTyped
  <2>7. Plots(t, turn[t], "last", p)
    BY <1>1, <1>2, <1>4, <2>5, <2>6 DEF Plots, routing, Finish
  <2> QED BY <2>6, <2>7 DEF Halves
<1> QED BY <1>3, <1>4 DEF Finish

LEMMA ProceedMoves ==
  ASSUME LoopInv, NEW t \in Turn, Running(t, "first") \/ Running(t, "last"), Proceed(t)
  PROVE  Halves(t, turn[t]) \/ \E out \in {"replied", "silent", "dropped"} : Ends(t, out)
<1>1. turn[t].pc \in {"first", "last"} /\ ~turn[t].cancel
  BY DEF Running
<1>2. RowReady(turn[t]) /\ GoesOnWith(t, turn[t]) /\ turn[t].cmd = "text"
  BY <1>1, RunningReady DEF InFlight
<1>3. CASE turn[t].pc = "first" /\ EnterThinking(t, turn[t]) /\ UNCHANGED queue
  BY <1>2, <1>3 DEF Enters, Halves
<1>4. CASE turn[t].pc = "last" /\ Reply(t) /\ UNCHANGED <<ctx, sent>>
  BY <1>4, ReplyMoves DEF Routes
<1> QED BY <1>3, <1>4 DEF Proceed

LEMMA AdvanceMoves ==
  ASSUME LoopInv, NEW t \in Turn, NEW entry \in Entries, ConsolidationSucceeds(t, entry)
  PROVE  Halves(t, turn[t]) \/ \E out \in {"replied", "silent", "dropped"} : Ends(t, out)
<1>1. turn[t].pc \in {"first", "last"} /\ ~turn[t].cancel
  BY DEF ConsolidationSucceeds, Running
<1>2. RowReady(turn[t]) /\ GoesOnWith(t, turn[t]) /\ turn[t].cmd = "text"
  BY <1>1, RunningReady DEF InFlight
<1>3. CASE Proceed(t)
  BY <1>3, ProceedMoves DEF ConsolidationSucceeds
<1>4. CASE /\ turn[t].plan.round < MaxRounds
           /\ Consolidating(t, turn[t], Consolidated(turn[t].key, turn[t].plan),
                         turn[t].plan.read \cup Chunk(turn[t].key, turn[t].plan),
                         turn[t].pc, turn[t].plan.round + 1)
           /\ UNCHANGED <<queue, ctx, sent>>
  <2>1. turn[t].key \in Key /\ turn[t].plan \in Plan
    BY <1>2 DEF RowReady, TurnRec
  <2>2. turn[t].plan.read \subseteq Turn /\ turn[t].plan.round + 1 \in 0..MaxRounds
    BY <1>4, <2>1, SessionsAssumption DEF Plan
  <2>3. turn[t].plan.end <= Len(disk[turn[t].key].turns)
    BY <1>1 DEF LoopInv, MemoryInv
  <2>4. Chunk(turn[t].key, turn[t].plan) \subseteq Turn
    BY <2>1, <2>3, ChunkIs
  <2>5. PICK s \in Session : s = Consolidated(turn[t].key, turn[t].plan)
    BY <2>1, ConsolidatedIs
  <2>6. Save(turn[t].key, s)
    BY <2>5 DEF ConsolidationSucceeds, AdvanceConsolidated
  <2>7. disk'[turn[t].key].turns = s.turns
    BY <2>1, <2>6, SavedIs DEF LoopInv
  <2>8. PICK mem \in SUBSET Turn : mem = turn[t].plan.read \cup Chunk(turn[t].key, turn[t].plan)
    BY <2>2, <2>4
  <2>9. PICK p \in Plans(s, mem, turn[t].plan.round + 1) :
          turn' = [turn EXCEPT ![t] = [turn[t] EXCEPT !.pc = turn[t].pc, !.plan = p]]
    BY <1>4, <2>5, <2>8 DEF Consolidating
  <2>10. p \in Plan /\ p.end <= Len(disk'[turn[t].key].turns)
    BY <2>2, <2>7, <2>8, <2>9, PlansTyped
  <2>11. PICK pc \in {"first", "last"} : pc = turn[t].pc
    BY <1>1
  <2>12. turn' = [turn EXCEPT ![t] = [turn[t] EXCEPT !.pc = pc, !.plan = p]]
    BY <2>9, <2>11
  <2>13. Plots(t, turn[t], pc, p)
    BY <1>2, <1>4, <2>10, <2>11, <2>12 DEF Plots, routing
  <2> QED BY <2>10, <2>11, <2>13 DEF Halves
<1> QED BY <1>3, <1>4 DEF ConsolidationSucceeds

LEMMA StopMoves ==
  ASSUME LoopInv,
         \/ \E t \in Turn : HandleStop(t)
         \/ StopTasksEnded \/ StopSubsEnded \/ StopForgeEnded
  PROVE  TurnsMove
<1>1. ASSUME NEW t \in Turn, turn[t].cmd = "stop", StopAnswers(t), UNCHANGED routing
      PROVE  TurnsMove
  <2>1. turn[t].pc = "queued" /\ turn[t].kind # "none"
    BY <1>1 DEF LoopInv, Rows, RowOK
  <2>2. Ends(t, "replied")
    BY <1>1, <2>1 DEF Ends, StopAnswers, routing
  <2> QED BY <2>2 DEF TurnsMove
<1>2. ASSUME NEW t \in Turn, turn[t].cmd = "stop", StopSubs(t), UNCHANGED routing
      PROVE  TurnsMove
  <2>1. StopAnswers(t) \/ UNCHANGED turn
    BY <1>2 DEF StopSubs, StopRest
  <2> QED BY <1>1, <1>2, <2>1 DEF TurnsMove
<1>3. ASSUME NEW t \in Turn, HandleStop(t) PROVE TurnsMove
  <2>1. turn[t].cmd = "stop" /\ UNCHANGED routing
    BY <1>3 DEF HandleStop, routing
  <2>2. CASE StopSubs(t)
    BY <1>2, <2>1, <2>2
  <2>3. CASE turn' = [u \in Turn |-> IF u \in Active(turn[t].key)
                                       THEN [turn[u] EXCEPT !.cancel = TRUE] ELSE turn[u]]
    <3>1. PICK k \in Key : k = turn[t].key
      BY DEF LoopInv, TypeOK, TurnRec
    <3>2. Marks(k)
      BY <2>1, <2>3, <3>1 DEF Marks
    <3> QED BY <3>2 DEF TurnsMove
  <2> QED BY <1>3, <2>2, <2>3 DEF HandleStop
<1>4. CASE StopTasksEnded
  <2>1. main.stop \in Turn /\ turn[main.stop].cmd = "stop"
    BY <1>4 DEF StopTasksEnded, LoopInv, InboundInv
  <2>2. StopSubs(main.stop) /\ UNCHANGED routing
    BY <1>4 DEF StopTasksEnded, routing
  <2> QED BY <1>2, <2>1, <2>2
<1>5. CASE StopSubsEnded
  <2>1. main.stop \in Turn /\ turn[main.stop].cmd = "stop"
    BY <1>5 DEF StopSubsEnded, LoopInv, InboundInv
  <2>2. StopRest(main.stop) /\ UNCHANGED routing
    BY <1>5 DEF StopSubsEnded, routing
  <2>3. StopAnswers(main.stop) \/ UNCHANGED turn
    BY <2>2 DEF StopRest
  <2> QED BY <1>1, <2>1, <2>2, <2>3 DEF TurnsMove
<1>6. CASE StopForgeEnded
  <2>1. main.stop \in Turn /\ turn[main.stop].cmd = "stop"
    BY <1>6 DEF StopForgeEnded, LoopInv, InboundInv
  <2>2. StopAnswers(main.stop) /\ UNCHANGED routing
    BY <1>6 DEF StopForgeEnded, routing
  <2> QED BY <1>1, <2>1, <2>2
<1> QED BY <1>3, <1>4, <1>5, <1>6

LEMMA HalvesMove ==
  ASSUME NEW t \in Turn, NEW m, m \in TurnRec, Halves(t, m)
  PROVE  TurnsMove
BY DEF Halves, TurnsMove

LEMMA EveryMove ==
  ASSUME LoopInv, [Next]_vars
  PROVE  TurnsMove
<1> DEFINE Ending(t) == \E out \in {"replied", "silent", "dropped"} : Ends(t, out)
<1>1. ASSUME NEW t \in Turn, Ending(t) PROVE TurnsMove
  BY <1>1 DEF TurnsMove
<1>2. ASSUME NEW t \in Turn, Halves(t, turn[t]) PROVE TurnsMove
  <2>1. turn[t] \in TurnRec
    BY DEF LoopInv, TypeOK
  <2> QED BY <1>2, <2>1, HalvesMove
<1> HIDE DEF Ending
<1>3. ASSUME NEW t \in Turn, Halves(t, turn[t]) \/ Ending(t) PROVE TurnsMove
  BY <1>1, <1>2, <1>3
<1>4. ASSUME NEW t \in Turn, NEW k \in UserKey, NEW cmd \in {"text", "new", "stop", "restart"},
             Send(t, k, cmd)
      PROVE  TurnsMove
  BY <1>4, ArrivingMoves DEF TurnsMove
<1>5. ASSUME NEW t \in Turn, NEW k \in Direct, NEW c \in Chat, BeginDirect(t, k, c)
      PROVE  TurnsMove
  <2>1. NewDirectRow(k, c) \in TurnRec
    BY NoTurnOK DEF NewDirectRow, TurnRec, Direct
  <2>2. Halves(t, NewDirectRow(k, c))
    BY <1>5, DirectMoves
  <2> QED BY <2>1, <2>2, HalvesMove
<1>6. ASSUME NEW t \in Turn, TurnStep(t) PROVE TurnsMove
  <2>1. CASE Acquire(t)
    BY <1>2, <2>1, AcquireMoves
  <2>2. CASE Finish(t)
    BY <1>3, <2>2, FinishMoves DEF Ending
  <2>3. CASE ConsolidationFails(t)
    BY <1>3, <2>3, ProceedMoves DEF Ending, ConsolidationFails
  <2>4. CASE NewRefused(t) \/ Unwind(t)
    BY <1>1, <2>4, EndingMoves DEF Ending
  <2>5. ASSUME NEW entry \in Entries, ConsolidationSucceeds(t, entry) PROVE TurnsMove
    BY <1>3, <2>5, AdvanceMoves DEF Ending
  <2>6. ASSUME NEW entry \in Entries, NewSession(t, entry) PROVE TurnsMove
    BY <1>1, <2>6, EndingMoves DEF Ending
  <2> QED BY <1>6, <2>1, <2>2, <2>3, <2>4, <2>5, <2>6 DEF TurnStep
<1>7. ASSUME NEW t \in Turn, Apologise(t) \/ CronRearmed(t) PROVE TurnsMove
  BY <1>1, <1>7, EndingMoves DEF Ending
<1>8. ASSUME NEW t \in Turn,
             \/ MessageDefault(t) \/ CreateTask(t)
             \/ \E c \in Chat : MessageTo(t, c)
             \/ \E s \in Sub : Spawn(t, s)
      PROVE  TurnsMove
  BY <1>8, CallingMoves DEF TurnsMove
<1>9. ASSUME NEW t \in Turn, NEW s \in Sub, Announce(s, t) PROVE TurnsMove
  BY <1>9, ArrivingMoves DEF TurnsMove
<1>10. CASE LoopStep
  <2>1. ASSUME NEW t \in Turn, Dispatch(t) PROVE TurnsMove
    <3>1. turn[t].pc = "queued"
      BY <2>1, Heads DEF Dispatch, LoopInv
    <3>2. Starts(t)
      BY <2>1, <3>1 DEF Dispatch, Starts
    <3> QED BY <3>2 DEF TurnsMove
  <2>2. ASSUME NEW t \in Turn, HandleRestart(t) PROVE TurnsMove
    BY <1>1, <2>2, EndingMoves DEF Ending
  <2> QED BY <1>10, <2>1, <2>2, StopMoves DEF LoopStep
<1>11. CASE \/ \E s \in Sub : SubCancelled(s)
            \/ \E i \in DOMAIN robots : TaskEnds(i)
            \/ UNCHANGED vars
  BY <1>11 DEF SubCancelled, TaskEnds, TurnsMove, routing, vars, loopVars
<1>12. CASE Restart \/ Crash
  BY <1>12 DEF Restart, Crash, TurnsMove
<1> QED BY <1>4, <1>5, <1>6, <1>7, <1>8, <1>9, <1>10, <1>11, <1>12 DEF Next

-----------------------------------------------------------------------------
(* What one turn that moves leaves of the invariants of all.               *)
TurnsTyped ==
  /\ turn \in [Turn -> TurnRec] /\ queue \in Seq(Turn)
  /\ ctx \in [chat: Chat, key: Key] /\ sent \in BOOLEAN
TurnsInv == TurnsTyped /\ Rows /\ LockInv /\ DirectInv /\ RoutingInv

LEMMA MoverRows ==
  ASSUME LoopInv, NEW t \in Turn, NEW r, RowOK(r), turn' = [turn EXCEPT ![t] = r]
  PROVE  /\ turn' \in [Turn -> TurnRec] /\ Rows' /\ turn'[t] = r
         /\ \A u \in Turn : u # t => turn'[u] = turn[u]
<1>1. r \in TurnRec /\ turn \in [Turn -> TurnRec]
  BY DEF RowOK, LoopInv, TypeOK
<1>2. turn' \in [Turn -> TurnRec] /\ turn'[t] = r /\ \A u \in Turn : u # t => turn'[u] = turn[u]
  BY <1>1
<1>3. \A u \in Turn : RowOK(turn'[u])
  BY <1>2 DEF LoopInv, Rows
<1>4. Rows'
  BY <1>3, Zenon DEF Rows, RowOK
<1> QED BY <1>2, <1>4

LEMMA MoverDirect ==
  ASSUME LoopInv, NEW t \in Turn, NEW r, RowOK(r), turn' = [turn EXCEPT ![t] = r],
         IsDirect(r) => \/ IsDirect(turn[t]) /\ r.key = turn[t].key
                        \/ \A u \in Turn : turn[u].key = r.key => turn[u].pc = "done"
  PROVE  DirectInv'
<1>1. turn'[t] = r /\ \A u \in Turn : u # t => turn'[u] = turn[u]
  BY MoverRows
<1> SUFFICES ASSUME NEW u \in Turn, NEW v \in Turn, IsDirect(turn'[u]), IsDirect(turn'[v]),
                    turn'[u].key = turn'[v].key
             PROVE  u = v
  BY DEF DirectInv, IsDirect
<1>2. DirectInv
  BY DEF LoopInv
<1>3. CASE u # t /\ v # t
  BY <1>1, <1>2, <1>3 DEF DirectInv
<1>4. CASE u = t /\ v # t
  BY <1>1, <1>2, <1>4 DEF DirectInv, IsDirect
<1>5. CASE u # t /\ v = t
  BY <1>1, <1>2, <1>5 DEF DirectInv, IsDirect
<1> QED BY <1>3, <1>4, <1>5

LEMMA MoverLock ==
  ASSUME LoopInv, NEW t \in Turn, NEW r, RowOK(r), turn' = [turn EXCEPT ![t] = r],
         r.pc \in InFlight /\ r.kind # "direct" => queue' # <<>> /\ queue'[1] = t,
         \A u \in Turn : u # t /\ queue # <<>> /\ queue[1] = u => queue' # <<>> /\ queue'[1] = u
  PROVE  LockInv'
<1>1. turn'[t] = r /\ \A u \in Turn : u # t => turn'[u] = turn[u]
  BY MoverRows
<1> SUFFICES ASSUME NEW u \in Turn, turn'[u].pc \in InFlight, turn'[u].kind # "direct"
             PROVE  queue' # <<>> /\ queue'[1] = u
  BY DEF LockInv
<1>2. LockInv
  BY DEF LoopInv
<1>3. CASE u = t
  BY <1>1, <1>3
<1>4. CASE u # t
  BY <1>1, <1>2, <1>4 DEF LockInv
<1> QED BY <1>3, <1>4

LEMMA MoverRouting ==
  ASSUME LoopInv, NEW t \in Turn, NEW r, RowOK(r), turn' = [turn EXCEPT ![t] = r],
         UNCHANGED <<ctx, sent>>,
         Routes(r) => /\ Routes(turn[t]) /\ r.chat = turn[t].chat /\ r.kind = turn[t].kind
                      /\ r.overlap = turn[t].overlap /\ r.own = turn[t].own
  PROVE  RoutingInv'
<1>1. turn'[t] = r /\ \A u \in Turn : u # t => turn'[u] = turn[u]
  BY MoverRows
<1>2. RoutingInv
  BY DEF LoopInv
<1>3. ASSUME NEW u \in Turn, Routes(turn'[u])
      PROVE  /\ Routes(turn[u]) /\ turn'[u].chat = turn[u].chat /\ turn'[u].kind = turn[u].kind
             /\ turn'[u].overlap = turn[u].overlap /\ turn'[u].own = turn[u].own
  BY <1>1, <1>3
<1>4. ASSUME NEW u \in Turn, ~turn'[u].overlap, Routes(turn'[u])
      PROVE  ctx'.chat = turn'[u].chat /\ (turn'[u].kind # "system" /\ sent' => turn'[u].own)
  BY <1>2, <1>3, <1>4 DEF RoutingInv
<1>5. ASSUME NEW u \in Turn, NEW v \in Turn, u # v, Routes(turn'[u]), Routes(turn'[v])
      PROVE  turn'[u].overlap
  BY <1>2, <1>3, <1>5 DEF RoutingInv
<1> QED BY <1>4, <1>5 DEF RoutingInv, Routes

LEMMA LeaveKeepsHead ==
  ASSUME NEW t \in Turn, queue \in Seq(Turn), Leave(t)
  PROVE  /\ queue' \in Seq(Turn)
         /\ \A u \in Turn : u # t /\ queue # <<>> /\ queue[1] = u => queue' # <<>> /\ queue'[1] = u
<1>1. CASE t \notin Elems(queue)
  BY <1>1 DEF Leave
<1>2. CASE t \in Elems(queue)
  <2>1. PICK i \in DOMAIN queue :
          /\ queue[i] = t
          /\ queue' = SubSeq(queue, 1, i - 1) \o SubSeq(queue, i + 1, Len(queue))
    BY <1>2 DEF Leave
  <2>2. i \in Nat /\ 1 <= i /\ i <= Len(queue) /\ Len(queue) \in Nat
    BY <2>1
  <2>3. PICK a : a = SubSeq(queue, 1, i - 1)
    OBVIOUS
  <2>4. PICK b : b = SubSeq(queue, i + 1, Len(queue))
    OBVIOUS
  <2>5. /\ a \in Seq(Turn)
        /\ Len(a) = (IF 1 <= i - 1 THEN i - 1 - 1 + 1 ELSE 0)
        /\ \A j \in 1..(i - 1 - 1 + 1) : a[j] = queue[1 + j - 1]
    <3>1. \A j \in 1..(i - 1) : queue[j] \in Turn
      BY <2>2
    <3> QED BY <2>2, <2>3, <3>1, SubSeqProperties
  <2>6. b \in Seq(Turn)
    <3>1. \A j \in (i + 1)..Len(queue) : queue[j] \in Turn
      BY <2>2
    <3> QED BY <2>2, <2>4, <3>1, SubSeqProperties
  <2>7. queue' = a \o b
    BY <2>1, <2>3, <2>4
  <2>8. queue' \in Seq(Turn)
    BY <2>5, <2>6, <2>7
  <2>9. ASSUME NEW u \in Turn, u # t, queue # <<>>, queue[1] = u
        PROVE  queue' # <<>> /\ queue'[1] = u
    <3>1. i # 1
      BY <2>1, <2>9
    <3>2. Len(a) >= 1 /\ a[1] = queue[1]
      BY <2>2, <2>5, <3>1
    <3>3. Len(a \o b) >= 1 /\ (a \o b)[1] = a[1]
      BY <2>5, <2>6, <3>2
    <3> QED BY <2>7, <2>9, <3>2, <3>3
  <2> QED BY <2>8, <2>9
<1> QED BY <1>1, <1>2

(* A turn that goes on without the routing of the tools changing hands. *)
LEMMA MoverKeeps ==
  ASSUME LoopInv, NEW t \in Turn, NEW r, RowOK(r), turn' = [turn EXCEPT ![t] = r],
         UNCHANGED <<ctx, sent>>, queue' \in Seq(Turn),
         IsDirect(r) => \/ IsDirect(turn[t]) /\ r.key = turn[t].key
                        \/ \A u \in Turn : turn[u].key = r.key => turn[u].pc = "done",
         r.pc \in InFlight /\ r.kind # "direct" => queue' # <<>> /\ queue'[1] = t,
         \A u \in Turn : u # t /\ queue # <<>> /\ queue[1] = u => queue' # <<>> /\ queue'[1] = u,
         Routes(r) => /\ Routes(turn[t]) /\ r.chat = turn[t].chat /\ r.kind = turn[t].kind
                      /\ r.overlap = turn[t].overlap /\ r.own = turn[t].own
  PROVE  TurnsInv'
<1>1. turn' \in [Turn -> TurnRec] /\ Rows'
  BY MoverRows
<1>2. DirectInv'
  BY MoverDirect
<1>3. LockInv'
  BY MoverLock
<1>4. RoutingInv'
  BY MoverRouting
<1>5. TurnsTyped'
  BY <1>1 DEF TurnsTyped, LoopInv, TypeOK
<1> QED BY <1>1, <1>2, <1>3, <1>4, <1>5 DEF TurnsInv

LEMMA QuietKeeps ==
  ASSUME LoopInv, UNCHANGED <<turn, routing>>
  PROVE  TurnsInv'
<1>1. TurnsInv
  BY DEF LoopInv, TypeOK, TurnsInv, TurnsTyped
<1> QED BY <1>1 DEF TurnsInv, TurnsTyped, Rows, LockInv, DirectInv, RoutingInv, routing, IsDirect,
            Routes

LEMMA ArrivesKeeps ==
  ASSUME LoopInv, NEW t \in Turn, NEW r, Arrives(t, r)
  PROVE  TurnsInv'
<1>1. RowOK(r) /\ turn' = [turn EXCEPT ![t] = r] /\ UNCHANGED <<ctx, sent, queue>>
  BY DEF Arrives, routing
<1>2. ~IsDirect(r) /\ r.pc \notin InFlight /\ ~Routes(r)
  BY DEF Arrives, IsDirect, InFlight, Routes
<1>3. queue' \in Seq(Turn)
  BY <1>1 DEF LoopInv, TypeOK
<1> QED BY <1>1, <1>2, <1>3, MoverKeeps

LEMMA StartsKeeps ==
  ASSUME LoopInv, NEW t \in Turn, Starts(t)
  PROVE  TurnsInv'
<1>1. PICK r : r = [turn[t] EXCEPT !.pc = "waiting"]
  OBVIOUS
<1>2. turn' = [turn EXCEPT ![t] = r] /\ UNCHANGED <<ctx, sent>> /\ queue' = Append(queue, t)
  BY <1>1 DEF Starts
<1>3. RowOK(turn[t]) /\ turn[t].pc = "queued" /\ turn[t].cmd \in {"text", "new"}
  BY DEF LoopInv, Rows, Starts
<1>4. RowOK(r)
  BY <1>1, <1>3, RowDispatched
<1>5. r.pc = "waiting"
  BY <1>1, <1>3 DEF RowOK, TurnRec
<1>6. ~IsDirect(r) /\ r.pc \notin InFlight /\ ~Routes(r)
  BY <1>4, <1>5 DEF IsDirect, InFlight, Routes, RowOK, Waits
<1>7. queue \in Seq(Turn)
  BY DEF LoopInv, TypeOK
<1>8. queue' \in Seq(Turn)
  BY <1>2, <1>7
<1>9. \A u \in Turn : u # t /\ queue # <<>> /\ queue[1] = u => queue' # <<>> /\ queue'[1] = u
  BY <1>2, <1>7
<1> QED BY <1>2, <1>4, <1>6, <1>8, <1>9, MoverKeeps

LEMMA EndsRow ==
  ASSUME LoopInv, NEW t \in Turn, NEW out \in {"replied", "silent", "dropped"}, Ends(t, out)
  PROVE  /\ RowOK(Ended(t, out)) /\ Ended(t, out).pc = "done" /\ Ended(t, out).out = out
         /\ turn' = [turn EXCEPT ![t] = Ended(t, out)]
<1>1. RowOK(turn[t]) /\ turn[t].kind # "none" /\ turn' = [turn EXCEPT ![t] = Ended(t, out)]
  BY DEF LoopInv, Rows, Ends
<1>2. out = "silent" => turn[t].own \/ turn[t].overlap
  BY DEF Ends, LoopInv, RoutingInv
<1> QED BY <1>1, <1>2, EndedRow

LEMMA EndsKeeps ==
  ASSUME LoopInv, NEW t \in Turn, NEW out \in {"replied", "silent", "dropped"}, Ends(t, out)
  PROVE  TurnsInv'
<1>1. PICK r : r = Ended(t, out)
  OBVIOUS
<1>2. RowOK(r) /\ r.pc = "done" /\ turn' = [turn EXCEPT ![t] = r] /\ UNCHANGED <<ctx, sent>>
  BY <1>1, EndsRow DEF Ends
<1>3. ~IsDirect(r) /\ r.pc \notin InFlight /\ ~Routes(r)
  BY <1>2 DEF IsDirect, InFlight, Routes
<1>4. queue \in Seq(Turn)
  BY DEF LoopInv, TypeOK
<1>5. Leave(t) \/ queue' = queue
  BY DEF Ends
<1>6. /\ queue' \in Seq(Turn)
      /\ \A u \in Turn : u # t /\ queue # <<>> /\ queue[1] = u => queue' # <<>> /\ queue'[1] = u
  BY <1>4, <1>5, LeaveKeepsHead
<1> QED BY <1>2, <1>3, <1>6, MoverKeeps

(* Who goes on has the lock, or is a direct turn alone in its session. *)
LEMMA GoerHolds ==
  ASSUME LoopInv, NEW t \in Turn, NEW m, m \in TurnRec, GoesOnWith(t, m)
  PROVE  /\ m.kind # "direct" => queue # <<>> /\ queue[1] = t
         /\ m.kind = "direct" => \/ IsDirect(turn[t]) /\ m.key = turn[t].key
                                 \/ \A u \in Turn : turn[u].key = m.key => turn[u].pc = "done"
         /\ RowReady(m)
         /\ turn[t].pc # "none" => m = turn[t]
         /\ turn[t].pc \in {"waiting", "archiving", "first", "none"} => ~m.astray
<1>1. RowOK(turn[t]) /\ LockInv
  BY DEF LoopInv, Rows
<1>2. CASE /\ m = turn[t] /\ ~turn[t].cancel
           /\ \/ turn[t].pc = "waiting" /\ queue # <<>> /\ queue[1] = t
              \/ turn[t].pc \in InFlight
  <2>1. RowReady(m)
    BY <1>2, RunningReady
  <2>2. m.kind # "direct" => queue # <<>> /\ queue[1] = t
    BY <1>1, <1>2 DEF LockInv
  <2>3. m.kind = "direct" => IsDirect(turn[t]) /\ m.key = turn[t].key
    BY <1>2 DEF IsDirect, InFlight
  <2>4. turn[t].pc \in {"waiting", "archiving", "first", "none"} => ~m.astray
    BY <1>1, <1>2 DEF RowOK
  <2> QED BY <1>2, <2>1, <2>2, <2>3, <2>4
<1>3. ASSUME turn[t].kind = "none", NEW k \in Direct, NEW c \in Chat, m = NewDirectRow(k, c),
             \A u \in Turn : turn[u].key = k => turn[u].pc = "done"
      PROVE  /\ m.kind = "direct" /\ m.key = k /\ RowReady(m) /\ turn[t].pc = "none" /\ ~m.astray
  <2>1. turn[t].pc = "none"
    BY <1>1, <1>3 DEF RowOK
  <2> DEFINE r == [NoTurn EXCEPT !.kind = "direct", !.key = k, !.chat = c]
  <2>2. /\ r \in TurnRec /\ r.kind = "direct" /\ r.key = k /\ r.cmd = "text" /\ r.out = "none"
        /\ ~r.cancel /\ ~r.astray
    BY NoTurnOK DEF TurnRec, Direct
  <2>3. m = r
    BY <1>3 DEF NewDirectRow
  <2> HIDE DEF r
  <2>4. RowReady(m)
    BY <2>2, <2>3 DEF RowReady
  <2> QED BY <2>1, <2>2, <2>3, <2>4
<1> QED BY <1>2, <1>3 DEF GoesOnWith

LEMMA PlotsRow ==
  ASSUME LoopInv, NEW t \in Turn, NEW m \in TurnRec, NEW pc \in {"archiving", "first", "last"},
         NEW p \in Plan, Plots(t, m, pc, p)
  PROVE  \E r \in TurnRec :
           /\ RowOK(r) /\ turn' = [turn EXCEPT ![t] = r]
           /\ r.pc = pc /\ r.plan = p /\ r.kind = m.kind /\ r.key = m.key /\ r.chat = m.chat
           /\ r.cancel = m.cancel /\ r.own = m.own /\ r.overlap = m.overlap
<1>1. GoesOnWith(t, m)
  BY DEF Plots
<1>2. RowReady(m) /\ (turn[t].pc # "none" => m = turn[t])
      /\ (turn[t].pc \in {"waiting", "archiving", "first", "none"} => ~m.astray)
  BY <1>1, GoerHolds
<1>3. pc # "archiving" => m.cmd = "text"
  <2>1. CASE pc = "first"
    BY <2>1 DEF Plots
  <2>2. CASE pc = "last"
    <3>1. turn[t].pc \in {"thinking", "last"}
      BY <2>2 DEF Plots
    <3> QED BY <1>2, <3>1 DEF LoopInv, Rows, RowOK
  <2> QED BY <2>1, <2>2
<1>4. pc # "last" => ~m.astray
  BY <1>2 DEF Plots
<1>0. PICK s : s = PlotRow(m, pc, p)
  OBVIOUS
<1>5. /\ RowOK(s) /\ s.pc = pc /\ s.plan = p /\ s.kind = m.kind /\ s.key = m.key
      /\ s.chat = m.chat /\ s.cancel = m.cancel /\ s.own = m.own /\ s.overlap = m.overlap
  BY <1>0, <1>2, <1>3, <1>4, RowPlots
<1>6. turn' = [turn EXCEPT ![t] = s]
  BY <1>0, Zenon DEF Plots, PlotRow
<1>7. s \in TurnRec
  BY <1>5 DEF RowOK
<1> QED BY <1>5, <1>6, <1>7

LEMMA PlotsKeeps ==
  ASSUME LoopInv, NEW t \in Turn, NEW m \in TurnRec, NEW pc \in {"archiving", "first", "last"},
         NEW p \in Plan, Plots(t, m, pc, p)
  PROVE  TurnsInv'
<1>1. PICK r \in TurnRec :
           /\ RowOK(r) /\ turn' = [turn EXCEPT ![t] = r]
           /\ r.pc = pc /\ r.plan = p /\ r.kind = m.kind /\ r.key = m.key /\ r.chat = m.chat
           /\ r.cancel = m.cancel /\ r.own = m.own /\ r.overlap = m.overlap
  BY PlotsRow
<1>2. GoesOnWith(t, m) /\ UNCHANGED <<queue, ctx, sent>>
  BY DEF Plots, routing
<1>3. /\ m.kind # "direct" => queue # <<>> /\ queue[1] = t
      /\ m.kind = "direct" => \/ IsDirect(turn[t]) /\ m.key = turn[t].key
                              \/ \A u \in Turn : turn[u].key = m.key => turn[u].pc = "done"
      /\ turn[t].pc # "none" => m = turn[t]
  BY <1>2, GoerHolds
<1>4. queue' \in Seq(Turn)
  BY <1>2 DEF LoopInv, TypeOK
<1>5. IsDirect(r) => \/ IsDirect(turn[t]) /\ r.key = turn[t].key
                     \/ \A u \in Turn : turn[u].key = r.key => turn[u].pc = "done"
  BY <1>1, <1>3 DEF IsDirect
<1>6. r.pc \in InFlight /\ r.kind # "direct" => queue' # <<>> /\ queue'[1] = t
  BY <1>1, <1>2, <1>3
<1>7. \A u \in Turn : u # t /\ queue # <<>> /\ queue[1] = u => queue' # <<>> /\ queue'[1] = u
  BY <1>2
<1>8. Routes(r) => /\ Routes(turn[t]) /\ r.chat = turn[t].chat /\ r.kind = turn[t].kind
                   /\ r.overlap = turn[t].overlap /\ r.own = turn[t].own
  <2>1. Routes(r) => turn[t].pc \in {"thinking", "last"}
    BY <1>1 DEF Routes, Plots
  <2> QED BY <1>1, <1>3, <2>1 DEF Routes
<1> QED BY <1>1, <1>2, <1>4, <1>5, <1>6, <1>7, <1>8, MoverKeeps

LEMMA EntersRows ==
  ASSUME LoopInv, NEW t \in Turn, NEW m \in TurnRec, Enters(t, m)
  PROVE  \E r \in TurnRec, others \in SUBSET (Turn \ {t}) :
           /\ others = {u \in Turn \ {t} : /\ turn[u].pc \in {"thinking", "last"}
                                            /\ "direct" \in {m.kind, turn[u].kind}}
           /\ RowOK(r) /\ r.pc = "thinking" /\ r.kind = m.kind /\ r.key = m.key
           /\ r.chat = m.chat /\ r.cancel = m.cancel /\ (r.overlap <=> others # {})
           /\ turn' = [u \in Turn |-> IF u = t THEN r
                                      ELSE IF u \in others THEN [turn[u] EXCEPT !.overlap = TRUE]
                                      ELSE turn[u]]
           /\ ctx' = [chat |-> m.chat, key |-> m.key]
           /\ sent' = (IF m.kind = "system" THEN sent ELSE FALSE)
<1>1. RowReady(m) /\ m.cmd = "text" /\ ~m.astray
  BY GoerHolds DEF Enters
<1>2. PICK others \in SUBSET (Turn \ {t}) :
        others = {u \in Turn \ {t} : /\ turn[u].pc \in {"thinking", "last"}
                                     /\ "direct" \in {m.kind, turn[u].kind}}
  BY Zenon
<1>3. PICK b : b = (others # {})
  OBVIOUS
<1>4. b \in BOOLEAN
  BY <1>3, Zenon
<1>5. PICK r : r = EnterRow(m, b)
  OBVIOUS
<1>6. /\ RowOK(r) /\ r.pc = "thinking" /\ r.kind = m.kind /\ r.key = m.key
      /\ r.chat = m.chat /\ r.overlap = b /\ r.cancel = m.cancel
  BY <1>1, <1>4, <1>5, RowEnters
<1>7. /\ turn' = [u \in Turn |-> IF u = t THEN r
                                 ELSE IF u \in others THEN [turn[u] EXCEPT !.overlap = TRUE]
                                 ELSE turn[u]]
      /\ ctx' = [chat |-> m.chat, key |-> m.key]
      /\ sent' = (IF m.kind = "system" THEN sent ELSE FALSE)
  BY <1>2, <1>3, <1>5, Zenon DEF Enters, EnterThinking, EnterRow
<1>8. r \in TurnRec /\ (r.overlap <=> others # {})
  BY <1>3, <1>6 DEF RowOK
<1> QED BY <1>2, <1>6, <1>7, <1>8

LEMMA EntersKeeps ==
  ASSUME LoopInv, NEW t \in Turn, NEW m \in TurnRec, Enters(t, m)
  PROVE  TurnsInv'
<1>1. PICK r \in TurnRec, others \in SUBSET (Turn \ {t}) :
           /\ others = {u \in Turn \ {t} : /\ turn[u].pc \in {"thinking", "last"}
                                            /\ "direct" \in {m.kind, turn[u].kind}}
           /\ RowOK(r) /\ r.pc = "thinking" /\ r.kind = m.kind /\ r.key = m.key
           /\ r.chat = m.chat /\ r.cancel = m.cancel /\ (r.overlap <=> others # {})
           /\ turn' = [u \in Turn |-> IF u = t THEN r
                                      ELSE IF u \in others THEN [turn[u] EXCEPT !.overlap = TRUE]
                                      ELSE turn[u]]
           /\ ctx' = [chat |-> m.chat, key |-> m.key]
           /\ sent' = (IF m.kind = "system" THEN sent ELSE FALSE)
  BY EntersRows
<1>2. LockInv /\ DirectInv /\ RoutingInv /\ Rows
  BY DEF LoopInv
<1>3. /\ m.kind # "direct" => queue # <<>> /\ queue[1] = t
      /\ m.kind = "direct" => \/ IsDirect(turn[t]) /\ m.key = turn[t].key
                              \/ \A u \in Turn : turn[u].key = m.key => turn[u].pc = "done"
      /\ RowReady(m)
  BY GoerHolds DEF Enters
<1>4. queue' = queue
  BY DEF Enters
<1>5. turn'[t] = r
  BY <1>1
<1>6. ASSUME NEW u \in Turn, u # t
      PROVE  /\ RowOK(turn'[u]) /\ turn'[u].pc = turn[u].pc /\ turn'[u].kind = turn[u].kind
             /\ turn'[u].key = turn[u].key /\ (u \in others => turn'[u].overlap)
             /\ u \notin others => turn'[u] = turn[u]
  <2>1. RowOK(turn[u])
    BY <1>2 DEF Rows
  <2>2. CASE u \in others
    <3>1. turn'[u] = [turn[u] EXCEPT !.overlap = TRUE]
      BY <1>1, <1>6, <2>2
    <3> QED BY <2>1, <2>2, <3>1, RowOverlaps
  <2>3. CASE u \notin others
    <3>1. turn'[u] = turn[u]
      BY <1>1, <1>6, <2>3
    <3> QED BY <2>1, <2>3, <3>1
  <2> QED BY <2>2, <2>3
<1>7. Rows'
  <2>1. \A u \in Turn : RowOK(turn'[u])
    BY <1>1, <1>5, <1>6
  <2> QED BY <2>1, Zenon DEF Rows, RowOK
<1>8. turn' \in [Turn -> TurnRec]
  <2>1. PICK f : f = turn'
    OBVIOUS
  <2>2. \A u \in Turn : f[u] \in TurnRec
    BY <1>7, <2>1 DEF Rows, RowOK
  <2>3. f = [u \in Turn |-> f[u]]
    BY <1>1, <2>1, Zenon
  <2> QED BY <2>1, <2>2, <2>3, Zenon
<1>9. ctx' \in [chat: Chat, key: Key] /\ sent' \in BOOLEAN
  <2>1. m.chat \in Chat /\ m.key \in Key /\ sent \in BOOLEAN
    BY <1>3 DEF RowReady, TurnRec, LoopInv, TypeOK
  <2> QED BY <1>1, <2>1
<1>10. LockInv'
  <2> SUFFICES ASSUME NEW u \in Turn, turn'[u].pc \in InFlight, turn'[u].kind # "direct"
               PROVE  queue' # <<>> /\ queue'[1] = u
    BY DEF LockInv
  <2>1. CASE u = t
    BY <1>1, <1>3, <1>4, <1>5, <2>1
  <2>2. CASE u # t
    BY <1>2, <1>4, <1>6, <2>2 DEF LockInv
  <2> QED BY <2>1, <2>2
<1>11. DirectInv'
  <2> SUFFICES ASSUME NEW u \in Turn, NEW v \in Turn, IsDirect(turn'[u]), IsDirect(turn'[v]),
                      turn'[u].key = turn'[v].key
               PROVE  u = v
    BY DEF DirectInv, IsDirect
  <2>1. CASE u # t /\ v # t
    BY <1>2, <1>6, <2>1 DEF DirectInv, IsDirect
  <2>2. CASE u = t /\ v # t
    BY <1>1, <1>2, <1>3, <1>5, <1>6, <2>2 DEF DirectInv, IsDirect
  <2>3. CASE u # t /\ v = t
    BY <1>1, <1>2, <1>3, <1>5, <1>6, <2>3 DEF DirectInv, IsDirect
  <2> QED BY <2>1, <2>2, <2>3
<1>12. ASSUME NEW u \in Turn, u # t, Routes(turn[u]) PROVE u \in others
  <2>1. CASE m.kind = "direct" \/ turn[u].kind = "direct"
    BY <1>1, <1>12, <2>1 DEF Routes
  <2>2. CASE m.kind # "direct" /\ turn[u].kind # "direct"
    BY <1>2, <1>3, <1>12, <2>2 DEF LockInv, Routes, InFlight
  <2> QED BY <2>1, <2>2
<1>13. \A u \in Turn : u # t /\ Routes(turn'[u]) => u \in others /\ turn'[u].overlap
  BY <1>6, <1>12 DEF Routes
<1>14. RoutingInv'
  <2>1. ASSUME NEW u \in Turn, ~turn'[u].overlap, Routes(turn'[u])
        PROVE  ctx'.chat = turn'[u].chat /\ (turn'[u].kind # "system" /\ sent' => turn'[u].own)
    <3>1. u = t
      BY <1>13, <2>1
    <3> QED BY <1>1, <1>5, <3>1
  <2>2. ASSUME NEW u \in Turn, NEW v \in Turn, u # v, Routes(turn'[u]), Routes(turn'[v])
        PROVE  turn'[u].overlap
    <3>1. CASE u # t
      BY <1>13, <2>2, <3>1
    <3>2. CASE u = t
      BY <1>1, <1>5, <1>13, <2>2, <3>2
    <3> QED BY <3>1, <3>2
  <2> QED BY <2>1, <2>2 DEF RoutingInv, Routes
<1> QED BY <1>4, <1>7, <1>8, <1>9, <1>10, <1>11, <1>14 DEF TurnsInv, TurnsTyped, LoopInv, TypeOK

LEMMA CallsRow ==
  ASSUME LoopInv, NEW t \in Turn, Calls(t)
  PROVE  \E r \in TurnRec :
           /\ RowOK(r) /\ turn' = [turn EXCEPT ![t] = r] /\ CallKeeps(turn[t], r)
           /\ \/ r.own = turn[t].own /\ sent' = sent
              \/ r.own = (turn[t].own \/ ctx.chat = turn[t].chat) /\ sent' = TRUE
              \/ \E c \in Chat : /\ r.own = (turn[t].own \/ c = turn[t].chat)
                                 /\ sent' = (sent \/ c = ctx.chat)
<1>1. RowOK(turn[t]) /\ turn[t].pc = "thinking" /\ turn[t].calls < MaxCalls
  BY DEF LoopInv, Rows, Calls, ToolCall, Running
<1>2. PICK a : a = (turn[t].astray \/ ctx.chat # turn[t].chat)
  OBVIOUS
<1>3. a \in BOOLEAN
  BY <1>2, Zenon
<1>4. a => turn[t].astray \/ turn[t].overlap
  BY <1>1, <1>2 DEF LoopInv, RoutingInv, Routes
<1>5. Called(t) = CalledRow(turn[t], a)
  BY <1>2, Zenon DEF Called, CalledRow
<1>6. CASE turn' = [turn EXCEPT ![t] = Called(t)] /\ sent' = sent
  <2>1. PICK r : r = CalledRow(turn[t], a)
    OBVIOUS
  <2>2. RowOK(r) /\ CallKeeps(turn[t], r) /\ r.own = turn[t].own
    BY <1>1, <1>3, <1>4, <2>1, RowCalls
  <2>3. r \in TurnRec
    BY <2>2 DEF RowOK
  <2> QED BY <1>5, <1>6, <2>1, <2>2, <2>3
<1>7. CASE /\ turn' = [turn EXCEPT ![t] = [Called(t) EXCEPT !.own = @ \/ ctx.chat = turn[t].chat]]
           /\ sent' = TRUE
  <2>1. PICK o : o = (Called(t).own \/ ctx.chat = turn[t].chat)
    OBVIOUS
  <2>2. o \in BOOLEAN
    BY <2>1, Zenon
  <2>3. PICK r : r = SpokenRow(turn[t], a, o)
    OBVIOUS
  <2>4. RowOK(r) /\ CallKeeps(turn[t], r) /\ r.own = o
    BY <1>1, <1>3, <1>4, <2>2, <2>3, RowCalls
  <2>5. Called(t).own = turn[t].own
    BY <1>1, <1>3, <1>4, <1>5, RowCalls
  <2>6. r \in TurnRec
    BY <2>4 DEF RowOK
  <2>7. r = [Called(t) EXCEPT !.own = @ \/ ctx.chat = turn[t].chat]
    BY <1>5, <2>1, <2>3, Zenon DEF SpokenRow
  <2>8. turn' = [turn EXCEPT ![t] = r]
    BY <1>7, <2>7, Zenon
  <2>9. r.own = (turn[t].own \/ ctx.chat = turn[t].chat)
    BY <2>1, <2>4, <2>5, Zenon
  <2> QED BY <1>7, <2>4, <2>6, <2>8, <2>9
<1>8. ASSUME NEW c \in Chat, sent' = (sent \/ c = ctx.chat),
             turn' = [turn EXCEPT ![t].calls = @ + 1, ![t].own = @ \/ c = turn[t].chat]
      PROVE  \E r \in TurnRec :
               /\ RowOK(r) /\ turn' = [turn EXCEPT ![t] = r] /\ CallKeeps(turn[t], r)
               /\ r.own = (turn[t].own \/ c = turn[t].chat)
  <2>1. PICK o : o = (turn[t].own \/ c = turn[t].chat)
    OBVIOUS
  <2>2. o \in BOOLEAN
    BY <2>1, Zenon
  <2>3. PICK r : r = NamedRow(turn[t], o)
    OBVIOUS
  <2>4. RowOK(r) /\ CallKeeps(turn[t], r) /\ r.own = o
    BY <1>1, <1>3, <1>4, <2>2, <2>3, RowCalls
  <2>5. r \in TurnRec
    BY <2>4 DEF RowOK
  <2>6. turn' = [turn EXCEPT ![t] = [turn[t] EXCEPT !.calls = @ + 1,
                                                    !.own = @ \/ c = turn[t].chat]]
    BY <1>8, Zenon DEF LoopInv, TypeOK
  <2>7. turn' = [turn EXCEPT ![t] = r]
    BY <2>1, <2>3, <2>6, Zenon DEF NamedRow
  <2> QED BY <2>1, <2>4, <2>5, <2>7
<1> QED BY <1>6, <1>7, <1>8, Zenon DEF Calls

LEMMA CallsKeeps ==
  ASSUME LoopInv, NEW t \in Turn, Calls(t)
  PROVE  TurnsInv'
<1>1. PICK r \in TurnRec :
           /\ RowOK(r) /\ turn' = [turn EXCEPT ![t] = r] /\ CallKeeps(turn[t], r)
           /\ \/ r.own = turn[t].own /\ sent' = sent
              \/ r.own = (turn[t].own \/ ctx.chat = turn[t].chat) /\ sent' = TRUE
              \/ \E c \in Chat : /\ r.own = (turn[t].own \/ c = turn[t].chat)
                                 /\ sent' = (sent \/ c = ctx.chat)
  BY CallsRow
<1>2. turn[t].pc = "thinking" /\ queue' = queue /\ ctx' = ctx /\ RoutingInv /\ LockInv
  BY DEF Calls, ToolCall, Running, LoopInv
<1>3. /\ turn' \in [Turn -> TurnRec] /\ Rows' /\ turn'[t] = r
      /\ \A u \in Turn : u # t => turn'[u] = turn[u]
  BY <1>1, MoverRows
<1>4. DirectInv'
  BY <1>1, MoverDirect DEF CallKeeps, IsDirect
<1>5. LockInv'
  <2>1. r.pc \in InFlight /\ r.kind # "direct" => queue' # <<>> /\ queue'[1] = t
    BY <1>1, <1>2 DEF CallKeeps, LockInv
  <2>2. \A u \in Turn : u # t /\ queue # <<>> /\ queue[1] = u => queue' # <<>> /\ queue'[1] = u
    BY <1>2
  <2> QED BY <1>1, <2>1, <2>2, MoverLock
<1>6. sent' \in BOOLEAN
  <2>1. sent \in BOOLEAN /\ TRUE \in BOOLEAN
    BY DEF LoopInv, TypeOK
  <2>2. ASSUME NEW c \in Chat, sent' = (sent \/ c = ctx.chat) PROVE sent' \in BOOLEAN
    BY <2>2, Zenon
  <2> QED BY <1>1, <2>1, <2>2, Zenon
<1>7. Routes(turn[t])
  BY <1>2 DEF Routes
<1>8. ASSUME NEW u \in Turn, ~turn'[u].overlap, Routes(turn'[u])
      PROVE  ctx'.chat = turn'[u].chat /\ (turn'[u].kind # "system" /\ sent' => turn'[u].own)
  <2>1. CASE u # t
    <3>1. turn'[u] = turn[u]
      BY <1>3, <2>1
    <3>2. turn[u].overlap
      BY <1>2, <1>7, <1>8, <2>1, <3>1 DEF RoutingInv
    <3> QED BY <1>8, <3>1, <3>2
  <2>2. CASE u = t
    <3>1. ~turn[t].overlap
      BY <1>1, <1>3, <1>8, <2>2 DEF CallKeeps
    <3>2. ctx.chat = turn[t].chat /\ (turn[t].kind # "system" /\ sent => turn[t].own)
      BY <1>2, <1>7, <3>1 DEF RoutingInv
    <3>3. ctx'.chat = r.chat
      BY <1>1, <1>2, <3>2 DEF CallKeeps
    <3>4. ASSUME r.kind # "system", sent' PROVE r.own
      <4>1. turn[t].kind # "system"
        BY <1>1, <3>4 DEF CallKeeps
      <4>2. CASE r.own = turn[t].own /\ sent' = sent
        BY <3>2, <3>4, <4>1, <4>2
      <4>3. CASE r.own = (turn[t].own \/ ctx.chat = turn[t].chat) /\ sent' = TRUE
        BY <3>2, <4>3
      <4>4. ASSUME NEW c \in Chat, r.own = (turn[t].own \/ c = turn[t].chat),
                   sent' = (sent \/ c = ctx.chat)
            PROVE  r.own
        BY <3>2, <3>4, <4>1, <4>4
      <4> QED BY <1>1, <4>2, <4>3, <4>4
    <3> QED BY <1>3, <2>2, <3>3, <3>4
  <2> QED BY <2>1, <2>2
<1>9. ASSUME NEW u \in Turn, NEW v \in Turn, u # v, Routes(turn'[u]), Routes(turn'[v])
      PROVE  turn'[u].overlap
  <2>1. ASSUME NEW w \in Turn, Routes(turn'[w])
        PROVE  Routes(turn[w]) /\ turn'[w].overlap = turn[w].overlap
    BY <1>1, <1>3, <1>7, <2>1 DEF CallKeeps
  <2> QED BY <1>2, <1>9, <2>1 DEF RoutingInv
<1>10. RoutingInv'
  BY <1>8, <1>9 DEF RoutingInv, Routes
<1>11. TurnsTyped'
  BY <1>2, <1>3, <1>6 DEF TurnsTyped, LoopInv, TypeOK
<1> QED BY <1>3, <1>4, <1>5, <1>10, <1>11 DEF TurnsInv

LEMMA MarkedRow ==
  ASSUME LoopInv, NEW k \in Key, Marks(k), NEW u \in Turn
  PROVE  /\ RowOK(turn'[u]) /\ turn'[u].pc = turn[u].pc /\ turn'[u].kind = turn[u].kind
         /\ turn'[u].key = turn[u].key /\ turn'[u].chat = turn[u].chat
         /\ turn'[u].overlap = turn[u].overlap /\ turn'[u].own = turn[u].own
         /\ turn'[u].plan = turn[u].plan /\ turn'[u].cmd = turn[u].cmd
         /\ u \in Active(k) => turn'[u].cancel
<1>1. RowOK(turn[u]) /\ turn[u] \in TurnRec
  BY DEF LoopInv, Rows, RowOK
<1>2. CASE u \in Active(k)
  <2>1. turn[u].kind = "chat" /\ turn[u].pc \in {"waiting"} \cup InFlight
    BY <1>2 DEF Active
  <2>2. PICK r : r = [turn[u] EXCEPT !.cancel = TRUE]
    OBVIOUS
  <2>3. RowOK(r)
    BY <1>1, <2>1, <2>2, RowCancelled
  <2>4. /\ r.pc = turn[u].pc /\ r.kind = turn[u].kind /\ r.key = turn[u].key
        /\ r.chat = turn[u].chat /\ r.overlap = turn[u].overlap /\ r.own = turn[u].own
        /\ r.plan = turn[u].plan /\ r.cmd = turn[u].cmd /\ r.cancel
    BY <1>1, <2>2 DEF TurnRec
  <2>5. turn'[u] = r
    BY <1>2, <2>2, Zenon DEF Marks
  <2> QED BY <2>3, <2>4, <2>5
<1>3. CASE u \notin Active(k)
  <2>1. turn'[u] = turn[u]
    BY <1>3 DEF Marks
  <2> QED BY <1>1, <1>3, <2>1
<1> QED BY <1>2, <1>3

LEMMA MarksKeeps ==
  ASSUME LoopInv, NEW k \in Key, Marks(k)
  PROVE  TurnsInv'
<1>1. LockInv /\ DirectInv /\ RoutingInv /\ UNCHANGED <<queue, ctx, sent>>
  BY DEF LoopInv, Marks, routing
<1>2. \A u \in Turn :
         /\ RowOK(turn'[u]) /\ turn'[u].pc = turn[u].pc /\ turn'[u].kind = turn[u].kind
         /\ turn'[u].key = turn[u].key /\ turn'[u].chat = turn[u].chat
         /\ turn'[u].overlap = turn[u].overlap /\ turn'[u].own = turn[u].own
  BY MarkedRow
<1>3. Rows'
  BY <1>2, Zenon DEF Rows, RowOK
<1>4. turn' \in [Turn -> TurnRec]
  <2>1. PICK f : f = turn'
    OBVIOUS
  <2>2. \A u \in Turn : f[u] \in TurnRec
    BY <1>2, <2>1 DEF RowOK
  <2>3. f = [u \in Turn |-> f[u]]
    BY <2>1, Zenon DEF Marks
  <2> QED BY <2>1, <2>2, <2>3, Zenon
<1>5. LockInv'
  BY <1>1, <1>2 DEF LockInv
<1>6. DirectInv'
  BY <1>1, <1>2 DEF DirectInv, IsDirect
<1>7. RoutingInv'
  BY <1>1, <1>2 DEF RoutingInv, Routes
<1>8. TurnsTyped'
  BY <1>1, <1>4 DEF TurnsTyped, LoopInv, TypeOK
<1> QED BY <1>3, <1>5, <1>6, <1>7, <1>8 DEF TurnsInv

LEMMA LostRow ==
  ASSUME LoopInv, VolatileLost, NEW u \in Turn
  PROVE  /\ RowOK(turn'[u]) /\ turn'[u].pc \in {"none", "done"}
         /\ turn[u].pc # "done" => turn'[u].out # "replied"
<1>1. RowOK(turn[u])
  BY DEF LoopInv, Rows
<1>2. CASE turn[u].kind # "none" /\ turn[u].pc # "done"
  <2>1. turn'[u] = Ended(u, "dropped")
    BY <1>2 DEF VolatileLost
  <2> QED BY <1>1, <1>2, <2>1, EndedRow
<1>3. CASE ~(turn[u].kind # "none" /\ turn[u].pc # "done")
  <2>1. turn'[u] = turn[u]
    BY <1>3 DEF VolatileLost
  <2>2. turn[u].pc \in {"none", "done"}
    BY <1>1, <1>3 DEF RowOK
  <2> QED BY <1>1, <2>1, <2>2 DEF RowOK
<1> QED BY <1>2, <1>3

LEMMA LostKeeps ==
  ASSUME LoopInv, VolatileLost
  PROVE  TurnsInv'
<1>1. \A u \in Turn : RowOK(turn'[u]) /\ turn'[u].pc \in {"none", "done"}
  BY LostRow
<1>2. Rows'
  BY <1>1, Zenon DEF Rows, RowOK
<1>3. turn' \in [Turn -> TurnRec]
  <2>1. PICK f : f = turn'
    OBVIOUS
  <2>2. \A u \in Turn : f[u] \in TurnRec
    BY <1>1, <2>1 DEF RowOK
  <2>3. f = [u \in Turn |-> f[u]]
    BY <2>1, Zenon DEF VolatileLost
  <2> QED BY <2>1, <2>2, <2>3, Zenon
<1>4. \A u \in Turn : ~IsDirect(turn'[u]) /\ turn'[u].pc \notin InFlight /\ ~Routes(turn'[u])
  <2>1. ASSUME NEW u \in Turn
        PROVE  ~IsDirect(turn'[u]) /\ turn'[u].pc \notin InFlight /\ ~Routes(turn'[u])
    BY <1>1 DEF IsDirect, InFlight, Routes, RowOK
  <2> QED BY <2>1
<1>5. LockInv' /\ DirectInv' /\ RoutingInv'
  BY <1>4 DEF LockInv, DirectInv, RoutingInv, IsDirect, Routes
<1>6. TurnsTyped'
  <2>1. queue' \in Seq(Turn)
    BY DEF VolatileLost
  <2>2. ctx' \in [chat: Chat, key: Key] /\ sent' \in BOOLEAN
    BY Places DEF VolatileLost
  <2> QED BY <1>3, <2>1, <2>2 DEF TurnsTyped
<1> QED BY <1>2, <1>5, <1>6 DEF TurnsInv

LEMMA TurnsKeep ==
  ASSUME LoopInv, TurnsMove
  PROVE  TurnsInv'
<1>1. CASE UNCHANGED <<turn, routing>>
  BY <1>1, QuietKeeps
<1>2. CASE \E t \in Turn, r \in TurnRec : Arrives(t, r)
  BY <1>2, ArrivesKeeps
<1>3. CASE \E t \in Turn : Starts(t)
  BY <1>3, StartsKeeps
<1>4. CASE \E t \in Turn, out \in {"replied", "silent", "dropped"} : Ends(t, out)
  BY <1>4, EndsKeeps
<1>5. CASE \E t \in Turn, m \in TurnRec, pc \in {"archiving", "first", "last"}, p \in Plan :
             Plots(t, m, pc, p)
  BY <1>5, PlotsKeeps
<1>6. CASE \E t \in Turn, m \in TurnRec : Enters(t, m)
  BY <1>6, EntersKeeps
<1>7. CASE \E t \in Turn : Calls(t)
  BY <1>7, CallsKeeps
<1>8. CASE \E k \in Key : Marks(k)
  BY <1>8, MarksKeeps
<1>9. CASE VolatileLost
  BY <1>9, LostKeeps
<1> QED BY <1>1, <1>2, <1>3, <1>4, <1>5, <1>6, <1>7, <1>8, <1>9 DEF TurnsMove

-----------------------------------------------------------------------------
(* What a step does to the sessions.                                       *)
Owns(t) ==
  \/ turn[t].pc \in InFlight
  \/ turn[t].pc = "waiting" /\ queue # <<>> /\ queue[1] = t
Fit(t) ==
  /\ turn[t].pc \in {"first", "last"} => turn[t].plan.end <= Len(disk[turn[t].key].turns)
  /\ turn[t].pc = "archiving" => turn[t].plan.end = Len(disk[turn[t].key].turns)
PlanKept(t) ==
  turn'[t].pc \in {"archiving", "first", "last"} =>
    turn'[t].pc = turn[t].pc /\ turn'[t].plan = turn[t].plan /\ turn'[t].key = turn[t].key

SessionsMove ==
  \/ UNCHANGED sessionVars
  \/ \E k \in Key : Open(k)
  \/ \E t \in Turn : Owns(t) /\ SaveTurn(turn[t].key, t) /\ Fit(t)'
  \/ \E t \in Turn, entry \in Entries :
       /\ turn[t].pc \in {"first", "last"} /\ Fit(t)'
       /\ AdvanceConsolidated(turn[t].key, turn[t].plan, entry)
  \/ \E t \in Turn, entry \in Entries :
       /\ Owns(t) /\ Fit(t)'
       /\ turn[t].pc = "archiving" \/ Unconsolidated(GetOrCreate(turn[t].key)) = <<>>
       /\ ClearSession(turn[t].key, turn[t].plan, entry)
  \/ ForgetCache
  \/ \E t \in Turn, entry \in Entries :
       /\ turn[t].pc \in {"archiving", "first", "last"}
       /\ CrashAfterArchive(turn[t].key, turn[t].plan, entry)

LEMMA SoleOwner ==
  ASSUME LoopInv, NEW t \in Turn, NEW u \in Turn, Owns(t), Owns(u), turn[t].key = turn[u].key
  PROVE  t = u
<1>1. RowOK(turn[t]) /\ RowOK(turn[u]) /\ LockInv /\ DirectInv
  BY DEF LoopInv, Rows
<1>2. turn[t].pc \notin {"none", "done", "queued"} /\ turn[u].pc \notin {"none", "done", "queued"}
  BY DEF Owns, InFlight
<1>3. CASE turn[t].kind # "direct" /\ turn[u].kind # "direct"
  BY <1>1, <1>3 DEF Owns, LockInv
<1>4. CASE turn[t].kind = "direct" /\ turn[u].kind = "direct"
  BY <1>1, <1>2, <1>4 DEF DirectInv, IsDirect
<1>5. turn[t].kind \in {"chat", "system", "direct"} /\ turn[u].kind \in {"chat", "system", "direct"}
  BY <1>1, <1>2 DEF RowOK, TurnRec
<1>6. (turn[t].kind = "direct") <=> (turn[u].kind = "direct")
  <2>1. (turn[t].key \in UserKey) <=> (turn[t].kind # "direct")
    BY <1>1, <1>2, <1>5 DEF RowOK, Direct
  <2>2. (turn[u].key \in UserKey) <=> (turn[u].kind # "direct")
    BY <1>1, <1>2, <1>5 DEF RowOK, Direct
  <2> QED BY <2>1, <2>2
<1> QED BY <1>3, <1>4, <1>6

LEMMA EndsFit ==
  ASSUME LoopInv, NEW t \in Turn, NEW out \in {"replied", "silent", "dropped"}, Ends(t, out)
  PROVE  /\ Fit(t)' /\ turn'[t].pc = "done"
         /\ \A u \in Turn : u # t => turn'[u] = turn[u]
<1>1. PICK r : r = Ended(t, out)
  OBVIOUS
<1>2. RowOK(r) /\ r.pc = "done" /\ turn' = [turn EXCEPT ![t] = r]
  BY <1>1, EndsRow
<1>3. turn'[t] = r /\ \A u \in Turn : u # t => turn'[u] = turn[u]
  BY <1>2, MoverRows
<1> QED BY <1>2, <1>3 DEF Fit

LEMMA HalvesFit ==
  ASSUME LoopInv, NEW t \in Turn, NEW m, m \in TurnRec, Halves(t, m)
  PROVE  Fit(t)' /\ \A u \in Turn : u # t => PlanKept(u)
<1>1. ASSUME NEW pc \in {"archiving", "first", "last"}, NEW p \in Plan, Plots(t, m, pc, p)
      PROVE  Fit(t)' /\ \A u \in Turn : u # t => PlanKept(u)
  <2>1. PICK r \in TurnRec :
           /\ RowOK(r) /\ turn' = [turn EXCEPT ![t] = r]
           /\ r.pc = pc /\ r.plan = p /\ r.kind = m.kind /\ r.key = m.key /\ r.chat = m.chat
           /\ r.cancel = m.cancel /\ r.own = m.own /\ r.overlap = m.overlap
    BY <1>1, PlotsRow
  <2>2. turn'[t] = r /\ \A u \in Turn : u # t => turn'[u] = turn[u]
    BY <2>1, MoverRows
  <2>3. p.end <= Len(disk'[m.key].turns) /\ (pc = "archiving" => p.end = Len(disk'[m.key].turns))
    BY <1>1 DEF Plots
  <2>4. /\ turn'[t].plan = p /\ turn'[t].key = m.key /\ turn'[t].pc = pc
    BY <2>1, <2>2
  <2>5. Fit(t)'
    BY <2>3, <2>4 DEF Fit
  <2>6. \A u \in Turn : u # t => PlanKept(u)
    BY <2>2 DEF PlanKept
  <2> QED BY <2>5, <2>6
<1>2. ASSUME Enters(t, m)
      PROVE  Fit(t)' /\ \A u \in Turn : u # t => PlanKept(u)
  <2>1. PICK r \in TurnRec, others \in SUBSET (Turn \ {t}) :
           /\ others = {u \in Turn \ {t} : /\ turn[u].pc \in {"thinking", "last"}
                                            /\ "direct" \in {m.kind, turn[u].kind}}
           /\ RowOK(r) /\ r.pc = "thinking" /\ r.kind = m.kind /\ r.key = m.key
           /\ r.chat = m.chat /\ r.cancel = m.cancel /\ (r.overlap <=> others # {})
           /\ turn' = [u \in Turn |-> IF u = t THEN r
                                      ELSE IF u \in others THEN [turn[u] EXCEPT !.overlap = TRUE]
                                      ELSE turn[u]]
           /\ ctx' = [chat |-> m.chat, key |-> m.key]
           /\ sent' = (IF m.kind = "system" THEN sent ELSE FALSE)
    BY <1>2, EntersRows
  <2>2. turn'[t] = r
    BY <2>1
  <2>3. ASSUME NEW u \in Turn, u # t PROVE PlanKept(u)
    <3>1. RowOK(turn[u])
      BY DEF LoopInv, Rows
    <3>2. CASE u \in others
      <4>1. turn'[u] = [turn[u] EXCEPT !.overlap = TRUE]
        BY <2>1, <2>3, <3>2
      <4> QED BY <3>1, <4>1, RowOverlaps DEF PlanKept
    <3>3. CASE u \notin others
      <4>1. turn'[u] = turn[u]
        BY <2>1, <2>3, <3>3
      <4> QED BY <4>1 DEF PlanKept
    <3> QED BY <3>2, <3>3
  <2> QED BY <2>1, <2>2, <2>3 DEF Fit
<1> QED BY <1>1, <1>2 DEF Halves

LEMMA PlansKept ==
  ASSUME LoopInv, TurnsMove, NEW u \in Turn
  PROVE  PlanKept(u) \/ Fit(u)'
<1>1. CASE UNCHANGED <<turn, routing>>
  BY <1>1 DEF PlanKept
<1>2. ASSUME NEW t \in Turn, NEW r \in TurnRec, Arrives(t, r) PROVE PlanKept(u)
  <2>1. turn' = [turn EXCEPT ![t] = r] /\ RowOK(r) /\ r.pc = "queued"
    BY <1>2 DEF Arrives
  <2>2. turn'[t] = r /\ (u # t => turn'[u] = turn[u])
    BY <2>1, MoverRows
  <2> QED BY <2>1, <2>2 DEF PlanKept
<1>3. ASSUME NEW t \in Turn, Starts(t) PROVE PlanKept(u)
  <2>1. turn \in [Turn -> TurnRec] /\ turn' = [turn EXCEPT ![t].pc = "waiting"]
    BY <1>3 DEF Starts, LoopInv, TypeOK
  <2>2. (u = t => turn'[u].pc = "waiting") /\ (u # t => turn'[u] = turn[u])
    BY <2>1 DEF TurnRec
  <2> QED BY <2>2 DEF PlanKept
<1>4. ASSUME NEW t \in Turn, NEW out \in {"replied", "silent", "dropped"}, Ends(t, out)
      PROVE  PlanKept(u)
  BY <1>4, EndsFit DEF PlanKept
<1>5. ASSUME NEW t \in Turn, NEW m \in TurnRec, Halves(t, m) PROVE PlanKept(u) \/ Fit(u)'
  BY <1>5, HalvesFit
<1>6. ASSUME NEW t \in Turn, Calls(t) PROVE PlanKept(u)
  <2>1. PICK r \in TurnRec :
          RowOK(r) /\ turn' = [turn EXCEPT ![t] = r] /\ CallKeeps(turn[t], r)
    BY <1>6, CallsRow
  <2>2. turn'[t] = r /\ (u # t => turn'[u] = turn[u])
    BY <2>1, MoverRows
  <2> QED BY <2>1, <2>2 DEF PlanKept, CallKeeps
<1>7. ASSUME NEW k \in Key, Marks(k) PROVE PlanKept(u)
  BY <1>7, MarkedRow DEF PlanKept
<1>8. ASSUME VolatileLost PROVE PlanKept(u)
  BY <1>8, LostRow DEF PlanKept
<1> QED BY <1>1, <1>2, <1>3, <1>4, <1>5, <1>6, <1>7, <1>8 DEF TurnsMove, Halves

LEMMA SessionsStep ==
  ASSUME LoopInv, [Next]_vars
  PROVE  SessionsMove
<1> USE DEF sessionVars
<1>1. ASSUME NEW k \in Key, Open(k) PROVE SessionsMove
  BY <1>1 DEF SessionsMove
<1>2. \A t \in Turn : turn[t] \in TurnRec /\ turn[t].key \in Key
  BY DEF LoopInv, TypeOK, TurnRec
<1>3. ASSUME NEW t \in Turn, Acquire(t) PROVE SessionsMove
  BY <1>1, <1>2, <1>3 DEF Acquire, BeginTurn
<1>4. ASSUME NEW t \in Turn, NEW k \in Direct, NEW c \in Chat, BeginDirect(t, k, c)
      PROVE  SessionsMove
  <2>1. NewDirectRow(k, c).key \in Key
    BY NoTurnOK DEF NewDirectRow, TurnRec, Direct
  <2>2. Open(NewDirectRow(k, c).key)
    BY <1>4 DEF BeginDirect, BeginTurn, NewDirectRow
  <2> QED BY <1>1, <2>1, <2>2
<1>5. ASSUME NEW t \in Turn, Halves(t, turn[t]) \/ \E out \in {"replied", "silent", "dropped"} : Ends(t, out)
      PROVE  Fit(t)'
  BY <1>2, <1>5, HalvesFit, EndsFit
<1>6. ASSUME NEW t \in Turn, Finish(t) PROVE SessionsMove
  <2>1. Owns(t) /\ SaveTurn(turn[t].key, t)
    BY <1>6 DEF Finish, Running, Owns, InFlight
  <2>2. Fit(t)'
    BY <1>5, <1>6, FinishMoves
  <2> QED BY <2>1, <2>2 DEF SessionsMove
<1>7. ASSUME NEW t \in Turn, NEW entry \in Entries, ConsolidationSucceeds(t, entry)
      PROVE  SessionsMove
  <2>1. turn[t].pc \in {"first", "last"} /\ AdvanceConsolidated(turn[t].key, turn[t].plan, entry)
    BY <1>7 DEF ConsolidationSucceeds, Running
  <2>2. Fit(t)'
    BY <1>5, <1>7, AdvanceMoves
  <2> QED BY <2>1, <2>2 DEF SessionsMove
<1>8. ASSUME NEW t \in Turn, NEW entry \in Entries, NewSession(t, entry)
      PROVE  SessionsMove
  <2>1. ClearSession(turn[t].key, turn[t].plan, entry)
    BY <1>8 DEF NewSession
  <2>2. Fit(t)'
    BY <1>5, <1>8, EndingMoves
  <2>3. /\ Owns(t)
        /\ turn[t].pc = "archiving" \/ Unconsolidated(GetOrCreate(turn[t].key)) = <<>>
    BY <1>8 DEF NewSession, Running, Owns, InFlight, LoopInv, TypeOK
  <2> QED BY <2>1, <2>2, <2>3 DEF SessionsMove
<1>9. CASE Crash
  <2>1. ASSUME NEW t \in Turn, NEW entry \in Entries,
               Running(t, "first") \/ Running(t, "last") \/ Running(t, "archiving"),
               CrashAfterArchive(turn[t].key, turn[t].plan, entry)
        PROVE  SessionsMove
    BY <2>1 DEF SessionsMove, Running
  <2>2. ASSUME ForgetCache PROVE SessionsMove
    BY <2>2 DEF SessionsMove
  <2> QED BY <1>9, <2>1, <2>2 DEF Crash
<1>10. CASE Restart
  BY <1>10 DEF Restart, SessionsMove
<1>11. ASSUME UNCHANGED sessionVars PROVE SessionsMove
  BY <1>11 DEF SessionsMove
<1>12. ASSUME NEW t \in Turn,
              \/ \E k \in UserKey, cmd \in {"text", "new", "stop", "restart"} : Send(t, k, cmd)
              \/ \E s \in Sub : Spawn(t, s) \/ Announce(s, t)
              \/ \E c \in Chat : MessageTo(t, c)
              \/ MessageDefault(t) \/ CreateTask(t) \/ Apologise(t) \/ CronRearmed(t)
              \/ NewRefused(t) \/ Unwind(t) \/ ConsolidationFails(t)
              \/ Dispatch(t) \/ HandleRestart(t) \/ HandleStop(t)
       PROVE  SessionsMove
  <2>1. CASE \/ \E k \in UserKey, cmd \in {"text", "new", "stop", "restart"} : Send(t, k, cmd)
             \/ \E s \in Sub : Spawn(t, s) \/ Announce(s, t)
             \/ \E c \in Chat : MessageTo(t, c)
    BY <1>11, <2>1 DEF Send, Spawn, Announce, MessageTo
  <2>2. CASE \/ MessageDefault(t) \/ CreateTask(t) \/ Apologise(t) \/ CronRearmed(t)
             \/ NewRefused(t) \/ Unwind(t) \/ ConsolidationFails(t)
    BY <1>11, <2>2 DEF MessageDefault, CreateTask, Apologise, CronRearmed, NewRefused, Unwind,
                       ConsolidationFails
  <2>3. CASE Dispatch(t) \/ HandleRestart(t) \/ HandleStop(t)
    BY <1>11, <2>3 DEF Dispatch, HandleRestart, HandleStop
  <2> QED BY <1>12, <2>1, <2>2, <2>3
<1>13. CASE \/ StopTasksEnded \/ StopSubsEnded \/ StopForgeEnded
            \/ \E s \in Sub : SubCancelled(s)
            \/ \E i \in DOMAIN robots : TaskEnds(i)
            \/ UNCHANGED vars
  BY <1>11, <1>13 DEF StopTasksEnded, StopSubsEnded, StopForgeEnded, SubCancelled, TaskEnds, vars
<1> QED BY <1>3, <1>4, <1>6, <1>7, <1>8, <1>9, <1>10, <1>12, <1>13
        DEF Next, TurnStep, LoopStep

-----------------------------------------------------------------------------
(* What is in the prompt of a session and what HISTORY.md has of it. *)
Live(k) == {disk[k].turns[i] : i \in (disk[k].lc + 1)..Len(disk[k].turns)}
Remembered == \A k \in Key : spoken[k] \subseteq Live(k) \cup history

LEMMA LiveIs ==
  ASSUME LoopInv, NEW k \in Key
  PROVE  Elems(Unconsolidated(GetOrCreate(k))) = Live(k)
<1>1. disk[k] \in Session
  BY DEF LoopInv, TypeOK, SessionsTypeOK
<1>2. /\ disk[k].turns \in Seq(Turn) /\ disk[k].lc + 1 \in Nat \ {0}
      /\ Len(disk[k].turns) \in Nat
  BY <1>1 DEF Session
<1>3. Unconsolidated(GetOrCreate(k)) = SubSeq(disk[k].turns, disk[k].lc + 1, Len(disk[k].turns))
  BY SessionIs DEF Unconsolidated
<1>4. Len(disk[k].turns) <= Len(disk[k].turns)
  BY <1>2
<1>5. Elems(SubSeq(disk[k].turns, disk[k].lc + 1, Len(disk[k].turns))) = Live(k)
  BY <1>2, <1>4, ElemsOf DEF Live
<1> QED BY <1>3, <1>5

LEMMA NoneUnconsolidated ==
  ASSUME LoopInv, NEW k \in Key, Unconsolidated(GetOrCreate(k)) = <<>>
  PROVE  Live(k) = {}
<1>1. Elems(<<>>) = {}
  BY DEF Elems
<1> QED BY <1>1, LiveIs

CacheOK(k) ==
  /\ cache[k].open => cache[k].turns = disk[k].turns /\ cache[k].lc = disk[k].lc
  /\ disk[k].lc <= Len(disk[k].turns)
DiskKept(k) ==
  \/ disk'[k].turns = disk[k].turns
  \/ \E t \in Turn : Owns(t) /\ turn[t].key = k /\ Fit(t)'

LEMMA FitFrame ==
  ASSUME LoopInv, TurnsMove, \A k \in Key : DiskKept(k), NEW u \in Turn
  PROVE  Fit(u)'
<1>1. turn[u].key \in Key
  BY DEF LoopInv, TypeOK, TurnRec
<1> SUFFICES ASSUME PlanKept(u), turn'[u].pc \in {"archiving", "first", "last"}
             PROVE  Fit(u)'
  BY PlansKept DEF Fit
<1>2. turn'[u].pc = turn[u].pc /\ turn'[u].plan = turn[u].plan /\ turn'[u].key = turn[u].key
  BY DEF PlanKept
<1>3. CASE disk'[turn[u].key].turns = disk[turn[u].key].turns
  BY <1>2, <1>3 DEF Fit, LoopInv, MemoryInv
<1>4. ASSUME NEW t \in Turn, Owns(t), turn[t].key = turn[u].key, Fit(t)' PROVE Fit(u)'
  <2>1. Owns(u)
    BY <1>2 DEF Owns, InFlight
  <2>2. t = u
    BY <1>4, <2>1, SoleOwner
  <2> QED BY <1>4, <2>2
<1> QED BY <1>1, <1>3, <1>4 DEF DiskKept

LEMMA CacheOf ==
  ASSUME LoopInv, NEW k \in Key
  PROVE  CacheOK(k) /\ cache[k] \in Session /\ disk[k] \in Session
BY DEF LoopInv, MemoryInv, CacheOK, TypeOK, SessionsTypeOK

LEMMA MemoryFrom ==
  ASSUME LoopInv, TurnsMove, \A k \in Key : DiskKept(k), \A k \in Key : CacheOK(k)'
  PROVE  MemoryInv'
<1>1. \A u \in Turn : Fit(u)'
  BY FitFrame
<1> QED BY <1>1 DEF MemoryInv, CacheOK, Fit

LEMMA ClosedOK == Closed \in Session /\ Closed.turns = <<>> /\ Closed.lc = 0 /\ ~Closed.open
<1>1. FALSE \in BOOLEAN /\ <<>> \in Seq(Turn) /\ 0 \in Nat
  OBVIOUS
<1> QED BY <1>1 DEF Closed, Session

LEMMA SaveKeeps ==
  ASSUME LoopInv, TurnsMove, NEW t \in Turn, Owns(t), Fit(t)', NEW s \in Session,
         Save(turn[t].key, s), s.lc <= Len(s.turns)
  PROVE  MemoryInv' /\ cache' \in [Key -> Session] /\ disk' \in [Key -> Session]
<1>1. turn[t].key \in Key /\ TypeOK
  BY DEF LoopInv, TypeOK, TurnRec
<1>2. /\ cache' \in [Key -> Session] /\ disk' \in [Key -> Session]
      /\ cache'[turn[t].key] = s /\ disk'[turn[t].key].turns = s.turns
      /\ disk'[turn[t].key].lc = s.lc
      /\ \A j \in Key : j # turn[t].key => cache'[j] = cache[j] /\ disk'[j] = disk[j]
  BY <1>1, SavedIs
<1>3. \A k \in Key : DiskKept(k)
  BY <1>2 DEF DiskKept
<1>4. ASSUME NEW k \in Key PROVE CacheOK(k)'
  <2>1. CASE k = turn[t].key
    BY <1>2, <2>1 DEF CacheOK
  <2>2. CASE k # turn[t].key
    BY <1>2, <2>2, CacheOf DEF CacheOK
  <2> QED BY <2>1, <2>2
<1> QED BY <1>2, <1>3, <1>4, MemoryFrom

LEMMA SessionsKeep ==
  ASSUME LoopInv, SessionsMove, TurnsMove
  PROVE  SessionsTypeOK' /\ MemoryInv'
<1>1. /\ SessionsTypeOK
      /\ \A t \in Turn : turn[t].key \in Key /\ turn[t].plan \in Plan /\ turn[t].plan.read \subseteq Turn
  BY DEF LoopInv, TypeOK, TurnRec, Plan
<1>2. CASE UNCHANGED sessionVars
  <2>1. UNCHANGED <<cache, disk, history, memory, spoken>>
    BY <1>2 DEF sessionVars
  <2>2. \A k \in Key : DiskKept(k) /\ CacheOK(k)'
    BY <2>1, CacheOf DEF DiskKept, CacheOK
  <2> QED BY <1>1, <2>1, <2>2, MemoryFrom DEF SessionsTypeOK
<1>3. ASSUME NEW k \in Key, Open(k) PROVE SessionsTypeOK' /\ MemoryInv'
  <2>1. cache' = [cache EXCEPT ![k] = GetOrCreate(k)] /\ UNCHANGED <<disk, history, memory, spoken>>
    BY <1>3 DEF Open
  <2>2. PICK s \in Session : /\ s = GetOrCreate(k) /\ s.turns = disk[k].turns
                             /\ s.lc = disk[k].lc
    BY SessionIs
  <2>3. cache' \in [Key -> Session] /\ cache'[k] = s
        /\ \A j \in Key : j # k => cache'[j] = cache[j]
    BY <1>1, <2>1, <2>2 DEF SessionsTypeOK
  <2>4. ASSUME NEW j \in Key PROVE DiskKept(j) /\ CacheOK(j)'
    BY <2>1, <2>2, <2>3, CacheOf DEF DiskKept, CacheOK
  <2> QED BY <1>1, <2>1, <2>3, <2>4, MemoryFrom DEF SessionsTypeOK
<1>4. ASSUME NEW t \in Turn, Owns(t), SaveTurn(turn[t].key, t), Fit(t)'
      PROVE  SessionsTypeOK' /\ MemoryInv'
  <2>1. PICK s \in Session : /\ s = WithTurn(turn[t].key, t)
                             /\ s.turns = Append(disk[turn[t].key].turns, t)
                             /\ s.lc = disk[turn[t].key].lc
    BY <1>1, WithTurnIs
  <2>2. s.lc <= Len(s.turns)
    <3>1. disk[turn[t].key] \in Session /\ disk[turn[t].key].lc <= Len(disk[turn[t].key].turns)
      BY <1>1, CacheOf DEF CacheOK
    <3>2. Len(s.turns) = Len(disk[turn[t].key].turns) + 1
      BY <2>1, <3>1 DEF Session
    <3> QED BY <2>1, <3>1, <3>2 DEF Session
  <2>3. Save(turn[t].key, s)
    BY <1>4, <2>1 DEF SaveTurn
  <2>4. MemoryInv' /\ cache' \in [Key -> Session] /\ disk' \in [Key -> Session]
    BY <1>4, <2>2, <2>3, SaveKeeps
  <2>5. UNCHANGED <<history, memory>>
        /\ spoken' = [spoken EXCEPT ![turn[t].key] = @ \cup {t}]
    BY <1>4 DEF SaveTurn
  <2>6. spoken' \in [Key -> SUBSET Turn]
    BY <1>1, <2>5 DEF SessionsTypeOK
  <2> QED BY <1>1, <2>4, <2>5, <2>6 DEF SessionsTypeOK
<1>5. ASSUME NEW t \in Turn, NEW entry \in Entries, turn[t].plan.end <= Len(disk[turn[t].key].turns),
             WriteArchive(turn[t].key, turn[t].plan, entry)
      PROVE  history' \subseteq Turn /\ memory' \subseteq Turn
  <2>1. Chunk(turn[t].key, turn[t].plan) \subseteq Turn
    BY <1>1, <1>5, ChunkIs
  <2>2. history \subseteq Turn
    BY <1>1 DEF SessionsTypeOK
  <2> QED BY <1>1, <1>5, <2>1, <2>2 DEF WriteArchive
<1>6. ASSUME NEW t \in Turn, turn[t].pc \in {"archiving", "first", "last"}
      PROVE  turn[t].plan.end <= Len(disk[turn[t].key].turns)
  <2>1. Len(disk[turn[t].key].turns) \in Nat
    BY <1>1, CacheOf DEF Session
  <2>2. turn[t].plan.end <= Len(disk[turn[t].key].turns)
        \/ turn[t].plan.end = Len(disk[turn[t].key].turns)
    BY <1>6 DEF LoopInv, MemoryInv
  <2> QED BY <2>1, <2>2
<1>7. ASSUME NEW t \in Turn, NEW entry \in Entries, turn[t].pc \in {"first", "last"}, Fit(t)',
             AdvanceConsolidated(turn[t].key, turn[t].plan, entry)
      PROVE  SessionsTypeOK' /\ MemoryInv'
  <2>1. PICK s \in Session : /\ s = Consolidated(turn[t].key, turn[t].plan)
                             /\ s.turns = disk[turn[t].key].turns /\ s.lc = turn[t].plan.end
    BY <1>1, ConsolidatedIs
  <2>2. turn[t].plan.end <= Len(disk[turn[t].key].turns) /\ Owns(t)
    BY <1>6, <1>7 DEF Owns, InFlight
  <2>3. Save(turn[t].key, s) /\ UNCHANGED spoken
    BY <1>7, <2>1 DEF AdvanceConsolidated
  <2>4. MemoryInv' /\ cache' \in [Key -> Session] /\ disk' \in [Key -> Session]
    BY <1>7, <2>1, <2>2, <2>3, SaveKeeps
  <2>5. history' \subseteq Turn /\ memory' \subseteq Turn
    BY <1>5, <1>7, <2>2 DEF AdvanceConsolidated
  <2> QED BY <1>1, <2>3, <2>4, <2>5 DEF SessionsTypeOK
<1>8. ASSUME NEW t \in Turn, NEW entry \in Entries, Owns(t), Fit(t)',
             turn[t].pc = "archiving" \/ Unconsolidated(GetOrCreate(turn[t].key)) = <<>>,
             ClearSession(turn[t].key, turn[t].plan, entry)
      PROVE  SessionsTypeOK' /\ MemoryInv'
  <2>1. /\ disk' = [disk EXCEPT ![turn[t].key] = Closed]
        /\ cache' = [cache EXCEPT ![turn[t].key] = Closed]
        /\ UNCHANGED spoken
    BY <1>8 DEF ClearSession
  <2>2. /\ disk' \in [Key -> Session] /\ cache' \in [Key -> Session]
        /\ disk'[turn[t].key] = Closed /\ cache'[turn[t].key] = Closed
        /\ \A j \in Key : j # turn[t].key => cache'[j] = cache[j] /\ disk'[j] = disk[j]
    BY <1>1, <2>1, ClosedOK DEF SessionsTypeOK
  <2>3. history' \subseteq Turn /\ memory' \subseteq Turn
    <3>1. CASE Unconsolidated(GetOrCreate(turn[t].key)) = <<>>
      BY <1>1, <1>8, <3>1 DEF ClearSession, SessionsTypeOK
    <3>2. CASE Unconsolidated(GetOrCreate(turn[t].key)) # <<>>
      <4>1. WriteArchive(turn[t].key, turn[t].plan, entry) /\ turn[t].pc = "archiving"
        BY <1>8, <3>2 DEF ClearSession
      <4> QED BY <1>5, <1>6, <4>1
    <3> QED BY <3>1, <3>2
  <2>4. \A k \in Key : DiskKept(k)
    BY <1>8, <2>2 DEF DiskKept
  <2>5. ASSUME NEW k \in Key PROVE CacheOK(k)'
    <3>1. CASE k = turn[t].key
      <4>1. Len(Closed.turns) = 0 /\ Closed.lc <= 0
        BY ClosedOK
      <4> QED BY <2>2, <3>1, <4>1, ClosedOK DEF CacheOK
    <3>2. CASE k # turn[t].key
      BY <2>2, <3>2, CacheOf DEF CacheOK
    <3> QED BY <3>1, <3>2
  <2> QED BY <1>1, <2>1, <2>2, <2>3, <2>4, <2>5, MemoryFrom DEF SessionsTypeOK
<1>9. ASSUME cache' = [i \in Key |-> Closed], UNCHANGED <<disk, spoken>>
      PROVE  MemoryInv' /\ cache' \in [Key -> Session]
  <2>1. cache' \in [Key -> Session] /\ \A k \in Key : cache'[k] = Closed
    BY <1>9, ClosedOK
  <2>2. \A k \in Key : DiskKept(k) /\ CacheOK(k)'
    BY <1>9, <2>1, CacheOf, ClosedOK DEF DiskKept, CacheOK
  <2> QED BY <2>1, <2>2, MemoryFrom
<1>10. CASE ForgetCache
  BY <1>1, <1>9, <1>10 DEF ForgetCache, SessionsTypeOK
<1>11. ASSUME NEW t \in Turn, NEW entry \in Entries, turn[t].pc \in {"archiving", "first", "last"},
              CrashAfterArchive(turn[t].key, turn[t].plan, entry)
       PROVE  SessionsTypeOK' /\ MemoryInv'
  <2>1. history' \subseteq Turn /\ memory' \subseteq Turn
    BY <1>5, <1>6, <1>11 DEF CrashAfterArchive
  <2>2. cache' = [i \in Key |-> Closed] /\ UNCHANGED <<disk, spoken>>
    BY <1>11 DEF CrashAfterArchive
  <2> QED BY <1>1, <1>9, <2>1, <2>2 DEF SessionsTypeOK
<1> QED BY <1>2, <1>3, <1>4, <1>7, <1>8, <1>10, <1>11 DEF SessionsMove

-----------------------------------------------------------------------------
(* /stop waits while the rest moves.  The tasks it waits for are cancelled; *)
(* when only subagents, or the AgentTask, are left, no task of its session  *)
(* has come back, and no task can spawn a subagent under its key.           *)
StopInv ==
  /\ main.at = "tasks" => \A u \in Active(turn[main.stop].key) : turn[u].cancel
  /\ main.at \in {"subs", "forge"} => Active(turn[main.stop].key) = {}
  /\ main.at = "subs" => \A s \in Subs(turn[main.stop].key) :
       sub[s].cancel \/ turn[main.stop].key \notin sub[s].from
  /\ main.at = "forge" => \A s \in Subs(turn[main.stop].key) :
       turn[main.stop].key \notin sub[s].from

QueuedKept(u) ==
  turn[u].pc = "queued" =>
    turn'[u].pc = "queued" /\ turn'[u].cmd = turn[u].cmd /\ turn'[u].key = turn[u].key
Tasks(r) == r.kind = "chat" /\ r.pc \in {"waiting"} \cup InFlight
StillActive(u) ==
  Tasks(turn'[u]) =>
    Tasks(turn[u]) /\ turn'[u].key = turn[u].key /\ (turn[u].cancel => turn'[u].cancel)
SubsKept ==
  \A s \in Sub : sub'[s].pc = "running" =>
    \/ sub'[s] = sub[s]
    \/ \E t \in Turn : /\ turn[t].pc = "thinking"
                       /\ sub'[s].from = IF turn[t].kind = "chat" THEN {turn[t].key} ELSE {}
Frame == \A u \in Turn : QueuedKept(u) /\ StillActive(u)
SameStop == main'.at = main.at /\ main'.stop = main.stop
Quiet == Frame /\ SubsKept /\ SameStop /\ inbound' = inbound

LEMMA EndsFrame ==
  ASSUME LoopInv, NEW t \in Turn, NEW out \in {"replied", "silent", "dropped"}, Ends(t, out)
  PROVE  /\ \A u \in Turn : StillActive(u) /\ (u # t => QueuedKept(u))
         /\ turn[t].pc # "queued" => Frame
<1>1. turn'[t].pc = "done" /\ \A u \in Turn : u # t => turn'[u] = turn[u]
  BY EndsFit
<1>2. \A u \in Turn : u # t => QueuedKept(u)
  BY <1>1 DEF QueuedKept
<1>3. \A u \in Turn : StillActive(u)
  BY <1>1 DEF StillActive, Tasks, InFlight
<1>4. turn[t].pc # "queued" => QueuedKept(t)
  BY DEF QueuedKept
<1> QED BY <1>2, <1>3, <1>4 DEF Frame

LEMMA GoerFrame ==
  ASSUME LoopInv, NEW t \in Turn, NEW m, GoesOnWith(t, m), NEW r, r.kind = m.kind, r.key = m.key,
         r.cancel = m.cancel, turn'[t] = r
  PROVE  QueuedKept(t) /\ StillActive(t)
<1>1. CASE /\ m = turn[t] /\ ~turn[t].cancel
           /\ \/ turn[t].pc = "waiting" /\ queue # <<>> /\ queue[1] = t
              \/ turn[t].pc \in InFlight
  BY <1>1 DEF QueuedKept, StillActive, Tasks, InFlight
<1>2. ASSUME turn[t].kind = "none", NEW k \in Direct, NEW c \in Chat, m = NewDirectRow(k, c)
      PROVE  QueuedKept(t) /\ StillActive(t)
  <2>1. turn[t].pc = "none"
    BY <1>2 DEF LoopInv, Rows, RowOK
  <2>2. m.kind = "direct"
    BY <1>2, NoTurnOK DEF NewDirectRow, TurnRec
  <2> QED BY <2>1, <2>2 DEF QueuedKept, StillActive, Tasks
<1> QED BY <1>1, <1>2 DEF GoesOnWith

LEMMA HalvesFrame ==
  ASSUME LoopInv, NEW t \in Turn, NEW m, m \in TurnRec, Halves(t, m)
  PROVE  Frame
<1>1. ASSUME NEW pc \in {"archiving", "first", "last"}, NEW p \in Plan, Plots(t, m, pc, p)
      PROVE  Frame
  <2>1. PICK r \in TurnRec :
           /\ RowOK(r) /\ turn' = [turn EXCEPT ![t] = r]
           /\ r.pc = pc /\ r.plan = p /\ r.kind = m.kind /\ r.key = m.key /\ r.chat = m.chat
           /\ r.cancel = m.cancel /\ r.own = m.own /\ r.overlap = m.overlap
    BY <1>1, PlotsRow
  <2>2. turn'[t] = r /\ \A u \in Turn : u # t => turn'[u] = turn[u]
    BY <2>1, MoverRows
  <2>3. QueuedKept(t) /\ StillActive(t)
    BY <1>1, <2>1, <2>2, GoerFrame DEF Plots
  <2>4. \A u \in Turn : u # t => QueuedKept(u) /\ StillActive(u)
    BY <2>2 DEF QueuedKept, StillActive
  <2> QED BY <2>3, <2>4 DEF Frame
<1>2. ASSUME Enters(t, m) PROVE Frame
  <2>1. PICK r \in TurnRec, others \in SUBSET (Turn \ {t}) :
           /\ others = {u \in Turn \ {t} : /\ turn[u].pc \in {"thinking", "last"}
                                            /\ "direct" \in {m.kind, turn[u].kind}}
           /\ RowOK(r) /\ r.pc = "thinking" /\ r.kind = m.kind /\ r.key = m.key
           /\ r.chat = m.chat /\ r.cancel = m.cancel /\ (r.overlap <=> others # {})
           /\ turn' = [u \in Turn |-> IF u = t THEN r
                                      ELSE IF u \in others THEN [turn[u] EXCEPT !.overlap = TRUE]
                                      ELSE turn[u]]
           /\ ctx' = [chat |-> m.chat, key |-> m.key]
           /\ sent' = (IF m.kind = "system" THEN sent ELSE FALSE)
    BY <1>2, EntersRows
  <2>2. turn'[t] = r
    BY <2>1
  <2>3. QueuedKept(t) /\ StillActive(t)
    BY <1>2, <2>1, <2>2, GoerFrame DEF Enters
  <2>4. ASSUME NEW u \in Turn, u # t PROVE QueuedKept(u) /\ StillActive(u)
    <3>1. RowOK(turn[u])
      BY DEF LoopInv, Rows
    <3>2. CASE u \in others
      <4>1. turn'[u] = [turn[u] EXCEPT !.overlap = TRUE]
        BY <2>1, <2>4, <3>2
      <4>2. /\ turn'[u].pc = turn[u].pc /\ turn'[u].kind = turn[u].kind
            /\ turn'[u].key = turn[u].key /\ turn'[u].cmd = turn[u].cmd
            /\ turn'[u].cancel = turn[u].cancel
        BY <3>1, <4>1, RowOverlaps
      <4> QED BY <4>2 DEF QueuedKept, StillActive, Tasks
    <3>3. CASE u \notin others
      <4>1. turn'[u] = turn[u]
        BY <2>1, <2>4, <3>3
      <4> QED BY <4>1 DEF QueuedKept, StillActive
    <3> QED BY <3>2, <3>3
  <2> QED BY <2>3, <2>4 DEF Frame
<1> QED BY <1>1, <1>2 DEF Halves

LEMMA CallsFrame ==
  ASSUME LoopInv, NEW t \in Turn, Calls(t)
  PROVE  Frame
<1>1. PICK r \in TurnRec :
        RowOK(r) /\ turn' = [turn EXCEPT ![t] = r] /\ CallKeeps(turn[t], r)
  BY CallsRow
<1>2. turn'[t] = r /\ \A u \in Turn : u # t => turn'[u] = turn[u]
  BY <1>1, MoverRows
<1>3. QueuedKept(t) /\ StillActive(t)
  BY <1>1, <1>2 DEF CallKeeps, QueuedKept, StillActive, Tasks
<1>4. \A u \in Turn : u # t => QueuedKept(u) /\ StillActive(u)
  BY <1>2 DEF QueuedKept, StillActive
<1> QED BY <1>3, <1>4 DEF Frame

LEMMA SameFrame ==
  ASSUME UNCHANGED turn
  PROVE  Frame
BY DEF Frame, QueuedKept, StillActive

LEMMA ArrivesFrame ==
  ASSUME LoopInv, NEW t \in Turn, NEW r, Arrives(t, r)
  PROVE  Frame /\ turn'[t] = r
<1>1. RowOK(r) /\ r.pc = "queued" /\ turn' = [turn EXCEPT ![t] = r] /\ turn[t].kind = "none"
  BY DEF Arrives
<1>2. turn'[t] = r /\ \A u \in Turn : u # t => turn'[u] = turn[u]
  BY <1>1, MoverRows
<1>3. turn[t].pc = "none"
  BY <1>1 DEF LoopInv, Rows, RowOK
<1>4. QueuedKept(t) /\ StillActive(t)
  BY <1>1, <1>2, <1>3 DEF QueuedKept, StillActive, Tasks, InFlight
<1>5. \A u \in Turn : u # t => QueuedKept(u) /\ StillActive(u)
  BY <1>2 DEF QueuedKept, StillActive
<1> QED BY <1>2, <1>4, <1>5 DEF Frame

LEMMA QuietSteps ==
  ASSUME LoopInv,
         \/ \E t \in Turn, k \in Direct, c \in Chat : BeginDirect(t, k, c)
         \/ \E t \in Turn :
              \/ TurnStep(t) \/ Apologise(t) \/ CronRearmed(t)
              \/ MessageDefault(t) \/ CreateTask(t)
              \/ \E c \in Chat : MessageTo(t, c)
              \/ \E s \in Sub : Spawn(t, s)
         \/ \E s \in Sub : SubCancelled(s)
         \/ \E i \in DOMAIN robots : TaskEnds(i)
         \/ UNCHANGED vars
  PROVE  Quiet
<1>1. ASSUME NEW t \in Turn, NEW m, m \in TurnRec, Halves(t, m), UNCHANGED <<inbound, main, sub>>
      PROVE  Quiet
  BY <1>1, HalvesFrame DEF Quiet, SameStop, SubsKept
<1>2. ASSUME NEW t \in Turn, NEW out \in {"replied", "silent", "dropped"}, Ends(t, out),
             turn[t].pc # "queued", UNCHANGED <<inbound, main, sub>>
      PROVE  Quiet
  BY <1>2, EndsFrame DEF Quiet, SameStop, SubsKept
<1>3. \A t \in Turn : turn[t] \in TurnRec /\ RowOK(turn[t])
  BY DEF LoopInv, TypeOK, Rows
<1>4. ASSUME NEW t \in Turn, NEW k \in Direct, NEW c \in Chat, BeginDirect(t, k, c)
      PROVE  Quiet
  <2>1. NewDirectRow(k, c) \in TurnRec
    BY NoTurnOK DEF NewDirectRow, TurnRec, Direct
  <2> QED BY <1>1, <1>4, <2>1, DirectMoves DEF BeginDirect
<1>5. ASSUME NEW t \in Turn, TurnStep(t) PROVE Quiet
  <2>1. CASE Acquire(t)
    BY <1>1, <1>3, <2>1, AcquireMoves DEF Acquire
  <2>2. CASE Finish(t)
    <3>1. UNCHANGED <<inbound, main, sub>> /\ turn[t].pc = "thinking"
      BY <2>2 DEF Finish, Running
    <3> QED BY <1>1, <1>2, <1>3, <2>2, <3>1, FinishMoves
  <2>3. CASE ConsolidationFails(t)
    <3>1. UNCHANGED <<inbound, main, sub>> /\ turn[t].pc \in {"first", "last"}
      BY <2>3 DEF ConsolidationFails, Running
    <3> QED BY <1>1, <1>2, <1>3, <2>3, <3>1, ProceedMoves DEF ConsolidationFails
  <2>4. CASE NewRefused(t)
    <3>1. UNCHANGED <<inbound, main, sub>> /\ turn[t].pc = "archiving"
      BY <2>4 DEF NewRefused, Running
    <3> QED BY <1>2, <2>4, <3>1, EndingMoves
  <2>5. CASE Unwind(t)
    <3>1. UNCHANGED <<inbound, main, sub>> /\ turn[t].pc # "queued"
      BY <1>3, <2>5 DEF Unwind, RowOK, InFlight
    <3> QED BY <1>2, <2>5, <3>1, EndingMoves
  <2>6. ASSUME NEW entry \in Entries, ConsolidationSucceeds(t, entry) PROVE Quiet
    <3>1. UNCHANGED <<inbound, main, sub>> /\ turn[t].pc \in {"first", "last"}
      BY <2>6 DEF ConsolidationSucceeds, Running
    <3> QED BY <1>1, <1>2, <1>3, <2>6, <3>1, AdvanceMoves
  <2>7. ASSUME NEW entry \in Entries, NewSession(t, entry) PROVE Quiet
    <3>1. UNCHANGED <<inbound, main, sub>> /\ turn[t].pc # "queued"
      BY <2>7 DEF NewSession, Running
    <3> QED BY <1>2, <2>7, <3>1, EndingMoves
  <2> QED BY <1>5, <2>1, <2>2, <2>3, <2>4, <2>5, <2>6, <2>7 DEF TurnStep
<1>6. ASSUME NEW t \in Turn, Apologise(t) \/ CronRearmed(t) PROVE Quiet
  <2>1. UNCHANGED <<inbound, main, sub>> /\ turn[t].pc # "queued"
    BY <1>6 DEF Apologise, CronRearmed, Running, InFlight
  <2> QED BY <1>2, <1>6, <2>1, EndingMoves
<1>7. ASSUME NEW t \in Turn, MessageDefault(t) \/ CreateTask(t) \/ \E c \in Chat : MessageTo(t, c)
      PROVE  Quiet
  <2>1. UNCHANGED <<inbound, main, sub>>
    BY <1>7 DEF MessageDefault, CreateTask, MessageTo
  <2>2. Calls(t)
    BY <1>7, CallingMoves
  <2> QED BY <2>1, <2>2, CallsFrame DEF Quiet, SameStop, SubsKept
<1>8. ASSUME NEW t \in Turn, NEW s \in Sub, Spawn(t, s) PROVE Quiet
  <2>1. Frame /\ UNCHANGED <<inbound, main>>
    BY <1>8, CallingMoves, CallsFrame DEF Spawn
  <2>2. turn[t].pc = "thinking"
    BY <1>8 DEF Spawn, ToolCall, Running
  <2>3. PICK r : r = [NoSub EXCEPT !.pc = "running", !.chat = ctx.chat,
                                   !.from = IF turn[t].kind = "chat" THEN {turn[t].key} ELSE {}]
    OBVIOUS
  <2>4. r.from = IF turn[t].kind = "chat" THEN {turn[t].key} ELSE {}
    BY <2>3 DEF NoSub
  <2>5. sub' = [sub EXCEPT ![s] = r]
    BY <1>8, <2>3, Zenon DEF Spawn
  <2>6. \A q \in Sub : sub'[q] = sub[q] \/ sub'[q] = r
    BY <2>5 DEF LoopInv, TypeOK
  <2>7. SubsKept
    BY <2>2, <2>4, <2>6 DEF SubsKept
  <2> QED BY <2>1, <2>7 DEF Quiet, SameStop
<1>9. ASSUME NEW s \in Sub, SubCancelled(s) PROVE Quiet
  <2>1. UNCHANGED <<turn, inbound, main>> /\ sub' = [sub EXCEPT ![s] = GoneSub]
    BY <1>9 DEF SubCancelled
  <2>2. GoneSub.pc = "done"
    BY DEF GoneSub, NoSub
  <2>3. \A q \in Sub : sub'[q] = sub[q] \/ sub'[q] = GoneSub
    BY <2>1 DEF LoopInv, TypeOK
  <2>4. SubsKept
    BY <2>2, <2>3 DEF SubsKept
  <2> QED BY <2>1, <2>4, SameFrame DEF Quiet, SameStop
<1>10. CASE (\E i \in DOMAIN robots : TaskEnds(i)) \/ UNCHANGED vars
  <2>1. UNCHANGED <<turn, inbound, sub>> /\ SameStop
    BY <1>10 DEF TaskEnds, SameStop, vars, loopVars, LoopInv, TypeOK
  <2> QED BY <2>1, SameFrame DEF Quiet, SubsKept
<1> QED BY <1>4, <1>5, <1>6, <1>7, <1>8, <1>9, <1>10

LEMMA InboundFrom ==
  ASSUME LoopInv,
         inbound' = inbound \/ (inbound # <<>> /\ inbound' = Tail(inbound)),
         \A i \in DOMAIN inbound' : QueuedKept(inbound'[i]),
         main'.at # "idle" =>
           /\ main'.stop \in Turn /\ turn'[main'.stop].cmd = "stop"
           /\ \A i \in DOMAIN inbound' : inbound'[i] # main'.stop
  PROVE  InboundInv'
<1>1. inbound \in Seq(Turn) /\ InboundInv
  BY DEF LoopInv, TypeOK
<1>2. PICK d \in {0, 1} :
        \A i \in DOMAIN inbound' : i + d \in DOMAIN inbound /\ inbound'[i] = inbound[i + d]
                                   /\ i \in Nat
  <2>1. CASE inbound' = inbound
    <3>1. \A i \in DOMAIN inbound' : i + 0 \in DOMAIN inbound /\ inbound'[i] = inbound[i + 0]
                                     /\ i \in Nat
      BY <1>1, <2>1
    <3> QED BY <3>1
  <2>2. CASE inbound # <<>> /\ inbound' = Tail(inbound)
    <3>1. \A i \in DOMAIN inbound' : i + 1 \in DOMAIN inbound /\ inbound'[i] = inbound[i + 1]
                                     /\ i \in Nat
      BY <1>1, <2>2
    <3> QED BY <3>1
  <2> QED BY <2>1, <2>2
<1>3. ASSUME NEW i \in DOMAIN inbound'
      PROVE  /\ turn'[inbound'[i]].pc = "queued"
             /\ \A j \in DOMAIN inbound' : inbound'[i] = inbound'[j] => i = j
  <2>1. turn[inbound'[i]].pc = "queued"
    BY <1>1, <1>2 DEF InboundInv
  <2>2. turn'[inbound'[i]].pc = "queued"
    BY <2>1 DEF QueuedKept
  <2>3. ASSUME NEW j \in DOMAIN inbound', inbound'[i] = inbound'[j] PROVE i = j
    <3>1. i + d = j + d
      BY <1>1, <1>2, <2>3 DEF InboundInv
    <3> QED BY <1>2, <3>1
  <2> QED BY <2>2, <2>3
<1> QED BY <1>3 DEF InboundInv

(* What a /stop has left when it answers. *)
StopDone ==
  \A m \in Turn, k \in UserKey :
    turn[m].cmd = "stop" /\ turn[m].key = k /\ turn'[m].out = "replied" =>
      /\ Active(k)' = {}
      /\ \A s \in Subs(k)' : k \notin sub'[s].from
      /\ robots' # <<>> /\ Head(robots').key = k => Head(robots').status # "active"

LEMMA StopQueued ==
  ASSUME LoopInv, NEW t \in Turn, turn[t].cmd = "stop"
  PROVE  turn[t].pc = "queued" /\ turn[t].out = "none" /\ turn[t].kind # "none"
BY DEF LoopInv, Rows, RowOK

LEMMA QuietStop ==
  ASSUME LoopInv, StopInv, Frame, SubsKept, SameStop
  PROVE  StopInv'
<1>1. main.at # "idle" => main.stop \in Turn /\ turn[main.stop].cmd = "stop"
  BY DEF LoopInv, InboundInv
<1>2. main.at # "idle" => turn'[main.stop].key = turn[main.stop].key
  BY <1>1, StopQueued DEF Frame, QueuedKept
<1>3. ASSUME main.at = "tasks", NEW u \in Turn, Tasks(turn'[u]), turn'[u].key = turn[main.stop].key
      PROVE  turn'[u].cancel
  <2>1. Tasks(turn[u]) /\ turn[u].key = turn[main.stop].key /\ (turn[u].cancel => turn'[u].cancel)
    BY <1>3 DEF Frame, StillActive
  <2>2. turn[u].cancel
    BY <1>3, <2>1 DEF StopInv, Active, Tasks
  <2> QED BY <2>1, <2>2
<1>4. ASSUME main.at \in {"subs", "forge"}, NEW u \in Turn, Tasks(turn'[u]), turn'[u].key = turn[main.stop].key
      PROVE  FALSE
  <2>1. Tasks(turn[u]) /\ turn[u].key = turn[main.stop].key
    BY <1>4 DEF Frame, StillActive
  <2> QED BY <1>4, <2>1 DEF StopInv, Active, Tasks
<1>5. ASSUME main.at \in {"subs", "forge"}, NEW s \in Sub, sub'[s].pc = "running",
             sub'[s].chat = turn[main.stop].key
      PROVE  (main.at = "subs" /\ sub'[s].cancel) \/ turn[main.stop].key \notin sub'[s].from
  <2>1. CASE sub'[s] = sub[s]
    BY <1>5, <2>1 DEF StopInv, Subs
  <2>2. ASSUME NEW t \in Turn, turn[t].pc = "thinking",
               sub'[s].from = IF turn[t].kind = "chat" THEN {turn[t].key} ELSE {},
               turn[main.stop].key \in sub'[s].from
        PROVE  FALSE
    <3>1. turn[t].kind = "chat" /\ turn[t].key = turn[main.stop].key
      BY <2>2
    <3> QED BY <1>5, <2>2, <3>1 DEF StopInv, Active, InFlight
  <2> QED BY <1>5, <2>1, <2>2 DEF SubsKept
<1>7. main.at \in {"subs", "forge"} =>
        \A u \in Turn : ~(/\ turn'[u].kind = "chat"
                          /\ turn'[u].key = turn'[main.stop].key
                          /\ turn'[u].pc \in {"waiting"} \cup InFlight)
  BY <1>2, <1>4 DEF Tasks
<1>8. main'.at = "tasks" => \A u \in Turn :
         /\ turn'[u].kind = "chat" /\ turn'[u].key = turn'[main'.stop].key
         /\ turn'[u].pc \in {"waiting"} \cup InFlight
         => turn'[u].cancel
  BY <1>2, <1>3 DEF Tasks, SameStop
<1>9. /\ main'.at \in {"subs", "forge"} => \A u \in Turn :
           ~(/\ turn'[u].kind = "chat"
             /\ turn'[u].key = turn'[main'.stop].key
             /\ turn'[u].pc \in {"waiting"} \cup InFlight)
      /\ main'.at = "subs" => \A s \in Sub :
           sub'[s].pc = "running" /\ sub'[s].chat = turn'[main'.stop].key =>
             sub'[s].cancel \/ turn'[main'.stop].key \notin sub'[s].from
      /\ main'.at = "forge" => \A s \in Sub :
           sub'[s].pc = "running" /\ sub'[s].chat = turn'[main'.stop].key =>
             turn'[main'.stop].key \notin sub'[s].from
  BY <1>2, <1>5, <1>7 DEF SameStop
<1> QED BY <1>8, <1>9 DEF StopInv, Active, Subs, InFlight

LEMMA QuietDone ==
  ASSUME LoopInv, Frame, Rows'
  PROVE  StopDone
<1> SUFFICES ASSUME NEW m \in Turn, turn[m].cmd = "stop", turn'[m].out = "replied"
             PROVE  FALSE
  BY DEF StopDone
<1>1. turn'[m].pc = "queued"
  BY StopQueued DEF Frame, QueuedKept
<1>2. turn'[m].out = "none"
  BY <1>1 DEF Rows, RowOK
<1> QED BY <1>2

LEMMA IdleStop ==
  ASSUME main'.at = "idle"
  PROVE  StopInv'
BY DEF StopInv

LEMMA ArrivesInbound ==
  ASSUME LoopInv, NEW t \in Turn, NEW r, Arrives(t, r), inbound' = Append(inbound, t), main' = main
  PROVE  InboundInv'
<1>1. inbound \in Seq(Turn) /\ InboundInv /\ turn[t].kind = "none" /\ turn[t].pc = "none"
  BY DEF LoopInv, TypeOK, Arrives, Rows, RowOK
<1>2. Frame /\ turn'[t].pc = "queued"
  BY ArrivesFrame DEF Arrives
<1>3. \A i \in DOMAIN inbound' :
        \/ i \in DOMAIN inbound /\ inbound'[i] = inbound[i] /\ i # Len(inbound) + 1
        \/ i = Len(inbound) + 1 /\ inbound'[i] = t
  BY <1>1
<1>4. \A i \in DOMAIN inbound : inbound[i] # t /\ turn'[inbound[i]].pc = "queued"
  BY <1>1, <1>2 DEF InboundInv, Frame, QueuedKept
<1>5. main.at # "idle" => /\ main.stop \in Turn /\ turn'[main.stop].cmd = "stop" /\ main.stop # t
  <2> SUFFICES ASSUME main.at # "idle"
               PROVE  main.stop \in Turn /\ turn'[main.stop].cmd = "stop" /\ main.stop # t
    OBVIOUS
  <2>1. main.stop \in Turn /\ turn[main.stop].cmd = "stop"
    BY <1>1 DEF InboundInv
  <2>2. turn[main.stop].pc = "queued"
    BY <2>1, StopQueued
  <2> QED BY <1>1, <1>2, <2>1, <2>2 DEF Frame, QueuedKept
<1>6. ASSUME NEW i \in DOMAIN inbound'
      PROVE  /\ turn'[inbound'[i]].pc = "queued"
             /\ main.at # "idle" => inbound'[i] # main.stop
  BY <1>1, <1>2, <1>3, <1>4, <1>5 DEF InboundInv
<1>7. ASSUME NEW i \in DOMAIN inbound', NEW j \in DOMAIN inbound', inbound'[i] = inbound'[j]
      PROVE  i = j
  BY <1>1, <1>3, <1>4, <1>7 DEF InboundInv
<1> QED BY <1>5, <1>6, <1>7 DEF InboundInv

(* The task of a message the loop has taken is not on the bus any more. *)
LEMMA Consumed ==
  ASSUME LoopInv, NEW t \in Turn, Consume(t)
  PROVE  /\ turn[t].pc = "queued" /\ main.at = "idle"
         /\ inbound # <<>> /\ inbound' = Tail(inbound)
         /\ \A i \in DOMAIN inbound' : inbound'[i] # t /\ inbound'[i] \in Turn
<1>1. turn[t].pc = "queued" /\ inbound # <<>> /\ t = inbound[1] /\ main.at = "idle"
      /\ inbound' = Tail(inbound)
  BY Heads DEF LoopInv
<1>2. inbound \in Seq(Turn) /\ InboundInv
  BY DEF LoopInv, TypeOK
<1>3. \A i \in DOMAIN inbound' : /\ i + 1 \in DOMAIN inbound /\ i \in Nat /\ i >= 1
                                 /\ inbound'[i] = inbound[i + 1] /\ inbound'[i] \in Turn
  BY <1>1, <1>2
<1>4. ASSUME NEW i \in DOMAIN inbound' PROVE inbound'[i] # t
  <2>1. 1 \in DOMAIN inbound /\ i + 1 # 1
    BY <1>1, <1>2, <1>3
  <2> QED BY <1>1, <1>2, <1>3, <2>1 DEF InboundInv
<1> QED BY <1>1, <1>3, <1>4

(* A /stop that has nothing left to wait for answers. *)
LEMMA Answers ==
  ASSUME LoopInv, NEW t \in Turn, turn[t].cmd = "stop", StopAnswers(t), UNCHANGED <<routing, sub>>,
         Active(turn[t].key) = {},
         \A s \in Subs(turn[t].key) : turn[t].key \notin sub[s].from,
         inbound' = inbound \/ (inbound # <<>> /\ inbound' = Tail(inbound)),
         \A i \in DOMAIN inbound' : inbound'[i] # t /\ inbound'[i] \in Turn,
         robots' # <<>> /\ Head(robots').key = turn[t].key => Head(robots').status # "active"
  PROVE  InboundInv' /\ StopInv' /\ StopDone
<1>1. turn[t].pc = "queued" /\ turn[t].kind # "none"
  BY StopQueued
<1>2. Ends(t, "replied") /\ main'.at = "idle" /\ sub' = sub
  BY <1>1 DEF StopAnswers, Ends, Idle, routing
<1>3. /\ turn'[t].pc = "done" /\ \A u \in Turn : u # t => turn'[u] = turn[u]
      /\ \A u \in Turn : StillActive(u) /\ (u # t => QueuedKept(u))
  BY <1>2, EndsFit, EndsFrame
<1>4. InboundInv'
  BY <1>2, <1>3, InboundFrom
<1>5. ASSUME NEW u \in Turn, Tasks(turn'[u]), turn'[u].key = turn[t].key PROVE FALSE
  <2>1. Tasks(turn[u]) /\ turn[u].key = turn[t].key
    BY <1>3, <1>5 DEF StillActive
  <2> QED BY <2>1 DEF Active, Tasks
<1>6. ASSUME NEW m \in Turn, turn[m].cmd = "stop", turn'[m].out = "replied" PROVE m = t
  BY <1>3, <1>6, StopQueued
<1>7. StopDone
  <2> SUFFICES ASSUME NEW m \in Turn, NEW k \in UserKey, turn[m].cmd = "stop",
                      turn[m].key = k, turn'[m].out = "replied"
               PROVE  /\ Active(k)' = {}
                      /\ \A s \in Subs(k)' : k \notin sub'[s].from
                      /\ robots' # <<>> /\ Head(robots').key = k =>
                           Head(robots').status # "active"
    BY DEF StopDone
  <2>1. k = turn[t].key
    BY <1>6
  <2>2. Active(k)' = {}
    BY <1>5, <2>1 DEF Active, Tasks, InFlight
  <2>3. Subs(k)' = Subs(k)
    BY <1>2 DEF Subs
  <2> QED BY <1>2, <2>1, <2>2, <2>3
<1> QED BY <1>2, <1>4, <1>7, IdleStop

(* Only the newest AgentTask may be one nobody has asked to cancel: a second *)
(* one comes of a cancellation written into a record that had ended.        *)
RobotsInv ==
  \A i \in DOMAIN robots : i < Len(robots) => robots[i].status = "cancelling"

(* The writes of cancel_task. *)
LEMMA OldestAsked ==
  ASSUME robots \in Seq(TaskRec), robots' = [robots EXCEPT ![1].status = "cancelling"], RobotsInv
  PROVE  /\ robots' \in Seq(TaskRec) /\ RobotsInv'
         /\ robots' # <<>> => Head(robots').status = "cancelling"
<1>1. CASE robots = <<>>
  <2>1. robots' = <<>>
    <3>1. Len(robots) = 0 /\ DOMAIN robots = {}
      BY <1>1
    <3>2. [robots EXCEPT ![1].status = "cancelling"] = robots
      BY <3>1
    <3> QED BY <1>1, <3>2
  <2>2. robots' \in Seq(TaskRec)
    BY <2>1, EmptySeq, Zenon
  <2>3. DOMAIN robots' = {}
    BY <2>1
  <2> QED BY <2>1, <2>2, <2>3 DEF RobotsInv
<1>2. CASE robots # <<>>
  <2>1. Len(robots) \in Nat /\ 1 \in 1..Len(robots) /\ robots[1] \in TaskRec
    BY <1>2, EmptySeq
  <2>2. PICK x : x = [robots[1] EXCEPT !.status = "cancelling"]
    OBVIOUS
  <2>3. x \in TaskRec /\ x.status = "cancelling"
    BY <2>1, <2>2 DEF TaskRec
  <2>4. robots' = [robots EXCEPT ![1] = x]
    BY <2>2
  <2>5. /\ robots' \in Seq(TaskRec) /\ Len(robots') = Len(robots)
        /\ \A j \in 1..Len(robots) : robots'[j] = IF j = 1 THEN x ELSE robots[j]
    BY <2>1, <2>3, <2>4, ExceptSeq
  <2>6. RobotsInv'
    BY <2>1, <2>3, <2>5 DEF RobotsInv
  <2>7. Head(robots') = x
    BY <2>1, <2>5
  <2> QED BY <2>3, <2>5, <2>6, <2>7
<1> QED BY <1>1, <1>2

LEMMA EndedAsked ==
  ASSUME robots \in Seq(TaskRec), RobotsInv, NEW k \in Key,
         robots' = <<[status |-> "cancelling", key |-> k]>> \o robots
  PROVE  /\ robots' \in Seq(TaskRec) /\ RobotsInv'
         /\ robots' # <<>> /\ Head(robots').status = "cancelling"
<1>1. PICK x \in TaskRec : x = [status |-> "cancelling", key |-> k]
  BY DEF TaskRec
<1>2. robots' = <<x>> \o robots /\ x.status = "cancelling"
  BY <1>1
<1>3. /\ robots' \in Seq(TaskRec) /\ Len(robots') = Len(robots) + 1 /\ Len(robots) \in Nat
      /\ robots'[1] = x
      /\ \A i \in 2..(Len(robots) + 1) : robots'[i] = robots[i - 1]
  BY <1>2
<1>4. Head(robots') = x /\ robots' # <<>>
  BY <1>3
<1>5. ASSUME NEW i \in DOMAIN robots', i < Len(robots') PROVE robots'[i].status = "cancelling"
  <2>1. CASE i = 1
    BY <1>2, <1>3, <2>1
  <2>2. CASE i # 1
    <3>1. i \in 2..(Len(robots) + 1) /\ i - 1 \in DOMAIN robots /\ i - 1 < Len(robots)
      BY <1>3, <1>5, <2>2
    <3> QED BY <1>3, <3>1 DEF RobotsInv
  <2> QED BY <2>1, <2>2
<1> QED BY <1>2, <1>3, <1>4, <1>5 DEF RobotsInv

LEMMA RemovedAt ==
  ASSUME NEW S, NEW s \in Seq(S), NEW j \in Nat, 1 <= j, j <= Len(s), NEW f,
         f = SubSeq(s, 1, j - 1) \o SubSeq(s, j + 1, Len(s))
  PROVE  /\ f \in Seq(S) /\ Len(f) = Len(s) - 1
         /\ \A i \in 1..(Len(s) - 1) : f[i] = s[i] \/ f[i] = s[i + 1]
<1>1. Len(s) \in Nat
  OBVIOUS
<1>2. PICK n \in Nat : n = Len(s)
  BY <1>1
<1>3. PICK p : p = SubSeq(s, 1, j - 1)
  OBVIOUS
<1>4. PICK q : q = SubSeq(s, j + 1, n)
  OBVIOUS
<1>5. /\ p \in Seq(S)
      /\ Len(p) = (IF 1 <= j - 1 THEN j - 1 - 1 + 1 ELSE 0)
      /\ \A i \in 1..(j - 1 - 1 + 1) : p[i] = s[1 + i - 1]
  <2>1. \A i \in 1..(j - 1) : s[i] \in S
    BY <1>1
  <2> QED BY <1>1, <1>3, <2>1, SubSeqProperties
<1>6. /\ q \in Seq(S)
      /\ Len(q) = (IF j + 1 <= n THEN n - (j + 1) + 1 ELSE 0)
      /\ \A i \in 1..(n - (j + 1) + 1) : q[i] = s[j + 1 + i - 1]
  <2>1. \A i \in (j + 1)..n : s[i] \in S
    BY <1>2
  <2> QED BY <1>2, <1>4, <2>1, SubSeqProperties
<1>7. Len(p) = j - 1 /\ Len(q) = n - j
  BY <1>2, <1>5, <1>6
<1>8. f = p \o q
  BY <1>2, <1>3, <1>4
<1>9. /\ f \in Seq(S) /\ Len(f) = Len(p) + Len(q)
      /\ \A i \in 1..(Len(p) + Len(q)) : f[i] = IF i <= Len(p) THEN p[i] ELSE q[i - Len(p)]
  <2>1. p \in Seq(S) /\ q \in Seq(S)
    BY <1>5, <1>6
  <2>2. /\ p \o q \in Seq(S) /\ Len(p \o q) = Len(p) + Len(q)
        /\ \A i \in 1..(Len(p) + Len(q)) :
             (p \o q)[i] = IF i <= Len(p) THEN p[i] ELSE q[i - Len(p)]
    BY <2>1, ConcatProperties, Zenon
  <2> QED BY <1>8, <2>2, Zenon
<1>10. Len(f) = n - 1 /\ \A i \in 1..(n - 1) : f[i] = IF i <= j - 1 THEN p[i] ELSE q[i - (j - 1)]
  <2>1. (j - 1) + (n - j) = n - 1
    BY <1>2
  <2>2. Len(p) + Len(q) = n - 1
    BY <1>7, <2>1, Zenon
  <2> QED BY <1>7, <1>9, <2>2, Zenon
<1>11. ASSUME NEW i \in 1..(n - 1) PROVE f[i] = s[i] \/ f[i] = s[i + 1]
  <2>1. CASE i <= j - 1
    <3>1. f[i] = p[i]
      BY <1>10, <2>1
    <3>2. i \in 1..(j - 1 - 1 + 1) /\ 1 + i - 1 = i
      BY <1>2, <2>1
    <3> QED BY <1>5, <3>1, <3>2
  <2>2. CASE ~(i <= j - 1)
    <3>1. i - (j - 1) \in 1..(n - (j + 1) + 1) /\ j + 1 + (i - (j - 1)) - 1 = i + 1
      BY <1>2, <2>2
    <3>2. f[i] = q[i - (j - 1)]
      BY <1>10, <2>2
    <3> QED BY <1>6, <3>1, <3>2
  <2> QED BY <2>1, <2>2
<1> QED BY <1>2, <1>9, <1>10, <1>11

LEMMA OneRemoved ==
  ASSUME robots \in Seq(TaskRec), RobotsInv, NEW j \in DOMAIN robots,
         robots' = SubSeq(robots, 1, j - 1) \o SubSeq(robots, j + 1, Len(robots))
  PROVE  robots' \in Seq(TaskRec) /\ RobotsInv'
<1>1. j \in Nat /\ 1 <= j /\ j <= Len(robots) /\ Len(robots) \in Nat
  OBVIOUS
<1>2. PICK f : f = SubSeq(robots, 1, j - 1) \o SubSeq(robots, j + 1, Len(robots))
  OBVIOUS
<1>3. /\ f \in Seq(TaskRec) /\ Len(f) = Len(robots) - 1
      /\ \A i \in 1..(Len(robots) - 1) : f[i] = robots[i] \/ f[i] = robots[i + 1]
  BY <1>1, <1>2, RemovedAt, ZenonT(30)
<1>4. robots' = f
  BY <1>2
<1>5. ASSUME NEW i \in DOMAIN robots', i < Len(robots') PROVE robots'[i].status = "cancelling"
  <2>1. i \in Nat /\ 1 <= i /\ i < Len(robots) - 1
    BY <1>1, <1>3, <1>4, <1>5
  <2>2. i \in 1..(Len(robots) - 1) /\ i \in DOMAIN robots /\ i + 1 \in DOMAIN robots
        /\ i < Len(robots) /\ i + 1 < Len(robots)
    BY <1>1, <2>1
  <2> QED BY <1>3, <1>4, <2>2 DEF RobotsInv
<1> QED BY <1>3, <1>4, <1>5 DEF RobotsInv

LEMMA OldestDropped ==
  ASSUME robots \in Seq(TaskRec), RobotsInv, robots # <<>>, Head(robots).status = "active",
         robots' = Tail(robots)
  PROVE  robots' = <<>> /\ RobotsInv'
<1>1. Len(robots) \in Nat /\ Len(robots) > 0 /\ robots[1].status = "active" /\ 1 \in DOMAIN robots
  OBVIOUS
<1>2. Len(robots) = 1
  <2>1. ~(1 < Len(robots))
    BY <1>1 DEF RobotsInv
  <2>2. \A n \in Nat : n > 0 /\ ~(1 < n) => n = 1
    OBVIOUS
  <2> QED BY <1>1, <2>1, <2>2, Zenon
<1>3. /\ robots' \in Seq(TaskRec) /\ Len(robots') = 0
  BY <1>2, HeadTailProperties
<1>4. robots' = <<>>
  BY <1>3, EmptySeq
<1>5. DOMAIN robots' = {}
  BY <1>4
<1> QED BY <1>4, <1>5 DEF RobotsInv

(* What _handle_stop does about the AgentTask of its session. *)
LEMMA RestAnswers ==
  ASSUME LoopInv, RobotsInv, Rows', NEW t \in Turn, turn[t].cmd = "stop", StopRest(t),
         UNCHANGED routing,
         Active(turn[t].key) = {},
         \A s \in Subs(turn[t].key) : turn[t].key \notin sub[s].from,
         inbound' = inbound \/ (inbound # <<>> /\ inbound' = Tail(inbound)),
         \A i \in DOMAIN inbound' : inbound'[i] # t /\ inbound'[i] \in Turn
  PROVE  InboundInv' /\ StopInv' /\ StopDone
<1>1. robots \in Seq(TaskRec) /\ sub' = sub
  BY DEF LoopInv, TypeOK, StopRest
<1>2. CASE StopAnswers(t) /\ robots' = robots /\ ~(robots # <<>> /\ Head(robots).key = turn[t].key)
  BY <1>1, <1>2, Answers
<1>3. CASE StopAnswers(t) /\ robots' = [robots EXCEPT ![1].status = "cancelling"]
  <2>1. robots' # <<>> => Head(robots').status # "active"
    BY <1>1, <1>3, OldestAsked
  <2> QED BY <1>1, <1>3, <2>1, Answers
<1>4. CASE /\ StopAnswers(t) /\ robots # <<>> /\ Head(robots).status = "active"
           /\ robots' = Tail(robots)
  <2>1. robots' = <<>>
    BY <1>1, <1>4, OldestDropped
  <2> QED BY <1>1, <1>4, <2>1, Answers
<1>5. CASE main' = [at |-> "forge", stop |-> t, ended |-> FALSE] /\ UNCHANGED <<turn, robots>>
  <2>1. Frame /\ StopDone
    BY <1>5, SameFrame, QuietDone
  <2>2. main'.at = "forge" /\ main'.stop = t /\ turn' = turn
    BY <1>5
  <2>3. InboundInv'
    BY <2>1, <2>2, InboundFrom DEF Frame
  <2>4. StopInv'
    <3>1. main'.at \in {"subs", "forge"} => \A u \in Turn :
            ~(/\ turn'[u].kind = "chat" /\ turn'[u].key = turn'[main'.stop].key
              /\ turn'[u].pc \in {"waiting"} \cup InFlight)
      BY <2>2 DEF Active
    <3>2. \A s \in Sub : sub'[s].pc = "running" /\ sub'[s].chat = turn'[main'.stop].key =>
                           turn'[main'.stop].key \notin sub'[s].from
      BY <1>1, <2>2 DEF Subs
    <3>3. main'.at # "tasks" /\ main'.at # "subs"
      BY <2>2
    <3> QED BY <3>1, <3>2, <3>3 DEF StopInv, Active, Subs, InFlight
  <2> QED BY <2>1, <2>3, <2>4
<1> QED BY <1>2, <1>3, <1>4, <1>5 DEF StopRest

LEMMA SubsAnswer ==
  ASSUME LoopInv, RobotsInv, Rows', NEW t \in Turn, turn[t].cmd = "stop", StopSubs(t), UNCHANGED routing,
         Active(turn[t].key) = {},
         inbound' = inbound \/ (inbound # <<>> /\ inbound' = Tail(inbound)),
         \A i \in DOMAIN inbound' : inbound'[i] # t /\ inbound'[i] \in Turn
  PROVE  InboundInv' /\ StopInv' /\ StopDone
<1>1. CASE Subs(turn[t].key) = {}
  BY <1>1, RestAnswers DEF StopSubs
<1>2. CASE Subs(turn[t].key) # {}
  <2>1. /\ sub' = [s \in Sub |-> IF s \in Subs(turn[t].key)
                                   THEN [sub[s] EXCEPT !.cancel = TRUE] ELSE sub[s]]
        /\ main' = [at |-> "subs", stop |-> t, ended |-> FALSE]
        /\ UNCHANGED <<turn, robots>>
    BY <1>2 DEF StopSubs
  <2>2. Frame
    BY <2>1, SameFrame
  <2>3. StopDone
    BY <2>2, QuietDone
  <2>4. InboundInv'
    <3>1. main'.stop = t /\ turn'[t].cmd = "stop"
      BY <2>1
    <3> QED BY <2>2, <3>1, InboundFrom DEF Frame
  <2>5. \A s \in Sub : sub'[s].pc = "running" /\ sub'[s].chat = turn[t].key => sub'[s].cancel
    <3> SUFFICES ASSUME NEW s \in Sub, sub'[s].pc = "running", sub'[s].chat = turn[t].key
                 PROVE  sub'[s].cancel
      OBVIOUS
    <3>1. sub[s] \in [pc: {"none", "running", "done"}, chat: Chat, from: SUBSET Key,
                      cancel: BOOLEAN]
      BY DEF LoopInv, TypeOK
    <3>2. CASE s \in Subs(turn[t].key)
      <4>1. sub'[s] = [sub[s] EXCEPT !.cancel = TRUE]
        BY <2>1, <3>2
      <4> QED BY <3>1, <4>1
    <3>3. CASE s \notin Subs(turn[t].key)
      <4>1. sub'[s] = sub[s]
        BY <2>1, <3>3
      <4> QED BY <3>3, <4>1 DEF Subs
    <3> QED BY <3>2, <3>3
  <2>6. main'.at = "subs" /\ main'.stop = t /\ turn' = turn
    BY <2>1
  <2>7. StopInv'
    <3>1. main'.at = "subs" =>
            /\ \A u \in Turn : ~(/\ turn'[u].kind = "chat" /\ turn'[u].key = turn'[main'.stop].key
                                 /\ turn'[u].pc \in {"waiting"} \cup InFlight)
            /\ \A s \in Sub : sub'[s].pc = "running" /\ sub'[s].chat = turn'[main'.stop].key =>
                 sub'[s].cancel \/ turn'[main'.stop].key \notin sub'[s].from
      BY <2>5, <2>6 DEF Active
    <3>2. main'.at # "tasks" /\ main'.at # "forge"
      BY <2>6
    <3> QED BY <3>1, <3>2 DEF StopInv, Active, Subs, InFlight
  <2> QED BY <2>3, <2>4, <2>7
<1> QED BY <1>1, <1>2

LEMMA StopHandled ==
  ASSUME LoopInv, RobotsInv, Rows', NEW t \in Turn, HandleStop(t)
  PROVE  InboundInv' /\ StopInv' /\ StopDone
<1>1. /\ Consume(t) /\ turn[t].cmd = "stop" /\ UNCHANGED routing
  BY DEF HandleStop, routing
<1>2. /\ inbound # <<>> /\ inbound' = Tail(inbound)
      /\ \A i \in DOMAIN inbound' : inbound'[i] # t /\ inbound'[i] \in Turn
  BY <1>1, Consumed
<1>3. CASE Active(turn[t].key) = {}
  <2>1. StopSubs(t)
    BY <1>3 DEF HandleStop
  <2> QED BY <1>1, <1>2, <1>3, <2>1, SubsAnswer
<1>4. CASE Active(turn[t].key) # {}
  <2>1. /\ turn' = [u \in Turn |-> IF u \in Active(turn[t].key)
                                     THEN [turn[u] EXCEPT !.cancel = TRUE] ELSE turn[u]]
        /\ main' = [at |-> "tasks", stop |-> t, ended |-> FALSE]
        /\ UNCHANGED <<sub, robots>>
    BY <1>4 DEF HandleStop
  <2>2. PICK k \in Key : k = turn[t].key
    BY DEF LoopInv, TypeOK, TurnRec
  <2>3. Marks(k)
    BY <1>1, <2>1, <2>2 DEF Marks
  <2>4. \A u \in Turn :
          /\ turn'[u].pc = turn[u].pc /\ turn'[u].kind = turn[u].kind
          /\ turn'[u].key = turn[u].key /\ turn'[u].cmd = turn[u].cmd
          /\ u \in Active(k) => turn'[u].cancel
    BY <2>3, MarkedRow
  <2>5. Frame
    <3>1. ASSUME NEW u \in Turn PROVE QueuedKept(u) /\ StillActive(u)
      <4>1. QueuedKept(u)
        BY <2>4 DEF QueuedKept
      <4>2. turn[u].cancel => turn'[u].cancel
        <5>1. RowOK(turn[u])
          BY DEF LoopInv, Rows
        <5>2. CASE u \in Active(k)
          BY <2>4, <5>2
        <5>3. CASE u \notin Active(k)
          <6>1. turn'[u] = turn[u]
            BY <2>3, <5>3 DEF Marks
          <6> QED BY <6>1
        <5> QED BY <5>2, <5>3
      <4>3. StillActive(u)
        BY <2>4, <4>2 DEF StillActive, Tasks
      <4> QED BY <4>1, <4>3
    <3> QED BY <3>1 DEF Frame
  <2>6. StopDone
    BY <2>5, QuietDone
  <2>7. main'.at = "tasks" /\ main'.stop = t
    BY <2>1
  <2>8. InboundInv'
    <3>1. turn'[t].cmd = "stop"
      BY <1>1, <2>4
    <3> QED BY <1>2, <2>5, <2>7, <3>1, InboundFrom DEF Frame
  <2>9. StopInv'
    <3>1. main'.at = "tasks" => \A u \in Turn :
             /\ turn'[u].kind = "chat" /\ turn'[u].key = turn'[main'.stop].key
             /\ turn'[u].pc \in {"waiting"} \cup InFlight
             => turn'[u].cancel
      BY <2>2, <2>4, <2>7 DEF Active
    <3>2. main'.at \notin {"subs", "forge"}
      BY <2>7
    <3> QED BY <3>1, <3>2 DEF StopInv, Active, InFlight
  <2> QED BY <2>6, <2>8, <2>9
<1> QED BY <1>3, <1>4

LEMMA RobotsAsked ==
  ASSUME LoopInv, RobotsInv, StopForgeEnded
  PROVE  /\ robots' \in Seq(TaskRec) /\ RobotsInv'
         /\ robots' # <<>> => Head(robots').status # "active"
<1>1. robots \in Seq(TaskRec) /\ turn[main.stop].key \in Key
  BY DEF LoopInv, TypeOK, InboundInv, StopForgeEnded, TurnRec
<1>2. CASE main.ended
  <2>1. robots' = <<[status |-> "cancelling", key |-> turn[main.stop].key]>> \o robots
    BY <1>2 DEF StopForgeEnded
  <2> QED BY <1>1, <2>1, EndedAsked
<1>3. CASE ~main.ended
  <2>1. robots' = [robots EXCEPT ![1].status = "cancelling"]
    BY <1>3 DEF StopForgeEnded
  <2> QED BY <1>1, <2>1, OldestAsked
<1> QED BY <1>2, <1>3

LEMMA StopWaited ==
  ASSUME LoopInv, StopInv, RobotsInv, Rows', StopTasksEnded \/ StopSubsEnded \/ StopForgeEnded
  PROVE  InboundInv' /\ StopInv' /\ StopDone
<1>1. PICK t \in Turn : t = main.stop
  BY DEF StopTasksEnded, StopSubsEnded, StopForgeEnded, LoopInv, InboundInv
<1>2. /\ turn[t].cmd = "stop" /\ inbound' = inbound
      /\ UNCHANGED routing /\ main.at # "idle"
  BY <1>1 DEF StopTasksEnded, StopSubsEnded, StopForgeEnded, routing, LoopInv, InboundInv
<1>3. \A i \in DOMAIN inbound' : inbound'[i] # t /\ inbound'[i] \in Turn
  BY <1>1, <1>2 DEF LoopInv, InboundInv, TypeOK
<1>4. CASE StopTasksEnded
  <2>1. Active(turn[t].key) = {}
    BY <1>1, <1>4 DEF StopTasksEnded, StopInv, Active
  <2>2. StopSubs(t)
    BY <1>1, <1>4 DEF StopTasksEnded
  <2> QED BY <1>2, <1>3, <2>1, <2>2, SubsAnswer
<1>5. CASE StopSubsEnded
  <2>1. Active(turn[t].key) = {} /\ \A s \in Subs(turn[t].key) : turn[t].key \notin sub[s].from
    BY <1>1, <1>5 DEF StopSubsEnded, StopInv, Subs
  <2>2. StopRest(t)
    BY <1>1, <1>5 DEF StopSubsEnded
  <2> QED BY <1>2, <1>3, <2>1, <2>2, RestAnswers
<1>6. CASE StopForgeEnded
  <2>1. Active(turn[t].key) = {} /\ \A s \in Subs(turn[t].key) : turn[t].key \notin sub[s].from
    BY <1>1, <1>6 DEF StopForgeEnded, StopInv
  <2>2. StopAnswers(t) /\ sub' = sub
    BY <1>1, <1>6 DEF StopForgeEnded
  <2>3. robots' # <<>> => Head(robots').status # "active"
    BY <1>6, RobotsAsked
  <2> QED BY <1>2, <1>3, <2>1, <2>2, <2>3, Answers
<1> QED BY <1>4, <1>5, <1>6

LEMMA StopStep ==
  ASSUME LoopInv, StopInv, RobotsInv, Rows', [Next]_vars
  PROVE  InboundInv' /\ StopInv' /\ StopDone
<1>1. ASSUME Quiet PROVE InboundInv' /\ StopInv' /\ StopDone
  <2>1. main.at # "idle" =>
          /\ main.stop \in Turn /\ turn'[main.stop].cmd = "stop"
          /\ \A i \in DOMAIN inbound : inbound[i] # main.stop
    <3> SUFFICES ASSUME main.at # "idle"
                 PROVE  /\ main.stop \in Turn /\ turn'[main.stop].cmd = "stop"
                        /\ \A i \in DOMAIN inbound : inbound[i] # main.stop
      OBVIOUS
    <3>1. main.stop \in Turn /\ turn[main.stop].cmd = "stop"
      BY DEF LoopInv, InboundInv
    <3>2. turn[main.stop].pc = "queued"
      BY <3>1, StopQueued
    <3> QED BY <1>1, <3>1, <3>2 DEF Quiet, Frame, QueuedKept, LoopInv, InboundInv
  <2>2. \A i \in DOMAIN inbound' : QueuedKept(inbound'[i])
    BY <1>1 DEF Quiet, Frame, LoopInv, TypeOK
  <2>3. InboundInv'
    BY <1>1, <2>1, <2>2, InboundFrom DEF Quiet, SameStop
  <2> QED BY <1>1, <2>3, QuietStop, QuietDone DEF Quiet
<1>2. ASSUME NEW t \in Turn, NEW r, Arrives(t, r), inbound' = Append(inbound, t), main' = main,
             SubsKept
      PROVE  InboundInv' /\ StopInv' /\ StopDone
  BY <1>2, ArrivesInbound, ArrivesFrame, QuietStop, QuietDone DEF SameStop
<1>3. ASSUME NEW t \in Turn, NEW k \in UserKey, NEW cmd \in {"text", "new", "stop", "restart"},
             Send(t, k, cmd)
      PROVE  InboundInv' /\ StopInv' /\ StopDone
  <2>1. PICK r \in TurnRec : Arrives(t, r)
    BY <1>3, ArrivingMoves
  <2>2. inbound' = Append(inbound, t) /\ main' = main /\ SubsKept
    BY <1>3 DEF Send, SubsKept
  <2> QED BY <1>2, <2>1, <2>2
<1>4. ASSUME NEW t \in Turn, NEW s \in Sub, Announce(s, t)
      PROVE  InboundInv' /\ StopInv' /\ StopDone
  <2>1. PICK r \in TurnRec : Arrives(t, r)
    BY <1>4, ArrivingMoves
  <2>2. inbound' = Append(inbound, t) /\ main' = main /\ sub' = [sub EXCEPT ![s] = GoneSub]
    BY <1>4 DEF Announce
  <2>3. SubsKept
    <3>1. GoneSub.pc = "done"
      BY DEF GoneSub, NoSub
    <3>2. \A q \in Sub : sub'[q] = sub[q] \/ sub'[q] = GoneSub
      BY <2>2 DEF LoopInv, TypeOK
    <3> QED BY <3>1, <3>2 DEF SubsKept
  <2> QED BY <1>2, <2>1, <2>2, <2>3
<1>5. ASSUME NEW t \in Turn, Dispatch(t) \/ HandleRestart(t)
      PROVE  InboundInv' /\ StopInv' /\ StopDone
  <2>1. Consume(t) /\ main' = main /\ turn[t].cmd # "stop"
    BY <1>5 DEF Dispatch, HandleRestart
  <2>2. /\ main.at = "idle" /\ inbound # <<>> /\ inbound' = Tail(inbound)
        /\ \A i \in DOMAIN inbound' : inbound'[i] # t /\ inbound'[i] \in Turn
    BY <2>1, Consumed
  <2>3. \A u \in Turn : u # t => turn'[u] = turn[u]
    BY <1>5 DEF Dispatch, HandleRestart, LoopInv, TypeOK
  <2>4. \A i \in DOMAIN inbound' : QueuedKept(inbound'[i])
    BY <2>2, <2>3 DEF QueuedKept
  <2>5. InboundInv'
    BY <2>1, <2>2, <2>4, InboundFrom
  <2>6. StopDone
    <3> SUFFICES ASSUME NEW m \in Turn, turn[m].cmd = "stop", turn'[m].out = "replied"
                 PROVE  FALSE
      BY DEF StopDone
    <3> QED BY <2>1, <2>3, StopQueued
  <2> QED BY <2>1, <2>2, <2>5, <2>6, IdleStop
<1>6. ASSUME VolatileLost PROVE InboundInv' /\ StopInv' /\ StopDone
  <2>1. inbound' = <<>> /\ main'.at = "idle"
    BY <1>6 DEF VolatileLost, Idle
  <2>2. InboundInv'
    BY <2>1 DEF InboundInv
  <2>3. StopDone
    <3> SUFFICES ASSUME NEW m \in Turn, turn[m].cmd = "stop", turn'[m].out = "replied"
                 PROVE  FALSE
      BY DEF StopDone
    <3> QED BY <1>6, LostRow, StopQueued
  <2> QED BY <2>1, <2>2, <2>3, IdleStop
<1>7. CASE LoopStep
  <2>1. ASSUME NEW t \in Turn, HandleStop(t) PROVE InboundInv' /\ StopInv' /\ StopDone
    BY <2>1, StopHandled
  <2>2. CASE StopTasksEnded \/ StopSubsEnded \/ StopForgeEnded
    BY <2>2, StopWaited
  <2> QED BY <1>5, <1>7, <2>1, <2>2 DEF LoopStep
<1>8. CASE Restart \/ Crash
  BY <1>6, <1>8 DEF Restart, Crash
<1>9. CASE \/ \E t \in Turn, k \in Direct, c \in Chat : BeginDirect(t, k, c)
           \/ \E t \in Turn :
                \/ TurnStep(t) \/ Apologise(t) \/ CronRearmed(t)
                \/ MessageDefault(t) \/ CreateTask(t)
                \/ \E c \in Chat : MessageTo(t, c)
                \/ \E s \in Sub : Spawn(t, s)
           \/ \E s \in Sub : SubCancelled(s)
           \/ \E i \in DOMAIN robots : TaskEnds(i)
           \/ UNCHANGED vars
  BY <1>1, <1>9, QuietSteps
<1> QED BY <1>3, <1>4, <1>7, <1>8, <1>9 DEF Next

-----------------------------------------------------------------------------
(* The types of what the turns do not move. *)
SubRec == [pc: {"none", "running", "done"}, chat: Chat, from: SUBSET Key, cancel: BOOLEAN]
MainRec == [at: {"idle", "tasks", "subs", "forge"}, stop: 0..MaxTurns, ended: BOOLEAN]
OthersTyped ==
  /\ inbound \in Seq(Turn)
  /\ main \in MainRec
  /\ sub \in [Sub -> SubRec]
  /\ restarting \in BOOLEAN
  /\ crashes \in 0..MaxCrashes

LEMMA SmallTypes ==
  /\ NoSub \in SubRec /\ GoneSub \in SubRec /\ NoSub.cancel = FALSE
  /\ Idle \in MainRec
<1>1. FALSE \in BOOLEAN /\ Nowhere \in Chat /\ Nowhere \in Key /\ 0 \in 0..MaxTurns
  BY Places, SessionsAssumption
<1>2. NoSub \in SubRec
  BY <1>1 DEF NoSub, SubRec
<1>3. GoneSub \in SubRec
  BY <1>2 DEF GoneSub, SubRec
<1> QED BY <1>1, <1>2, <1>3 DEF NoSub, Idle, MainRec

LEMMA StopMains ==
  ASSUME OthersTyped, NEW t \in Turn
  PROVE  /\ StopAnswers(t) => main' \in MainRec
         /\ main' = [at |-> "tasks", stop |-> t, ended |-> FALSE] => main' \in MainRec
         /\ StopRest(t) => main' \in MainRec /\ sub' = sub
<1>1. t \in 0..MaxTurns /\ FALSE \in BOOLEAN
  BY SessionsAssumption DEF Turn
<1>2. \A at \in {"tasks", "subs", "forge"} : [at |-> at, stop |-> t, ended |-> FALSE] \in MainRec
  BY <1>1 DEF MainRec
<1>3. StopAnswers(t) => main' \in MainRec
  BY SmallTypes DEF StopAnswers
<1> QED BY <1>2, <1>3 DEF StopRest

LEMMA StopSubsTyped ==
  ASSUME OthersTyped, NEW t \in Turn, StopSubs(t)
  PROVE  main' \in MainRec /\ sub' \in [Sub -> SubRec]
<1>1. CASE StopRest(t)
  BY <1>1, StopMains DEF OthersTyped
<1>2. CASE /\ sub' = [s \in Sub |-> IF s \in Subs(turn[t].key)
                                      THEN [sub[s] EXCEPT !.cancel = TRUE] ELSE sub[s]]
           /\ main' = [at |-> "subs", stop |-> t, ended |-> FALSE]
  <2>1. \A s \in Sub : sub[s] \in SubRec /\ [sub[s] EXCEPT !.cancel = TRUE] \in SubRec
    <3>1. TRUE \in BOOLEAN
      OBVIOUS
    <3> QED BY <3>1 DEF OthersTyped, SubRec
  <2>2. sub' \in [Sub -> SubRec]
    BY <1>2, <2>1
  <2>3. t \in 0..MaxTurns /\ FALSE \in BOOLEAN
    BY SessionsAssumption DEF Turn
  <2>4. main' \in MainRec
    BY <1>2, <2>3 DEF MainRec
  <2> QED BY <2>2, <2>4
<1> QED BY <1>1, <1>2 DEF StopSubs

LEMMA Consumes ==
  ASSUME OthersTyped, NEW t \in Turn, Consume(t)
  PROVE  inbound' \in Seq(Turn)
<1>1. inbound \in Seq(Turn) /\ inbound # <<>> /\ inbound' = Tail(inbound)
  BY DEF OthersTyped, Consume
<1> QED BY <1>1

LEMMA OthersStep ==
  ASSUME LoopInv, [Next]_vars
  PROVE  OthersTyped'
<1>1. OthersTyped /\ ctx \in [chat: Chat, key: Key] /\ \A t \in Turn : turn[t].key \in Key
  BY DEF LoopInv, TypeOK, OthersTyped, SubRec, MainRec, TurnRec
<1>2. ASSUME UNCHANGED <<inbound, main, sub, robots, restarting, crashes>> PROVE OthersTyped'
  BY <1>1, <1>2 DEF OthersTyped
<1>3. ASSUME NEW s \in Sub, NEW r \in SubRec, sub' = [sub EXCEPT ![s] = r] PROVE sub' \in [Sub -> SubRec]
  BY <1>1, <1>3 DEF OthersTyped
<1>4. ASSUME NEW t \in Turn, NEW k \in UserKey, NEW cmd \in {"text", "new", "stop", "restart"},
             Send(t, k, cmd)
      PROVE  OthersTyped'
  BY <1>1, <1>4 DEF OthersTyped, Send
<1>5. ASSUME NEW t \in Turn, NEW s \in Sub, Announce(s, t) PROVE OthersTyped'
  <2>1. sub' \in [Sub -> SubRec]
    BY <1>3, <1>5, SmallTypes DEF Announce
  <2> QED BY <1>1, <1>5, <2>1 DEF OthersTyped, Announce
<1>6. ASSUME NEW s \in Sub, SubCancelled(s) PROVE OthersTyped'
  <2>1. sub' \in [Sub -> SubRec]
    BY <1>3, <1>6, SmallTypes DEF SubCancelled
  <2> QED BY <1>1, <1>6, <2>1 DEF OthersTyped, SubCancelled
<1>7. ASSUME NEW t \in Turn, NEW s \in Sub, Spawn(t, s) PROVE OthersTyped'
  <2>1. PICK from \in SUBSET Key : from = IF turn[t].kind = "chat" THEN {turn[t].key} ELSE {}
    BY <1>1
  <2>2. PICK r : r = [NoSub EXCEPT !.pc = "running", !.chat = ctx.chat, !.from = from]
    OBVIOUS
  <2>3. r \in SubRec
    BY <1>1, <2>2, SmallTypes DEF SubRec
  <2>4. sub' = [sub EXCEPT ![s] = r]
    BY <1>7, <2>1, <2>2, Zenon DEF Spawn
  <2>5. sub' \in [Sub -> SubRec]
    BY <1>3, <2>3, <2>4
  <2> QED BY <1>1, <1>7, <2>5 DEF OthersTyped, Spawn
<1>8. ASSUME NEW t \in Turn, CreateTask(t) PROVE OthersTyped'
  BY <1>1, <1>8 DEF OthersTyped, CreateTask
<1>9. ASSUME NEW i \in DOMAIN robots, TaskEnds(i) PROVE OthersTyped'
  <2>1. PICK e \in BOOLEAN : main' = [main EXCEPT !.ended = e]
    BY <1>1, <1>9 DEF TaskEnds, OthersTyped, MainRec
  <2>2. main' \in MainRec
    BY <1>1, <2>1 DEF OthersTyped, MainRec
  <2> QED BY <1>1, <1>9, <2>2 DEF OthersTyped, TaskEnds
<1>10. ASSUME NEW t \in Turn, Dispatch(t) \/ HandleRestart(t) PROVE OthersTyped'
  <2>1. inbound' \in Seq(Turn)
    BY <1>1, <1>10, Consumes DEF Dispatch, HandleRestart
  <2>2. restarting' \in BOOLEAN
    BY <1>1, <1>10 DEF Dispatch, HandleRestart, OthersTyped
  <2> QED BY <1>1, <1>10, <2>1, <2>2 DEF Dispatch, HandleRestart, OthersTyped
<1>11. ASSUME NEW t \in Turn, HandleStop(t) PROVE OthersTyped'
  <2>1. inbound' \in Seq(Turn)
    BY <1>1, <1>11, Consumes DEF HandleStop
  <2>2. main' \in MainRec /\ sub' \in [Sub -> SubRec]
    <3>1. CASE StopSubs(t)
      BY <1>1, <3>1, StopSubsTyped
    <3>2. CASE main' = [at |-> "tasks", stop |-> t, ended |-> FALSE] /\ UNCHANGED sub
      BY <1>1, <3>2, StopMains DEF OthersTyped
    <3> QED BY <1>11, <3>1, <3>2 DEF HandleStop
  <2> QED BY <1>1, <1>11, <2>1, <2>2 DEF HandleStop, OthersTyped
<1>12. CASE StopTasksEnded \/ StopSubsEnded \/ StopForgeEnded
  <2>1. main.stop \in Turn
    BY <1>12 DEF StopTasksEnded, StopSubsEnded, StopForgeEnded, LoopInv, InboundInv
  <2>2. main' \in MainRec /\ sub' \in [Sub -> SubRec]
    <3>1. CASE StopTasksEnded
      BY <1>1, <2>1, <3>1, StopSubsTyped DEF StopTasksEnded
    <3>2. CASE StopSubsEnded
      BY <1>1, <2>1, <3>2, StopMains DEF StopSubsEnded, OthersTyped
    <3>3. CASE StopForgeEnded
      BY <1>1, <2>1, <3>3, StopMains DEF StopForgeEnded, OthersTyped
    <3> QED BY <1>12, <3>1, <3>2, <3>3
  <2> QED BY <1>1, <1>12, <2>2 DEF StopTasksEnded, StopSubsEnded, StopForgeEnded, OthersTyped
<1>13. CASE Restart \/ Crash
  <2>1. VolatileLost /\ crashes < MaxCrashes /\ crashes' = crashes + 1
    BY <1>13 DEF Restart, Crash
  <2>2. crashes' \in 0..MaxCrashes
    BY <1>1, <2>1, LoopAssumption DEF OthersTyped
  <2>3. sub' \in [Sub -> SubRec]
    <3>1. \A s \in Sub : sub[s] \in SubRec
      BY <1>1 DEF OthersTyped
    <3>2. sub' = [s \in Sub |-> IF sub[s].pc = "running" THEN GoneSub ELSE sub[s]]
      BY <2>1 DEF VolatileLost
    <3> HIDE DEF SubRec
    <3> QED BY <3>1, <3>2, SmallTypes
  <2>4. inbound' \in Seq(Turn) /\ restarting' \in BOOLEAN /\ main' = Idle
    <3>1. inbound' = <<>> /\ restarting' = FALSE /\ main' = Idle
      BY <2>1, Zenon DEF VolatileLost
    <3>2. <<>> \in Seq(Turn) /\ FALSE \in BOOLEAN
      OBVIOUS
    <3> QED BY <3>1, <3>2, Zenon
  <2> QED BY <1>1, <2>2, <2>3, <2>4, SmallTypes DEF OthersTyped
<1>14. ASSUME NEW t \in Turn, TurnStep(t) \/ Apologise(t) \/ CronRearmed(t) \/ MessageDefault(t)
              \/ \E c \in Chat : MessageTo(t, c)
       PROVE  OthersTyped'
  <2>1. CASE TurnStep(t)
    BY <1>2, <2>1 DEF TurnStep, Acquire, Finish, ConsolidationFails, NewRefused,
                      ConsolidationSucceeds, NewSession, Unwind
  <2>2. CASE ~TurnStep(t)
    BY <1>2, <1>14, <2>2 DEF Apologise, CronRearmed, MessageDefault, MessageTo
  <2> QED BY <2>1, <2>2
<1>15. ASSUME NEW t \in Turn, NEW k \in Direct, NEW c \in Chat, BeginDirect(t, k, c)
       PROVE  OthersTyped'
  BY <1>2, <1>15 DEF BeginDirect
<1>16. CASE UNCHANGED vars
  BY <1>2, <1>16 DEF vars, loopVars
<1> QED BY <1>4, <1>5, <1>6, <1>7, <1>8, <1>9, <1>10, <1>11, <1>12, <1>13, <1>14, <1>15, <1>16
        DEF Next, LoopStep

(* One step of the AgentTasks. *)
LEMMA RobotsStep ==
  ASSUME LoopInv, RobotsInv, [Next]_vars
  PROVE  robots' \in Seq(TaskRec) /\ RobotsInv'
<1>1. robots \in Seq(TaskRec) /\ ctx.key \in Key
  BY DEF LoopInv, TypeOK
<1>2. ASSUME UNCHANGED robots PROVE robots' \in Seq(TaskRec) /\ RobotsInv'
  BY <1>1, <1>2 DEF RobotsInv
<1>3. ASSUME NEW t \in Turn, StopRest(t) PROVE robots' \in Seq(TaskRec) /\ RobotsInv'
  <2>1. CASE robots' = [robots EXCEPT ![1].status = "cancelling"]
    BY <1>1, <2>1, OldestAsked
  <2>2. CASE robots # <<>> /\ Head(robots).status = "active" /\ robots' = Tail(robots)
    BY <1>1, <2>2, OldestDropped
  <2> QED BY <1>2, <1>3, <2>1, <2>2 DEF StopRest
<1>4. ASSUME NEW t \in Turn, StopSubs(t) PROVE robots' \in Seq(TaskRec) /\ RobotsInv'
  BY <1>2, <1>3, <1>4 DEF StopSubs
<1>5. ASSUME NEW t \in Turn, HandleStop(t) PROVE robots' \in Seq(TaskRec) /\ RobotsInv'
  BY <1>2, <1>4, <1>5 DEF HandleStop
<1>6. CASE StopTasksEnded \/ StopSubsEnded
  <2>1. main.stop \in Turn
    BY <1>6 DEF StopTasksEnded, StopSubsEnded, LoopInv, InboundInv
  <2> QED BY <1>3, <1>4, <1>6, <2>1 DEF StopTasksEnded, StopSubsEnded
<1>7. CASE LoopStep
  <2>1. ASSUME NEW t \in Turn, Dispatch(t) \/ HandleRestart(t) PROVE robots' = robots
    BY <2>1 DEF Dispatch, HandleRestart
  <2> QED BY <1>2, <1>5, <1>6, <1>7, <2>1, RobotsAsked DEF LoopStep
<1>8. ASSUME NEW t \in Turn, CreateTask(t) PROVE robots' \in Seq(TaskRec) /\ RobotsInv'
  <2>1. PICK x \in TaskRec : robots' = <<x>>
    BY <1>1, <1>8 DEF CreateTask, TaskRec
  <2> QED BY <2>1 DEF RobotsInv
<1>9. ASSUME NEW i \in DOMAIN robots, TaskEnds(i) PROVE robots' \in Seq(TaskRec) /\ RobotsInv'
  BY <1>1, <1>9, OneRemoved DEF TaskEnds
<1>10. CASE Restart \/ Crash
  BY <1>2, <1>10 DEF Restart, Crash, VolatileLost
<1>11. ASSUME NEW t \in Turn, TurnStep(t) PROVE robots' = robots
  BY <1>11 DEF TurnStep, Acquire, Finish, ConsolidationFails, NewRefused, ConsolidationSucceeds,
               NewSession, Unwind
<1>12. ASSUME NEW t \in Turn,
              \/ Apologise(t) \/ CronRearmed(t) \/ MessageDefault(t)
              \/ \E c \in Chat : MessageTo(t, c)
              \/ \E s \in Sub : Spawn(t, s) \/ Announce(s, t)
       PROVE  robots' = robots
  BY <1>12 DEF Apologise, CronRearmed, MessageDefault, MessageTo, Spawn, Announce
<1>13. CASE \/ \E t \in Turn, k \in UserKey, cmd \in {"text", "new", "stop", "restart"} : Send(t, k, cmd)
            \/ \E t \in Turn, k \in Direct, c \in Chat : BeginDirect(t, k, c)
            \/ \E s \in Sub : SubCancelled(s)
            \/ UNCHANGED vars
  BY <1>2, <1>13 DEF Send, BeginDirect, SubCancelled, vars, loopVars
<1> QED BY <1>2, <1>7, <1>8, <1>9, <1>10, <1>11, <1>12, <1>13 DEF Next

-----------------------------------------------------------------------------
(* The invariant of the conversation, and what follows from it. *)
ConvInv == LoopInv /\ StopInv /\ RobotsInv

LEMMA InitConv == Init => ConvInv
<1> SUFFICES ASSUME Init PROVE ConvInv
  OBVIOUS
<1>1. /\ turn = [t \in Turn |-> NoTurn] /\ inbound = <<>> /\ queue = <<>> /\ sent = FALSE
      /\ main = Idle /\ sub = [s \in Sub |-> NoSub] /\ robots = <<>>
      /\ ctx = [chat |-> Nowhere, key |-> Nowhere] /\ restarting = FALSE /\ crashes = 0
      /\ cache = [k \in Key |-> Closed] /\ disk = [k \in Key |-> Closed]
      /\ history = {} /\ memory = {} /\ spoken = [k \in Key |-> {}]
  BY DEF Init, SessionsInit
<1>2. SessionsTypeOK
  BY <1>1, ClosedOK DEF SessionsTypeOK
<1>3. PICK r : r = NoTurn
  OBVIOUS
<1>4. /\ r \in TurnRec /\ r.kind = "none" /\ r.pc = "none" /\ r.cmd = "text" /\ r.out = "none"
      /\ ~r.cancel /\ ~r.astray /\ ~r.own /\ ~r.overlap
  BY <1>3, NoTurnOK
<1>5. turn \in [Turn -> TurnRec] /\ \A t \in Turn : turn[t] = r
  BY <1>1, <1>3, <1>4
<1>6. FALSE \in BOOLEAN /\ <<>> \in Seq(Turn) /\ 0 \in 0..MaxCrashes
  BY LoopAssumption
<1>7. sub \in [Sub -> SubRec]
  BY <1>1, SmallTypes
<1>8. ctx \in [chat: Chat, key: Key]
  BY <1>1, Places
<1>9. TypeOK
  <2>1. inbound \in Seq(Turn) /\ queue \in Seq(Turn) /\ sent \in BOOLEAN /\ restarting \in BOOLEAN
        /\ crashes \in 0..MaxCrashes
    BY <1>1, <1>6
  <2>2. /\ main \in MainRec
        /\ robots \in Seq(TaskRec)
    BY <1>1, SmallTypes
  <2> QED BY <1>2, <1>5, <1>7, <1>8, <2>1, <2>2 DEF TypeOK, SubRec, MainRec
<1>10. RowOK(r)
  BY <1>4 DEF RowOK
<1>11. Rows
  BY <1>5, <1>10 DEF Rows
<1>12. LockInv /\ DirectInv /\ RoutingInv
  BY <1>4, <1>5 DEF LockInv, DirectInv, RoutingInv, IsDirect, Routes, InFlight
<1>13. InboundInv /\ StopInv /\ RobotsInv
  BY <1>1 DEF InboundInv, StopInv, RobotsInv, Idle
<1>14. MemoryInv
  <2>1. Len(Closed.turns) = 0 /\ Closed.lc <= 0
    BY ClosedOK
  <2>2. \A k \in Key : cache[k] = Closed /\ disk[k] = Closed
    BY <1>1
  <2> QED BY <1>4, <1>5, <2>1, <2>2, ClosedOK DEF MemoryInv
<1> QED BY <1>9, <1>11, <1>12, <1>13, <1>14 DEF ConvInv, LoopInv

LEMMA ConvStep ==
  ASSUME ConvInv, [Next]_vars
  PROVE  ConvInv' /\ StopDone
<1>1. LoopInv /\ StopInv /\ RobotsInv
  BY DEF ConvInv
<1>2. TurnsMove /\ SessionsMove
  BY <1>1, EveryMove, SessionsStep
<1>3. TurnsInv'
  BY <1>1, <1>2, TurnsKeep
<1>4. SessionsTypeOK' /\ MemoryInv'
  BY <1>1, <1>2, SessionsKeep
<1>5. Rows'
  BY <1>3 DEF TurnsInv
<1>6. InboundInv' /\ StopInv' /\ StopDone
  BY <1>1, <1>5, StopStep
<1>7. OthersTyped'
  BY <1>1, OthersStep
<1>8. robots' \in Seq(TaskRec) /\ RobotsInv'
  BY <1>1, RobotsStep
<1>9. TypeOK'
  BY <1>3, <1>4, <1>7, <1>8 DEF TurnsInv, TurnsTyped, OthersTyped, SubRec, MainRec, TypeOK
<1> QED BY <1>3, <1>4, <1>6, <1>8, <1>9 DEF ConvInv, LoopInv, TurnsInv

LEMMA Conversing == Spec => []ConvInv
<1>1. ConvInv /\ [Next]_vars => ConvInv'
  BY ConvStep
<1> QED BY <1>1, InitConv, PTL DEF Spec

(* The variables of the loop keep their types, whatever crashes and stops   *)
(* come between (loop.py, session/manager.py).                             *)
THEOREM LoopTypes == Spec => []TypeOK
<1>1. ConvInv => TypeOK
  BY DEF ConvInv, LoopInv
<1> QED BY <1>1, Conversing, PTL

(* The routing of the tools and the "already sent" flag are attributes the  *)
(* turns share (_set_tool_context, MessageTool._sent_in_turn).  For any     *)
(* number of chats, messages, subagents and direct turns, a turn that no    *)
(* turn outside _processing_lock met never sends, spawns or creates for     *)
(* another chat, and is silent only when it has reached its own.           *)
THEOREM TurnsDoNotMix == Spec => []OwnChat
<1>1. ConvInv => OwnChat
  BY DEF ConvInv, LoopInv, Rows, RowOK, OwnChat
<1> QED BY <1>1, Conversing, PTL

(* _handle_stop cancels, waits, and answers.  When it answers no task of    *)
(* its session is left, although the loop has served other sessions in     *)
(* between; no subagent one of its turns spawned is left, and its AgentTask *)
(* is not active.                                                          *)
THEOREM StopIsComplete == Spec => StopLeavesNothing
<1>1. ConvInv /\ [Next]_vars =>
        [\A m \in Turn, k \in UserKey :
           turn[m].cmd = "stop" /\ turn[m].key = k /\ turn'[m].out = "replied" =>
             /\ Active(k)' = {}
             /\ \A s \in Subs(k)' : k \notin sub'[s].from
             /\ robots' # <<>> /\ Head(robots').key = k => Head(robots').status # "active"]_vars
  BY ConvStep DEF StopDone
<1> QED BY <1>1, Conversing, PTL DEF Spec, StopLeavesNothing

-----------------------------------------------------------------------------
(* One step of what is remembered, when the model gives every archive its   *)
(* entry.                                                                  *)
LEMMA RememberedStep ==
  ASSUME LoopInv, SessionsMove, Remembered, ~Omits
  PROVE  Remembered'
<1>1. \A entry \in Entries : entry
  BY DEF Entries
<1>2. \A t \in Turn : turn[t].key \in Key /\ turn[t].plan \in Plan
  BY DEF LoopInv, TypeOK, TurnRec
<1>3. \A k \in Key : disk[k] \in Session
  BY CacheOf
<1>4. ASSUME UNCHANGED <<disk, spoken>>, history \subseteq history' PROVE Remembered'
  BY <1>4 DEF Remembered, Live
<1>5. CASE UNCHANGED sessionVars \/ (\E k \in Key : Open(k)) \/ ForgetCache
  BY <1>4, <1>5 DEF sessionVars, Open, ForgetCache
<1>6. ASSUME NEW t \in Turn, SaveTurn(turn[t].key, t) PROVE Remembered'
  <2>1. PICK k \in Key : k = turn[t].key
    BY <1>2
  <2>2. PICK s \in Session : /\ s = WithTurn(k, t) /\ s.turns = Append(disk[k].turns, t)
                             /\ s.lc = disk[k].lc
    BY <2>1, WithTurnIs
  <2>3. Save(k, s) /\ history' = history /\ spoken' = [spoken EXCEPT ![k] = @ \cup {t}]
    BY <1>6, <2>1, <2>2 DEF SaveTurn
  <2>4. /\ disk'[k].turns = s.turns /\ disk'[k].lc = s.lc
        /\ \A j \in Key : j # k => disk'[j] = disk[j]
    BY <2>3, SavedIs DEF LoopInv
  <2>5. /\ disk[k].turns \in Seq(Turn) /\ disk[k].lc \in Nat
        /\ disk[k].lc <= Len(disk[k].turns) /\ Len(disk[k].turns) \in Nat
    BY <1>3, CacheOf DEF Session, CacheOK
  <2>6. PICK q : q = disk[k].turns
    OBVIOUS
  <2>7. PICK p : p = Append(q, t)
    OBVIOUS
  <2>8. /\ q \in Seq(Turn) /\ Len(p) = Len(q) + 1 /\ p[Len(q) + 1] = t /\ Len(q) \in Nat
        /\ \A i \in 1..Len(q) : p[i] = q[i]
    BY <2>5, <2>6, <2>7
  <2>9. Live(k) = {q[i] : i \in (disk[k].lc + 1)..Len(q)}
    BY <2>6 DEF Live
  <2>10. Live(k)' = {p[i] : i \in (disk[k].lc + 1)..Len(p)}
    BY <2>2, <2>4, <2>6, <2>7 DEF Live
  <2>11. \A i \in (disk[k].lc + 1)..Len(q) : i \in (disk[k].lc + 1)..Len(p) /\ p[i] = q[i]
    BY <2>5, <2>6, <2>8
  <2>12. Len(p) \in (disk[k].lc + 1)..Len(p) /\ p[Len(p)] = t
    BY <2>5, <2>6, <2>8
  <2>13. Live(k) \cup {t} \subseteq Live(k)'
    BY <2>9, <2>10, <2>11, <2>12
  <2>14. ASSUME NEW j \in Key PROVE spoken'[j] \subseteq Live(j)' \cup history'
    <3>1. spoken[j] \subseteq Live(j) \cup history
      BY DEF Remembered
    <3>2. CASE j = k
      <4>1. spoken'[k] = spoken[k] \cup {t}
        BY <2>3 DEF LoopInv, TypeOK, SessionsTypeOK
      <4> QED BY <2>3, <2>13, <3>1, <3>2, <4>1
    <3>3. CASE j # k
      <4>1. spoken'[j] = spoken[j] /\ Live(j)' = Live(j)
        BY <2>3, <2>4, <3>3 DEF Live, LoopInv, TypeOK, SessionsTypeOK
      <4> QED BY <2>3, <3>1, <4>1
    <3> QED BY <3>2, <3>3
  <2> QED BY <2>14 DEF Remembered
<1>7. ASSUME NEW k \in Key, spoken' = spoken, history \subseteq history',
             \A j \in Key : j # k => disk'[j] = disk[j],
             Live(k) \subseteq Live(k)' \cup history'
      PROVE  Remembered'
  <2>1. ASSUME NEW j \in Key PROVE spoken'[j] \subseteq Live(j)' \cup history'
    <3>1. spoken[j] \subseteq Live(j) \cup history
      BY DEF Remembered
    <3>2. CASE j = k
      BY <1>7, <3>1, <3>2
    <3>3. CASE j # k
      <4>1. Live(j)' = Live(j)
        BY <1>7, <3>3 DEF Live
      <4> QED BY <1>7, <3>1, <4>1
    <3> QED BY <3>2, <3>3
  <2> QED BY <2>1 DEF Remembered
<1>8. ASSUME NEW t \in Turn, turn[t].pc \in {"archiving", "first", "last"}
      PROVE  /\ turn[t].plan.end <= Len(disk[turn[t].key].turns)
             /\ Chunk(turn[t].key, turn[t].plan) =
                  {disk[turn[t].key].turns[i] :
                     i \in (disk[turn[t].key].lc + 1)..turn[t].plan.end}
  <2>1. Len(disk[turn[t].key].turns) \in Nat
    BY <1>2, <1>3 DEF Session
  <2>2. \/ turn[t].plan.end <= Len(disk[turn[t].key].turns)
        \/ turn[t].plan.end = Len(disk[turn[t].key].turns)
    BY <1>8 DEF LoopInv, MemoryInv
  <2>3. turn[t].plan.end <= Len(disk[turn[t].key].turns)
    BY <2>1, <2>2
  <2> QED BY <1>2, <2>3, ChunkIs
<1>9. ASSUME NEW t \in Turn, NEW entry \in Entries, turn[t].pc \in {"first", "last"},
             AdvanceConsolidated(turn[t].key, turn[t].plan, entry)
      PROVE  Remembered'
  <2>1. PICK k \in Key : k = turn[t].key
    BY <1>2
  <2>2. PICK s \in Session : /\ s = Consolidated(k, turn[t].plan) /\ s.turns = disk[k].turns
                             /\ s.lc = turn[t].plan.end
    BY <1>2, <2>1, ConsolidatedIs
  <2>3. Save(k, s) /\ spoken' = spoken /\ history' = history \cup Chunk(k, turn[t].plan)
    BY <1>1, <1>9, <2>1, <2>2 DEF AdvanceConsolidated, WriteArchive
  <2>4. /\ disk'[k].turns = disk[k].turns /\ disk'[k].lc = turn[t].plan.end
        /\ \A j \in Key : j # k => disk'[j] = disk[j]
    BY <2>2, <2>3, SavedIs DEF LoopInv
  <2>5. Chunk(k, turn[t].plan) = {disk[k].turns[i] : i \in (disk[k].lc + 1)..turn[t].plan.end}
    BY <1>8, <1>9, <2>1
  <2>6. Live(k)' = {disk[k].turns[i] : i \in (turn[t].plan.end + 1)..Len(disk[k].turns)}
    BY <2>4 DEF Live
  <2>7. disk[k].lc \in Nat /\ turn[t].plan.end \in Nat /\ Len(disk[k].turns) \in Nat
    BY <1>2, <1>3 DEF Session, Plan
  <2>8. \A i \in (disk[k].lc + 1)..Len(disk[k].turns) :
          \/ i \in (disk[k].lc + 1)..turn[t].plan.end
          \/ i \in (turn[t].plan.end + 1)..Len(disk[k].turns)
    BY <2>7
  <2>9. Live(k) \subseteq Live(k)' \cup history'
    BY <2>3, <2>5, <2>6, <2>8, Zenon DEF Live
  <2>10. history \subseteq history'
    BY <2>3
  <2> QED BY <1>7, <2>3, <2>4, <2>9, <2>10
<1>10. ASSUME NEW t \in Turn, NEW entry \in Entries,
              turn[t].pc = "archiving" \/ Unconsolidated(GetOrCreate(turn[t].key)) = <<>>,
              ClearSession(turn[t].key, turn[t].plan, entry)
       PROVE  Remembered'
  <2>1. PICK k \in Key : k = turn[t].key
    BY <1>2
  <2>2. spoken' = spoken /\ \A j \in Key : j # k => disk'[j] = disk[j]
    BY <1>10, <2>1 DEF ClearSession, LoopInv, TypeOK, SessionsTypeOK
  <2>3. CASE Unconsolidated(GetOrCreate(k)) = <<>>
    <3>1. Live(k) = {} /\ history' = history
      BY <1>10, <2>1, <2>3, NoneUnconsolidated DEF ClearSession
    <3>2. Live(k) \subseteq Live(k)' \cup history'
      BY <3>1
    <3> QED BY <1>7, <2>2, <3>1, <3>2
  <2>4. CASE Unconsolidated(GetOrCreate(k)) # <<>>
    <3>1. turn[t].pc = "archiving" /\ history' = history \cup Chunk(k, turn[t].plan)
      BY <1>1, <1>10, <2>1, <2>4 DEF ClearSession, WriteArchive
    <3>2. turn[t].plan.end = Len(disk[k].turns)
      BY <2>1, <3>1 DEF LoopInv, MemoryInv
    <3>3. Chunk(k, turn[t].plan) = {disk[k].turns[i] : i \in (disk[k].lc + 1)..turn[t].plan.end}
      BY <1>8, <2>1, <3>1
    <3>4. Chunk(k, turn[t].plan) = Live(k)
      BY <3>2, <3>3 DEF Live
    <3>5. Live(k) \subseteq Live(k)' \cup history' /\ history \subseteq history'
      BY <3>1, <3>4
    <3> QED BY <1>7, <2>2, <3>5
  <2> QED BY <2>3, <2>4
<1>11. ASSUME NEW t \in Turn, NEW entry \in Entries,
              CrashAfterArchive(turn[t].key, turn[t].plan, entry)
       PROVE  Remembered'
  BY <1>1, <1>4, <1>11 DEF CrashAfterArchive, WriteArchive
<1> QED BY <1>5, <1>6, <1>9, <1>10, <1>11 DEF SessionsMove

(* Consolidation in the background, /new and crashes between the append to  *)
(* HISTORY.md and the save (memory.py, session/manager.py): with every      *)
(* archive given its history_entry, each saved turn is in the prompt of its *)
(* session or in HISTORY.md, for any number of sessions, turns and rounds.  *)
THEOREM TurnsAreRemembered ==
  ASSUME ~Omits
  PROVE  Spec => []NothingForgotten
<1>1. Init => Remembered
  BY DEF Init, SessionsInit, Remembered
<1>2. ConvInv /\ Remembered /\ [Next]_vars => Remembered'
  BY RememberedStep, SessionsStep DEF ConvInv
<1>3. ConvInv /\ Remembered => NothingForgotten
  <2> SUFFICES ASSUME ConvInv, Remembered, NEW k \in Key
               PROVE  spoken[k] \subseteq Elems(Unconsolidated(GetOrCreate(k))) \cup history
    BY DEF NothingForgotten
  <2>1. Elems(Unconsolidated(GetOrCreate(k))) = Live(k)
    BY LiveIs DEF ConvInv
  <2> QED BY <2>1 DEF Remembered
<1>4. Spec => []Remembered
  BY <1>1, <1>2, Conversing, PTL DEF Spec
<1> QED BY <1>3, <1>4, Conversing, PTL

=============================================================================
