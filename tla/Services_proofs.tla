--------------------------- MODULE Services_proofs ---------------------------
(***************************************************************************)
(* Proofs about parts of the program that MCServices checks, each a        *)
(* specification of its own: the verification service, the providers, the  *)
(* gateway's connections, and experience with Skill evolution.             *)
(***************************************************************************)
EXTENDS Verifier, Providers, Gateway, Experience, FiniteSetTheorems, TLAPS

VerifierSpec == VerifierInit /\ [][VerifierNext]_verifierVars
ProviderSpec == ProviderInit /\ [][ProviderNext]_providerVars

-----------------------------------------------------------------------------
(* The verification service.  What the argument needs of the types.        *)
VerifierTyped ==
  /\ process \in Child \cup {NoChild}
  /\ stopping \in Child \cup {NoChild, "no", "done"}
  /\ worker \in [Worker -> [pc: {"rest", "start", "poll", "kill", "post", "wait"},
                            child: Child \cup {NoChild}]]
  /\ child \in [Child -> {"none", "starting", "serving", "dead"}]
  /\ mine \subseteq Child

VerifierInv == VerifierTyped /\ StopLeavesNoChild

(* The state of every thread but one, after that one moved. *)
LEMMA MoveKeepsOthers ==
  ASSUME NEW w \in Worker, NEW pc, NEW c, VerifierTyped, Move(w, pc, c)
  PROVE  /\ worker'[w] = [pc |-> pc, child |-> c]
         /\ \A v \in Worker : v # w => worker'[v] = worker[v]
BY DEF VerifierTyped, Move

(* A thread that was not ending a child may go anywhere without effect on  *)
(* the claim, when nothing else changes and no child begins to run.        *)
LEMMA QuietMove ==
  ASSUME NEW w \in Worker, NEW pc, NEW c, VerifierInv, Move(w, pc, c),
         worker[w].pc # "kill", UNCHANGED AgentState, UNCHANGED child
  PROVE  StopLeavesNoChild'
<1> SUFFICES ASSUME NEW d \in mine', Running(d)'
             PROVE  \/ d = process' /\ ~closed'
                    \/ d = stopping'
                    \/ \E v \in Worker : worker'[v] = [pc |-> "kill", child |-> d]
  BY DEF StopLeavesNoChild
<1>1. d \in mine /\ Running(d)
  BY DEF AgentState, Running
<1>2. CASE (d = process /\ ~closed) \/ d = stopping
  BY <1>2 DEF AgentState
<1>3. ASSUME NEW v \in Worker, worker[v] = [pc |-> "kill", child |-> d]
      PROVE  worker'[v] = [pc |-> "kill", child |-> d]
  <2>1. v # w
    BY <1>3
  <2> QED BY <2>1, <1>3, MoveKeepsOthers DEF VerifierInv
<1> QED BY <1>1, <1>2, <1>3 DEF VerifierInv, StopLeavesNoChild

(* The same when only children change, and none begins to run. *)
LEMMA QuietChild ==
  ASSUME VerifierInv, UNCHANGED AgentState, UNCHANGED worker,
         \A d \in Child : Running(d)' => Running(d)
  PROVE  StopLeavesNoChild'
BY DEF VerifierInv, VerifierTyped, StopLeavesNoChild, AgentState

LEMMA VerifierStarts == VerifierInit => VerifierInv
<1> SUFFICES ASSUME VerifierInit PROVE VerifierInv
  OBVIOUS
<1>1. VerifierTyped
  BY DEF VerifierInit, VerifierTyped, Rest
<1>2. StopLeavesNoChild
  BY DEF VerifierInit, StopLeavesNoChild
<1> QED BY <1>1, <1>2 DEF VerifierInv

LEMMA VerifierTypes ==
  ASSUME VerifierTyped, VerifierNext
  PROVE  VerifierTyped'
<1>1. ASSUME NEW w \in Worker, Verify(w) PROVE VerifierTyped'
  BY <1>1 DEF VerifierTyped, Verify, Move
<1>2. ASSUME NEW w \in Worker, StartService(w) PROVE VerifierTyped'
  <2>1. CASE closed \/ Running(process)
    BY <1>2, <2>1 DEF VerifierTyped, StartService, Move
  <2>2. CASE ~closed /\ ~Running(process)
    <3>1. PICK c \in Child : /\ child' = [child EXCEPT ![c] = "starting"]
                             /\ process' = c /\ mine' = mine \cup {c}
                             /\ Move(w, "poll", NoChild)
      BY <1>2, <2>2 DEF StartService, Spawn
    <3> QED BY <3>1, <1>2 DEF VerifierTyped, StartService, Move
  <2> QED BY <2>1, <2>2
<1>3. ASSUME NEW w \in Worker, PollReadiness(w) PROVE VerifierTyped'
  BY <1>3 DEF VerifierTyped, PollReadiness, Move, AgentState
<1>4. ASSUME NEW w \in Worker, PollTimeout(w) PROVE VerifierTyped'
  BY <1>4 DEF VerifierTyped, PollTimeout, Move
<1>5. ASSUME NEW w \in Worker, KillAfterTimeout(w) PROVE VerifierTyped'
  BY <1>5 DEF VerifierTyped, KillAfterTimeout, Killed, Move, AgentState
<1>6. ASSUME NEW w \in Worker, PostTask(w) PROVE VerifierTyped'
  BY <1>6 DEF VerifierTyped, PostTask, Move, AgentState, Listeners
<1>7. ASSUME NEW w \in Worker, EndJudgement(w) PROVE VerifierTyped'
  BY <1>7 DEF VerifierTyped, EndJudgement, Move, AgentState
<1>8. ASSUME NEW c \in Child, BindPort(c) PROVE VerifierTyped'
  BY <1>8 DEF VerifierTyped, BindPort, AgentState
<1>9. ASSUME NEW c \in Child, ChildDies(c) PROVE VerifierTyped'
  BY <1>9 DEF VerifierTyped, ChildDies, AgentState
<1>10. CASE StopService
  BY <1>10 DEF VerifierTyped, StopService
<1>11. CASE EndService
  BY <1>11 DEF VerifierTyped, EndService, Killed
<1>12. CASE AgentRestarts
  BY <1>12 DEF VerifierTyped, AgentRestarts, Rest
<1> QED
  BY <1>1, <1>2, <1>3, <1>4, <1>5, <1>6, <1>7, <1>8, <1>9, <1>10, <1>11, <1>12
  DEF VerifierNext

(* A killed child no longer runs, and the others are as they were. *)
LEMMA KilledEnds ==
  ASSUME NEW c, VerifierTyped, Killed(c)
  PROVE  \A d \in Child : Running(d)' => Running(d) /\ d # c
BY VerifierAssumption DEF VerifierTyped, Killed, Running

LEMMA VerifierKeeps ==
  ASSUME VerifierInv, VerifierNext
  PROVE  StopLeavesNoChild'
<1>1. ASSUME NEW w \in Worker, Verify(w) PROVE StopLeavesNoChild'
  <2>1. ASSUME NEW v \in Worker, v # w PROVE worker'[v] = worker[v]
    BY <1>1, <2>1, MoveKeepsOthers DEF Verify, VerifierInv
  <2>2. worker[w].pc # "kill"
    BY <1>1 DEF Verify, Rest
  <2> QED BY <1>1, <2>1, <2>2 DEF Verify, VerifierInv, StopLeavesNoChild, Running
<1>2. ASSUME NEW w \in Worker, StartService(w) PROVE StopLeavesNoChild'
  <2>1. CASE closed \/ Running(process)
    <3>1. UNCHANGED AgentState /\ UNCHANGED child
      BY <1>2, <2>1 DEF StartService, AgentState
    <3>2. worker[w].pc # "kill"
      BY <1>2 DEF StartService
    <3>3. Move(w, "rest", NoChild) \/ Move(w, "post", NoChild)
      BY <1>2, <2>1 DEF StartService
    <3> QED BY <3>1, <3>2, <3>3, QuietMove
  <2>2. CASE ~closed /\ ~Running(process)
    <3>1. PICK c \in Child : /\ child' = [child EXCEPT ![c] = "starting"]
                             /\ process' = c /\ mine' = mine \cup {c}
                             /\ Move(w, "poll", NoChild)
      BY <1>2, <2>2 DEF StartService, Spawn
    <3>2. ASSUME NEW d \in mine', Running(d)', d # c
          PROVE  \/ d = stopping'
                 \/ \E v \in Worker : worker'[v] = [pc |-> "kill", child |-> d]
      <4>1. d \in mine /\ Running(d)
        BY <3>1, <3>2 DEF VerifierInv, VerifierTyped, Running
      <4>2. CASE d = stopping
        BY <4>2, <1>2 DEF StartService
      <4>3. ASSUME NEW v \in Worker, worker[v] = [pc |-> "kill", child |-> d]
            PROVE  worker'[v] = [pc |-> "kill", child |-> d]
        <5>1. v # w
          BY <4>3, <1>2 DEF StartService
        <5> QED BY <5>1, <4>3, <3>1, MoveKeepsOthers DEF VerifierInv
      <4> QED BY <4>1, <4>2, <4>3, <2>2 DEF VerifierInv, StopLeavesNoChild
    <3>3. ~closed' /\ process' = c
      BY <1>2, <2>2, <3>1 DEF StartService
    <3> QED BY <3>2, <3>3 DEF StopLeavesNoChild
  <2> QED BY <2>1, <2>2
<1>3. ASSUME NEW w \in Worker, PollReadiness(w) PROVE StopLeavesNoChild'
  <2>1. Move(w, "rest", NoChild) \/ Move(w, "post", NoChild)
    BY <1>3 DEF PollReadiness
  <2> QED BY <1>3, <2>1, QuietMove DEF PollReadiness
<1>4. ASSUME NEW w \in Worker, PollTimeout(w) PROVE StopLeavesNoChild'
  <2> SUFFICES ASSUME NEW d \in mine', Running(d)'
               PROVE  \/ d = stopping'
                      \/ \E v \in Worker : worker'[v] = [pc |-> "kill", child |-> d]
    BY DEF StopLeavesNoChild
  <2>1. d \in mine /\ Running(d)
    BY <1>4 DEF PollTimeout, Running
  <2>2. /\ worker'[w] = [pc |-> "kill", child |-> process]
        /\ \A v \in Worker : v # w => worker'[v] = worker[v]
    BY <1>4, MoveKeepsOthers DEF PollTimeout, VerifierInv
  <2>3. CASE d = process
    BY <2>2, <2>3
  <2>4. CASE d = stopping
    BY <2>4, <1>4 DEF PollTimeout
  <2>5. ASSUME NEW v \in Worker, worker[v] = [pc |-> "kill", child |-> d]
        PROVE  worker'[v] = [pc |-> "kill", child |-> d]
    BY <2>5, <2>2, <1>4 DEF PollTimeout
  <2> QED BY <2>1, <2>3, <2>4, <2>5 DEF VerifierInv, StopLeavesNoChild
<1>5. ASSUME NEW w \in Worker, KillAfterTimeout(w) PROVE StopLeavesNoChild'
  <2> SUFFICES ASSUME NEW d \in mine', Running(d)'
               PROVE  \/ d = process' /\ ~closed'
                      \/ d = stopping'
                      \/ \E v \in Worker : worker'[v] = [pc |-> "kill", child |-> d]
    BY DEF StopLeavesNoChild
  <2>1. d \in mine /\ Running(d) /\ d # worker[w].child
    BY <1>5, KilledEnds DEF KillAfterTimeout, AgentState, VerifierInv, VerifierTyped
  <2>2. CASE (d = process /\ ~closed) \/ d = stopping
    BY <2>2, <1>5 DEF KillAfterTimeout, AgentState
  <2>3. ASSUME NEW v \in Worker, worker[v] = [pc |-> "kill", child |-> d]
        PROVE  worker'[v] = [pc |-> "kill", child |-> d]
    <3>1. v # w
      BY <2>1, <2>3
    <3> QED BY <3>1, <2>3, <1>5, MoveKeepsOthers DEF KillAfterTimeout, VerifierInv
  <2> QED BY <2>1, <2>2, <2>3 DEF VerifierInv, StopLeavesNoChild
<1>6. ASSUME NEW w \in Worker, PostTask(w) PROVE StopLeavesNoChild'
  <2>1. CASE Move(w, "rest", NoChild)
    BY <1>6, <2>1, QuietMove DEF PostTask
  <2>2. ASSUME NEW c \in Listeners \cap mine, Move(w, "wait", c) PROVE StopLeavesNoChild'
    BY <1>6, <2>2, QuietMove DEF PostTask
  <2> QED BY <1>6, <2>1, <2>2 DEF PostTask
<1>7. ASSUME NEW w \in Worker, EndJudgement(w) PROVE StopLeavesNoChild'
  BY <1>7, QuietMove DEF EndJudgement
<1>8. ASSUME NEW c \in Child, BindPort(c) PROVE StopLeavesNoChild'
  <2>1. ASSUME NEW d \in Child, Running(d)' PROVE Running(d)
    BY <1>8, <2>1 DEF BindPort, Running, VerifierInv, VerifierTyped
  <2> QED BY <1>8, <2>1, QuietChild DEF BindPort
<1>9. ASSUME NEW c \in Child, ChildDies(c) PROVE StopLeavesNoChild'
  <2>1. ASSUME NEW d \in Child, Running(d)' PROVE Running(d)
    BY <1>9, <2>1 DEF ChildDies, Running, VerifierInv, VerifierTyped
  <2> QED BY <1>9, <2>1, QuietChild DEF ChildDies
<1>10. CASE StopService
  <2> SUFFICES ASSUME NEW d \in mine', Running(d)'
               PROVE  \/ d = stopping'
                      \/ \E v \in Worker : worker'[v] = [pc |-> "kill", child |-> d]
    BY DEF StopLeavesNoChild
  <2>1. d \in mine /\ Running(d)
    BY <1>10 DEF StopService, Running
  <2>2. d # stopping
    BY <1>10, <2>1, VerifierAssumption DEF StopService, VerifierInv, VerifierTyped
  <2>3. process = stopping' /\ worker' = worker
    BY <1>10 DEF StopService
  <2> QED BY <2>1, <2>2, <2>3 DEF VerifierInv, StopLeavesNoChild
<1>11. CASE EndService
  <2> SUFFICES ASSUME NEW d \in mine', Running(d)'
               PROVE  \/ d = process' /\ ~closed'
                      \/ \E v \in Worker : worker'[v] = [pc |-> "kill", child |-> d]
    BY DEF StopLeavesNoChild
  <2>1. d \in mine /\ Running(d) /\ d # stopping
    BY <1>11, KilledEnds DEF EndService, VerifierInv, VerifierTyped
  <2>2. UNCHANGED <<process, closed, worker>>
    BY <1>11 DEF EndService
  <2> QED BY <2>1, <2>2 DEF VerifierInv, StopLeavesNoChild
<1>12. CASE AgentRestarts
  BY <1>12 DEF AgentRestarts, StopLeavesNoChild
<1> QED
  BY <1>1, <1>2, <1>3, <1>4, <1>5, <1>6, <1>7, <1>8, <1>9, <1>10, <1>11, <1>12
  DEF VerifierNext

(* For any number of worker threads, children, timeouts and restarts of    *)
(* the Agent: every child the running Agent started and that still runs is *)
(* the one an open service holds, or somebody is about to end it. Once     *)
(* AgentLoop.stop and the threads are through, none is left                *)
(* (verification/service.py:71, :112, agent/session_verifier.py:166).      *)
THEOREM NoChildLeft == VerifierSpec => []StopLeavesNoChild
<1>1. VerifierInit => VerifierInv
  BY VerifierStarts
<1>2. VerifierInv /\ [VerifierNext]_verifierVars => VerifierInv'
  <2> SUFFICES ASSUME VerifierInv, [VerifierNext]_verifierVars PROVE VerifierInv'
    OBVIOUS
  <2>1. CASE VerifierNext
    BY <2>1, VerifierTypes, VerifierKeeps DEF VerifierInv
  <2>2. CASE UNCHANGED verifierVars
    BY <2>2 DEF verifierVars, VerifierInv, VerifierTyped, StopLeavesNoChild, Running
  <2> QED BY <2>1, <2>2
<1>3. VerifierInv => StopLeavesNoChild
  BY DEF VerifierInv
<1> QED BY <1>1, <1>2, <1>3, PTL DEF VerifierSpec

(* A set without two members counts at most one. *)
LEMMA LoneCounts ==
  ASSUME NEW S, \A x, y \in S : x = y
  PROVE  Cardinality(S) <= 1
<1>1. CASE S = {}
  BY <1>1, FS_EmptySet
<1>2. CASE S # {}
  <2>1. PICK x \in S : TRUE
    BY <1>2
  <2>2. S = {x}
    BY <2>1
  <2> QED BY <2>2, FS_Singleton
<1> QED BY <1>1, <1>2

(* At most one child listens, because a child that finds the port taken    *)
(* ends; the rest counts up to its bounds.                                 *)
OneListens == \A c, d \in Child : child[c] = "serving" /\ child[d] = "serving" => c = d
VerifierBounds ==
  closed \in BOOLEAN /\ calls \in 0..MaxCalls /\ verifierFaults \in 0..MaxVerifierFaults

LEMMA ListenersKeep ==
  ASSUME VerifierTyped, OneListens, VerifierNext
  PROVE  OneListens'
<1> SUFFICES ASSUME NEW c \in Child, NEW d \in Child, c # d,
                    child'[c] = "serving", child'[d] = "serving"
             PROVE  FALSE
  BY DEF OneListens
<1>1. CASE \A e \in Child : child'[e] = "serving" => child[e] = "serving"
  BY <1>1 DEF OneListens
<1>2. ASSUME NEW e \in Child, BindPort(e) PROVE FALSE
  <2>1. child' = [child EXCEPT ![e] = IF Listeners = {} THEN "serving" ELSE "dead"]
    BY <1>2 DEF BindPort
  <2>2. CASE Listeners = {}
    <3>1. child[c] # "serving" /\ child[d] # "serving"
      BY <2>2 DEF Listeners
    <3> QED BY <2>1, <3>1 DEF VerifierTyped
  <2>3. CASE Listeners # {}
    BY <2>1, <2>3 DEF VerifierTyped, OneListens
  <2> QED BY <2>2, <2>3
<1>3. CASE UNCHANGED child
  BY <1>3 DEF OneListens
<1>4. ASSUME NEW w \in Worker, StartService(w) PROVE FALSE
  BY <1>1, <1>4 DEF StartService, Spawn, VerifierTyped
<1>5. ASSUME NEW w \in Worker, KillAfterTimeout(w) PROVE FALSE
  BY <1>1, <1>5 DEF KillAfterTimeout, Killed, VerifierTyped
<1>6. ASSUME NEW e \in Child, ChildDies(e) PROVE FALSE
  BY <1>1, <1>6 DEF ChildDies, VerifierTyped
<1>7. CASE EndService
  BY <1>1, <1>7 DEF EndService, Killed, VerifierTyped
<1> QED BY <1>2, <1>3, <1>4, <1>5, <1>6, <1>7
        DEF VerifierNext, Verify, PollReadiness, PollTimeout, PostTask, EndJudgement,
            StopService, AgentRestarts

LEMMA VerifierBounded ==
  ASSUME VerifierBounds, VerifierNext
  PROVE  VerifierBounds'
<1>1. MaxCalls \in Nat /\ MaxVerifierFaults \in Nat
  BY VerifierAssumption
<1>2. CASE UNCHANGED <<closed, calls, verifierFaults>>
  BY <1>2 DEF VerifierBounds
<1>3. CASE VerifierFault /\ closed' \in BOOLEAN /\ calls' \in {0, calls}
  BY <1>1, <1>3 DEF VerifierBounds, VerifierFault
<1>4. CASE StopService
  BY <1>4 DEF VerifierBounds, StopService
<1>5. ASSUME NEW w \in Worker, Verify(w) PROVE VerifierBounds'
  BY <1>1, <1>5 DEF VerifierBounds, Verify
<1>6. ASSUME NEW w \in Worker, PollTimeout(w) PROVE VerifierBounds'
  BY <1>3, <1>6 DEF PollTimeout
<1>7. ASSUME NEW c \in Child, ChildDies(c) PROVE VerifierBounds'
  BY <1>3, <1>7 DEF ChildDies, AgentState, VerifierBounds
<1>8. CASE AgentRestarts
  BY <1>3, <1>8 DEF AgentRestarts
<1> QED BY <1>2, <1>4, <1>5, <1>6, <1>7, <1>8
        DEF VerifierNext, StartService, PollReadiness, KillAfterTimeout, PostTask,
            EndJudgement, BindPort, EndService, AgentState

(* The types of the service, for any number of children: one at most holds *)
(* the port (verification/service.py:71).                                  *)
THEOREM OneChildListens == VerifierSpec => []VerifierTypeOK
<1> DEFINE Typed == VerifierTyped /\ OneListens /\ VerifierBounds
<1>1. VerifierInit => Typed
  <2> SUFFICES ASSUME VerifierInit PROVE Typed
    OBVIOUS
  <2>1. VerifierTyped
    BY VerifierStarts DEF VerifierInv
  <2>2. OneListens
    BY DEF VerifierInit, OneListens
  <2>3. closed = FALSE /\ calls = 0 /\ verifierFaults = 0
    BY DEF VerifierInit
  <2>4. 0 \in 0..MaxCalls /\ 0 \in 0..MaxVerifierFaults
    BY VerifierAssumption
  <2>5. VerifierBounds
    BY <2>3, <2>4, Zenon DEF VerifierBounds
  <2> QED BY <2>1, <2>2, <2>5
<1>2. Typed /\ [VerifierNext]_verifierVars => Typed'
  <2> SUFFICES ASSUME Typed, [VerifierNext]_verifierVars PROVE Typed'
    OBVIOUS
  <2>1. CASE VerifierNext
    BY <2>1, VerifierTypes, ListenersKeep, VerifierBounded
  <2>2. CASE UNCHANGED verifierVars
    BY <2>2 DEF verifierVars, VerifierTyped, OneListens, VerifierBounds
  <2> QED BY <2>1, <2>2
<1>3. Typed => VerifierTypeOK
  <2> SUFFICES ASSUME Typed PROVE VerifierTypeOK
    OBVIOUS
  <2>1. Cardinality(Listeners) <= 1
    BY LoneCounts DEF OneListens, Listeners
  <2> QED BY <2>1 DEF VerifierTypeOK, VerifierTyped, VerifierBounds
<1> QED BY <1>1, <1>2, <1>3, PTL DEF VerifierSpec


-----------------------------------------------------------------------------
(* The providers.  Every configuration in the file or in the memory of a   *)
(* command has a usable default; the Agent's own is valid whatever is      *)
(* stored later, and selections and turns were valid in it.                *)
ProvidersTyped ==
  /\ stored \in Config
  /\ command \in [Command -> [kind: {"none", "configure", "use", "remove"},
                              provider: Provider \cup {NoProvider}, loaded: SUBSET Config]]
  /\ snapshot \in SUBSET Config
  /\ override \in [Session -> SUBSET Selection]
  /\ turn \in [Session -> [begun: SUBSET Selection, asked: SUBSET Selection,
                           attempt: 0..Retries + 1]]

Usable(c) == c.provider \in Provider => ValidSelection(c, c.provider, c.model)
CommandTyped ==
  \A x \in Command : command[x] = NoCommand \/ command[x].provider \in Provider

FilesUsable ==
  /\ Usable(stored)
  /\ \A x \in Command : \A c \in command[x].loaded : Usable(c)

ValidHere(x) == \E c \in snapshot : ValidSelection(c, x[1], x[2])
AgentValid ==
  /\ \A c \in snapshot : ValidSelection(c, c.provider, c.model)
  /\ \A s \in Session : \A x \in override[s] : ValidHere(x)
  /\ \A s \in Session : /\ turn[s].asked \subseteq turn[s].begun
                        /\ \A x \in turn[s].begun : ValidHere(x)

ProvidersInv == ProvidersTyped /\ CommandTyped /\ FilesUsable /\ AgentValid

(* What a command may write: a configured model for its provider, a valid  *)
(* selection, or a removal that leaves no default on what it removed.      *)
LEMMA ConfiguredUsable ==
  ASSUME NEW c \in Config, Usable(c), NEW p \in Provider, NEW m \in Model, <<p, m>> \in Routes
  PROVE  /\ [c EXCEPT !.models[p] = m] \in Config
         /\ Usable([c EXCEPT !.models[p] = m])
<1> DEFINE d == [c EXCEPT !.models[p] = m]
<1>1. d \in Config
  BY DEF Config
<1>2. d.provider = c.provider /\ d.model = c.model
  BY DEF Config
<1>3. \A q \in Provider : Configured(c, q) => Configured(d, q)
  BY ProvidersAssumption DEF Config, Configured
<1> QED BY <1>1, <1>2, <1>3 DEF Usable, ValidSelection

LEMMA UsedUsable ==
  ASSUME NEW c \in Config, NEW p \in Provider, NEW m \in Model, ValidSelection(c, p, m)
  PROVE  /\ [c EXCEPT !.provider = p, !.model = m] \in Config
         /\ Usable([c EXCEPT !.provider = p, !.model = m])
BY DEF Config, Usable, ValidSelection, Configured

LEMMA RemovedUsable ==
  ASSUME NEW c \in Config, Usable(c), NEW p \in Provider
  PROVE  /\ Unselected(Without(c, p)) \in Config
         /\ Usable(Unselected(Without(c, p)))
         /\ c.provider # p => Without(c, p) \in Config /\ Usable(Without(c, p))
<1>1. /\ Unselected(Without(c, p)) \in Config
      /\ Unselected(Without(c, p)).provider = NoProvider
      /\ Without(c, p) \in Config
      /\ Without(c, p).provider = c.provider /\ Without(c, p).model = c.model
      /\ \A q \in Provider : q # p => Without(c, p).models[q] = c.models[q]
  BY DEF Config, Unselected, Without
<1>2. NoProvider \notin Provider
  BY ProvidersAssumption
<1> QED BY <1>1, <1>2 DEF Usable, ValidSelection, Configured

LEMMA ProvidersStart == ProviderInit => ProvidersInv
<1> SUFFICES ASSUME ProviderInit PROVE ProvidersInv
  OBVIOUS
<1>1. stored \in Config /\ stored.provider = AutoMatch
  <2>1. (CHOOSE m \in Model : TRUE) \in Model
    BY ProvidersAssumption
  <2> QED BY <2>1 DEF ProviderInit, Config
<1>2. ProvidersTyped
  BY <1>1, ProvidersAssumption DEF ProviderInit, ProvidersTyped, NoCommand, NoTurn
<1>3. FilesUsable /\ CommandTyped
  BY <1>1, ProvidersAssumption DEF ProviderInit, FilesUsable, CommandTyped, Usable, NoCommand
<1>4. AgentValid
  BY DEF ProviderInit, AgentValid, NoTurn
<1> QED BY <1>2, <1>3, <1>4 DEF ProvidersInv

(* A command writes a usable configuration and forgets what it loaded. *)
LEMMA SaveKeeps ==
  ASSUME ProvidersInv, NEW x \in Command, NEW c \in Config, Usable(c), SaveConfig(x, c)
  PROVE  ProvidersInv'
<1>1. /\ stored' = c
      /\ command' = [command EXCEPT ![x] = NoCommand]
      /\ UNCHANGED <<snapshot, override, turn>>
  BY DEF SaveConfig, agentVars
<1>2. ProvidersTyped'
  BY <1>1 DEF ProvidersInv, ProvidersTyped, NoCommand
<1>6. CommandTyped'
  BY <1>1 DEF ProvidersInv, ProvidersTyped, CommandTyped, NoCommand
<1>3. \A y \in Command : command'[y].loaded \subseteq command[y].loaded
  BY <1>1 DEF ProvidersInv, ProvidersTyped, NoCommand
<1>4. FilesUsable'
  BY <1>1, <1>3 DEF ProvidersInv, FilesUsable, Usable, ValidSelection, Configured
<1>5. AgentValid'
  BY <1>1 DEF ProvidersInv, AgentValid, ValidHere, ValidSelection, Configured
<1> QED BY <1>2, <1>4, <1>5, <1>6 DEF ProvidersInv

(* A step of the Agent that leaves the files alone. *)
LEMMA AgentKeeps ==
  ASSUME ProvidersInv, UNCHANGED fileVars, ProvidersTyped', AgentValid'
  PROVE  ProvidersInv'
BY DEF ProvidersInv, fileVars, FilesUsable, CommandTyped, NoCommand, Usable, ValidSelection, Configured

LEMMA CommandsKeep ==
  ASSUME ProvidersInv, NEW x \in Command
  PROVE  /\ \A kind \in {"configure", "use", "remove"}, p \in Provider :
              LoadConfig(x, kind, p) => ProvidersInv'
         /\ \A m \in Model : ConfigureProvider(x, m) => ProvidersInv'
         /\ \A m \in Model : UseProvider(x, m) => ProvidersInv'
         /\ RemoveProvider(x) => ProvidersInv'
         /\ GiveUpCommand(x) => ProvidersInv'
<1>1. /\ command[x].loaded \subseteq Config
      /\ \A c \in command[x].loaded : Usable(c)
      /\ command[x].provider \in Provider \cup {NoProvider}
  BY DEF ProvidersInv, ProvidersTyped, FilesUsable
<1>2. ASSUME NEW kind \in {"configure", "use", "remove"}, NEW p \in Provider,
             LoadConfig(x, kind, p)
      PROVE  ProvidersInv'
  <2>1. /\ stored' = stored
        /\ command' = [command EXCEPT ![x] =
             [kind |-> kind, provider |-> p, loaded |-> {stored}]]
        /\ UNCHANGED <<snapshot, override, turn>>
    BY <1>2 DEF LoadConfig, agentVars
  <2>2. ProvidersTyped'
    BY <2>1 DEF ProvidersInv, ProvidersTyped
  <2>3. \A y \in Command : command'[y].loaded \subseteq command[y].loaded \cup {stored}
    BY <2>1 DEF ProvidersInv, ProvidersTyped
  <2>4. FilesUsable'
    BY <2>1, <2>3 DEF ProvidersInv, FilesUsable, Usable, ValidSelection, Configured
  <2>5. AgentValid'
    BY <2>1 DEF ProvidersInv, AgentValid, ValidHere, ValidSelection, Configured
  <2>6. CommandTyped'
    BY <2>1 DEF ProvidersInv, ProvidersTyped, CommandTyped, NoCommand
  <2> QED BY <2>2, <2>4, <2>5, <2>6 DEF ProvidersInv
<1>3. ASSUME NEW m \in Model, ConfigureProvider(x, m) PROVE ProvidersInv'
  <2> DEFINE p == command[x].provider
  <2>1. PICK c \in command[x].loaded : SaveConfig(x, [c EXCEPT !.models[p] = m])
    BY <1>3 DEF ConfigureProvider
  <2>2. p \in Provider /\ <<p, m>> \in Routes
    BY <1>3, ProvidersAssumption DEF ConfigureProvider
  <2> QED BY <1>1, <2>1, <2>2, ConfiguredUsable, SaveKeeps
<1>4. ASSUME NEW m \in Model, UseProvider(x, m) PROVE ProvidersInv'
  <2> DEFINE p == command[x].provider
  <2>1. PICK c \in command[x].loaded :
          ValidSelection(c, p, m) /\ SaveConfig(x, [c EXCEPT !.provider = p, !.model = m])
    BY <1>4 DEF UseProvider
  <2>2. p \in Provider
    BY <2>1, ProvidersAssumption DEF ValidSelection
  <2> QED BY <1>1, <2>1, <2>2, UsedUsable, SaveKeeps
<1>5. ASSUME RemoveProvider(x) PROVE ProvidersInv'
  <2> DEFINE p == command[x].provider
  <2>1. PICK c \in command[x].loaded :
          \/ SaveConfig(x, Unselected(Without(c, p)))
          \/ c.provider # p /\ SaveConfig(x, Without(c, p))
    BY <1>5 DEF RemoveProvider
  <2>2. p \in Provider
    BY <1>5 DEF RemoveProvider, ProvidersInv, CommandTyped, NoCommand
  <2> QED BY <1>1, <2>1, <2>2, RemovedUsable, SaveKeeps
<1>6. ASSUME GiveUpCommand(x) PROVE ProvidersInv'
  <2>1. /\ stored' = stored
        /\ command' = [command EXCEPT ![x] = NoCommand]
        /\ UNCHANGED <<snapshot, override, turn>>
    BY <1>6 DEF GiveUpCommand, agentVars
  <2>2. CommandTyped'
    BY <2>1 DEF ProvidersInv, ProvidersTyped, CommandTyped, NoCommand
  <2>3. ProvidersTyped'
    BY <2>1 DEF ProvidersInv, ProvidersTyped, NoCommand
  <2>4. \A y \in Command : command'[y].loaded \subseteq command[y].loaded
    BY <2>1 DEF ProvidersInv, ProvidersTyped, NoCommand
  <2>5. FilesUsable'
    BY <2>1, <2>4 DEF ProvidersInv, FilesUsable, Usable, ValidSelection, Configured
  <2>6. AgentValid'
    BY <2>1 DEF ProvidersInv, AgentValid, ValidHere, ValidSelection, Configured
  <2> QED BY <2>2, <2>3, <2>5, <2>6 DEF ProvidersInv
<1> QED BY <1>2, <1>3, <1>4, <1>5, <1>6

LEMMA StartAgentKeeps ==
  ASSUME ProvidersInv, StartAgent
  PROVE  ProvidersInv'
<1>1. PICK p \in CurrentOf(stored) :
        ValidSelection(stored, p, stored.model) /\ snapshot' = {[stored EXCEPT !.provider = p]}
  BY DEF StartAgent
<1>2. p \in Provider /\ stored \in Config
  BY <1>1 DEF CurrentOf, ProvidersInv, ProvidersTyped
<1> DEFINE d == [stored EXCEPT !.provider = p]
<1>3. d \in Config /\ ValidSelection(d, d.provider, d.model)
  BY <1>1, <1>2 DEF Config, ValidSelection, Configured
<1>4. ProvidersTyped'
  BY <1>1, <1>3 DEF StartAgent, ProvidersInv, ProvidersTyped, fileVars
<1>5. \A s \in Session : override[s] = {} /\ turn[s].asked \subseteq turn[s].begun
                         /\ turn[s].begun = {}
  BY DEF StartAgent, ProvidersInv, AgentValid, ValidHere
<1>6. override' = override /\ turn' = turn
  BY DEF StartAgent
<1>7. \A c \in snapshot' : ValidSelection(c, c.provider, c.model)
  BY <1>1, <1>3
<1>8. AgentValid'
  BY <1>5, <1>6, <1>7 DEF AgentValid, ValidSelection, Configured
<1> QED BY <1>4, <1>8, AgentKeeps DEF StartAgent

(* The selections a session may begin a turn with are valid. *)
LEMMA SelectionsValid ==
  ASSUME ProvidersInv, NEW s \in Session, NEW x \in SelectionsOf(s)
  PROVE  x \in Selection /\ ValidHere(x)
<1>1. CASE override[s] # {}
  BY <1>1 DEF SelectionsOf, ProvidersInv, ProvidersTyped, AgentValid
<1>2. CASE override[s] = {}
  <2>1. PICK c \in snapshot : x = <<c.provider, c.model>>
    BY <1>2 DEF SelectionsOf
  <2>2. ValidSelection(c, c.provider, c.model) /\ x[1] = c.provider /\ x[2] = c.model
    BY <2>1 DEF ProvidersInv, AgentValid
  <2>3. x \in Selection
    BY <2>1, <2>2, ProvidersAssumption DEF ValidSelection, Selection
  <2> QED BY <2>1, <2>2, <2>3 DEF ValidHere
<1> QED BY <1>1, <1>2

LEMMA SessionsKeep ==
  ASSUME ProvidersInv, NEW s \in Session
  PROVE  /\ \A p \in Provider, m \in Model : SelectModel(s, p, m) => ProvidersInv'
         /\ ResetSelection(s) => ProvidersInv'
         /\ PinTurn(s) => ProvidersInv'
         /\ AskProvider(s) => ProvidersInv'
         /\ TakeAnswer(s) => ProvidersInv'
<1> USE DEF ValidHere, ValidSelection, Configured
<1>1. ASSUME NEW p \in Provider, NEW m \in Model, SelectModel(s, p, m) PROVE ProvidersInv'
  <2>1. ProvidersTyped'
    BY <1>1 DEF SelectModel, ProvidersInv, ProvidersTyped, fileVars, Selection
  <2>2. /\ override' = [override EXCEPT ![s] = {<<p, m>>}]
        /\ snapshot' = snapshot /\ turn' = turn
        /\ ValidHere(<<p, m>>)
    BY <1>1 DEF SelectModel
  <2>3. \A r \in Session : \A x \in override'[r] : x = <<p, m>> \/ x \in override[r]
    BY <2>2 DEF ProvidersInv, ProvidersTyped
  <2>4. \A r \in Session : \A x \in override'[r] : ValidHere(x)
    BY <2>2, <2>3 DEF ProvidersInv, AgentValid
  <2>5. AgentValid'
    BY <2>2, <2>4 DEF ProvidersInv, AgentValid
  <2> QED BY <1>1, <2>1, <2>5, AgentKeeps DEF SelectModel
<1>2. ASSUME ResetSelection(s) PROVE ProvidersInv'
  <2>1. ProvidersTyped'
    BY <1>2 DEF ResetSelection, ProvidersInv, ProvidersTyped, fileVars
  <2>2. AgentValid'
    BY <1>2 DEF ResetSelection, ProvidersInv, ProvidersTyped, AgentValid
  <2> QED BY <1>2, <2>1, <2>2, AgentKeeps DEF ResetSelection
<1>3. ASSUME PinTurn(s) PROVE ProvidersInv'
  <2>1. PICK x \in SelectionsOf(s) : turn' = [turn EXCEPT ![s].begun = {x}]
    BY <1>3 DEF PinTurn
  <2>2. x \in Selection /\ ValidHere(x)
    BY <2>1, SelectionsValid
  <2>3. ProvidersTyped'
    BY <1>3, <2>1, <2>2 DEF PinTurn, ProvidersInv, ProvidersTyped, fileVars
  <2>7. turn[s] \in [begun: SUBSET Selection, asked: SUBSET Selection, attempt: 0..Retries + 1]
        /\ s \in DOMAIN turn /\ turn[s].asked = {}
    BY <1>3 DEF PinTurn, ProvidersInv, ProvidersTyped, NoTurn
  <2>8. turn'[s] = [turn[s] EXCEPT !.begun = {x}]
    BY <2>1, <2>7
  <2>4. /\ \A r \in Session : r # s => turn'[r] = turn[r]
        /\ turn'[s].begun = {x} /\ turn'[s].asked = {}
    <3>1. \A r \in Session : r # s => turn'[r] = turn[r]
      BY <2>1 DEF ProvidersInv, ProvidersTyped
    <3> QED BY <3>1, <2>7, <2>8
  <2>5. snapshot' = snapshot /\ override' = override
    BY <1>3 DEF PinTurn
  <2>6. AgentValid'
    BY <2>2, <2>4, <2>5 DEF ProvidersInv, AgentValid
  <2> QED BY <1>3, <2>3, <2>6, AgentKeeps DEF PinTurn
<1>4. ASSUME AskProvider(s) PROVE ProvidersInv'
  <2>1. turn[s].attempt + 1 \in 0..Retries + 1
    BY <1>4, ProvidersAssumption DEF AskProvider, ProvidersInv, ProvidersTyped
  <2>2. ProvidersTyped'
    BY <1>4, <2>1 DEF AskProvider, ProvidersInv, ProvidersTyped, fileVars
  <2>3. AgentValid'
    BY <1>4 DEF AskProvider, ProvidersInv, ProvidersTyped, AgentValid
  <2> QED BY <1>4, <2>2, <2>3, AgentKeeps DEF AskProvider
<1>5. ASSUME TakeAnswer(s) PROVE ProvidersInv'
  <2>1. 0 \in 0..Retries + 1
    BY ProvidersAssumption
  <2>2. ProvidersTyped'
    BY <1>5, <2>1 DEF TakeAnswer, ProvidersInv, ProvidersTyped, fileVars, NoTurn
  <2>4. \A r \in Session : \/ turn'[r].asked = turn[r].asked /\ turn'[r].begun = turn[r].begun
                           \/ turn'[r].asked = {} /\ turn'[r].begun = {}
    BY <1>5 DEF TakeAnswer, ProvidersInv, ProvidersTyped, NoTurn
  <2>5. snapshot' = snapshot /\ override' = override
    BY <1>5 DEF TakeAnswer
  <2>3. AgentValid'
    BY <2>4, <2>5 DEF ProvidersInv, AgentValid
  <2> QED BY <1>5, <2>2, <2>3, AgentKeeps DEF TakeAnswer
<1> QED BY <1>1, <1>2, <1>3, <1>4, <1>5

LEMMA ProvidersStay == ProvidersInv /\ [ProviderNext]_providerVars => ProvidersInv'
<1> SUFFICES ASSUME ProvidersInv, [ProviderNext]_providerVars PROVE ProvidersInv'
  OBVIOUS
<1>1. CASE ProviderNext
  BY <1>1, CommandsKeep, StartAgentKeeps, SessionsKeep DEF ProviderNext
<1>2. CASE UNCHANGED providerVars
  <2>1. UNCHANGED fileVars /\ UNCHANGED <<snapshot, override, turn>>
    BY <1>2 DEF providerVars, agentVars
  <2>2. ProvidersTyped'
    BY <2>1 DEF fileVars, ProvidersInv, ProvidersTyped
  <2>3. AgentValid'
    BY <2>1 DEF ProvidersInv, AgentValid, ValidHere, ValidSelection, Configured
  <2> QED BY <2>1, <2>2, <2>3, AgentKeeps
<1> QED BY <1>1, <1>2

(* For any number of commands, processes, providers and sessions: however  *)
(* the commands overwrite each other's changes, the default names a        *)
(* provider that is configured and routes the model, and all requests of   *)
(* a turn go to the one selection it began with (providers/service.py:402, *)
(* :416, :453).                                                            *)
THEOREM SelectionsAlwaysHold == ProviderSpec => []SelectionsHold
<1>1. ProvidersInv => SelectionsHold
  BY DEF ProvidersInv, FilesUsable, Usable, AgentValid, ValidHere, SelectionsHold,
         DefaultUsable, TurnPinned
<1> QED BY <1>1, ProvidersStart, ProvidersStay, PTL DEF ProviderSpec

(* The Agent takes one configuration, once; the rest counts to its bounds.  *)
OneSnapshot ==
  /\ \A c, d \in snapshot : c = d
  /\ commands \in 0..MaxCommands /\ selections \in 0..MaxSelections

LEMMA SnapshotKept ==
  ASSUME OneSnapshot, [ProviderNext]_providerVars
  PROVE  OneSnapshot'
<1>1. CASE UNCHANGED <<snapshot, commands, selections>>
  BY <1>1 DEF OneSnapshot
<1>2. ASSUME NEW x \in Command, NEW kind, NEW p, LoadConfig(x, kind, p) PROVE OneSnapshot'
  BY <1>2, ProvidersAssumption DEF LoadConfig, agentVars, OneSnapshot
<1>3. ASSUME NEW s \in Session, NEW p, NEW m, SelectModel(s, p, m) PROVE OneSnapshot'
  BY <1>3, ProvidersAssumption DEF SelectModel, fileVars, OneSnapshot
<1>4. CASE StartAgent
  <2>1. PICK c : snapshot' = {c}
    BY <1>4 DEF StartAgent
  <2> QED BY <1>4, <2>1 DEF StartAgent, fileVars, OneSnapshot
<1>5. CASE \E x \in Command : \/ \E m \in Model : ConfigureProvider(x, m) \/ UseProvider(x, m)
                              \/ RemoveProvider(x) \/ GiveUpCommand(x)
  BY <1>1, <1>5 DEF ConfigureProvider, UseProvider, RemoveProvider, GiveUpCommand, SaveConfig, agentVars
<1>6. CASE \E s \in Session : ResetSelection(s) \/ PinTurn(s) \/ AskProvider(s) \/ TakeAnswer(s)
  BY <1>1, <1>6 DEF ResetSelection, PinTurn, AskProvider, TakeAnswer, fileVars
<1>7. CASE UNCHANGED providerVars
  BY <1>1, <1>7 DEF providerVars, fileVars, agentVars
<1> QED BY <1>2, <1>3, <1>4, <1>5, <1>6, <1>7 DEF ProviderNext

(* The types of the providers, for any number of them, of commands and of  *)
(* sessions: what is stored, loaded and taken are configurations, and the  *)
(* Agent has taken one of them at most (providers/service.py:402).         *)
THEOREM OneConfigurationTaken == ProviderSpec => []ProviderTypeOK
<1>1. ProviderInit => ProvidersInv /\ OneSnapshot
  BY ProvidersStart, ProvidersAssumption DEF ProviderInit, OneSnapshot
<1>2. ProvidersInv /\ OneSnapshot => ProviderTypeOK
  BY LoneCounts DEF ProvidersInv, ProvidersTyped, OneSnapshot, ProviderTypeOK
<1> QED BY <1>1, <1>2, ProvidersStay, SnapshotKept, PTL DEF ProviderSpec

-----------------------------------------------------------------------------
(* The gateway.  Its specification, without an assumption on progress.     *)
GatewaySpec == GatewayInit /\ [][GatewayNext]_gatewayVars

(* What the argument needs of the types, and what is true of the           *)
(* connections while the gateway runs: at most one caller connects, the    *)
(* stack it fills is the one close_mcp will close, and with nobody         *)
(* connecting and no connection made nothing is open but what a cancelled  *)
(* turn left.                                                              *)
McpRec == [connecting: BOOLEAN, connected: BOOLEAN, stack: Nat]

GatewayTyped ==
  /\ DOMAIN caller = Callers
  /\ mcp \in McpRec
  /\ stacks \in Nat

OneConnects ==
  /\ opened \subseteq {mcp.stack} \cup abandoned
  /\ mcp.connecting \/ mcp.connected \/ opened \subseteq abandoned
  /\ \A k \in Callers : CallerAt(k, "connect") =>
       /\ mcp.connecting
       /\ caller[k].stack = mcp.stack
       /\ \A l \in Callers : CallerAt(l, "connect") => l = k

GatewayInv == GatewayTyped /\ (phase = "runs" => OneConnects)

(* Where everybody stands after one caller went on. *)
LEMMA CallerMoves ==
  ASSUME NEW k \in Callers, NEW pc, DOMAIN caller = Callers, GoTo(k, pc)
  PROVE  /\ DOMAIN caller' = Callers
         /\ caller'[k].pc = pc
         /\ \A l \in Callers : l # k => caller'[l] = caller[l]
BY DEF GoTo

(* Nobody connects any more once the one who did went elsewhere. *)
LEMMA NobodyConnects ==
  ASSUME NEW k \in Callers, NEW pc, pc # "connect", DOMAIN caller = Callers, GoTo(k, pc),
         OneConnects, CallerAt(k, "connect")
  PROVE  \A l \in Callers : ~CallerAt(l, "connect")'
<1> SUFFICES ASSUME NEW l \in Callers, CallerAt(l, "connect")' PROVE FALSE
  OBVIOUS
<1>1. caller'[l].pc = "connect"
  BY DEF CallerAt
<1>2. l # k
  BY <1>1, CallerMoves
<1>3. CallerAt(l, "connect")
  BY <1>1, <1>2, CallerMoves DEF CallerAt
<1> QED BY <1>2, <1>3 DEF OneConnects

(* A caller that does not connect may go anywhere else. *)
LEMMA QuietCaller ==
  ASSUME NEW k \in Callers, NEW pc, pc # "connect", GoTo(k, pc), GatewayInv,
         UNCHANGED <<phase, Mcp>>
  PROVE  GatewayInv'
<1>1. GatewayTyped'
  BY CallerMoves DEF GatewayInv, GatewayTyped, Mcp
<1>2. ASSUME OneConnects PROVE OneConnects'
  <2>1. opened' = opened /\ mcp' = mcp /\ abandoned' = abandoned
    BY DEF Mcp
  <2>2. \A l \in Callers : CallerAt(l, "connect")' => CallerAt(l, "connect") /\ caller'[l] = caller[l]
    <3> SUFFICES ASSUME NEW l \in Callers, CallerAt(l, "connect")'
                 PROVE  CallerAt(l, "connect") /\ caller'[l] = caller[l]
      OBVIOUS
    <3>1. caller'[l].pc = "connect"
      BY DEF CallerAt
    <3>2. l # k
      BY <3>1, CallerMoves DEF GatewayInv, GatewayTyped
    <3> QED BY <3>1, <3>2, CallerMoves DEF CallerAt, GatewayInv, GatewayTyped
  <2> QED BY <1>2, <2>1, <2>2 DEF OneConnects
<1> QED BY <1>1, <1>2 DEF GatewayInv

(* The same when nobody moves. *)
LEMMA QuietChannel ==
  ASSUME UNCHANGED <<phase, caller, Mcp>>, GatewayInv
  PROVE  GatewayInv'
BY DEF Mcp, GatewayInv, GatewayTyped, OneConnects, CallerAt

LEMMA McpStarts ==
  ASSUME NEW m \in McpRec, NEW s \in Nat
  PROVE  [m EXCEPT !.connecting = TRUE, !.stack = s] \in McpRec
BY Zenon DEF McpRec

LEMMA McpEnds ==
  ASSUME NEW m \in McpRec, NEW b \in BOOLEAN
  PROVE  /\ [m EXCEPT !.connecting = FALSE, !.connected = TRUE] \in McpRec
         /\ [m EXCEPT !.connecting = FALSE, !.stack = NoStack] \in McpRec
         /\ [m EXCEPT !.stack = NoStack] \in McpRec
         /\ [m EXCEPT !.connecting = b] \in McpRec
<1>1. NoStack \in Nat
  BY DEF NoStack
<1> QED BY <1>1 DEF McpRec

(* What a change of the connections gives. *)
LEMMA McpFields ==
  ASSUME NEW m \in McpRec, NEW s
  PROVE  /\ [m EXCEPT !.connecting = TRUE, !.stack = s].connecting
         /\ [m EXCEPT !.connecting = TRUE, !.stack = s].stack = s
         /\ [m EXCEPT !.connecting = FALSE, !.connected = TRUE].connected
         /\ [m EXCEPT !.connecting = FALSE, !.connected = TRUE].stack = m.stack
         /\ [m EXCEPT !.connecting = FALSE, !.stack = s].stack = s
BY DEF McpRec

LEMMA ConnectKeeps ==
  ASSUME NEW k \in Callers, ConnectMcp(k), GatewayInv
  PROVE  GatewayInv'
<1>1. CASE GoTo(k, "turn") /\ UNCHANGED Mcp
  BY <1>1, QuietCaller DEF ConnectMcp
<1>2. CASE /\ ~mcp.connected /\ ~mcp.connecting /\ stacks < MaxStacks
           /\ stacks' = stacks + 1 /\ opened' = opened \cup {stacks'}
           /\ mcp' = [mcp EXCEPT !.connecting = TRUE, !.stack = stacks']
           /\ caller' = [caller EXCEPT ![k] = [pc |-> "connect", stack |-> stacks']]
           /\ UNCHANGED abandoned
  <2>1. GatewayTyped'
    <3>1. DOMAIN caller' = Callers
      BY <1>2 DEF GatewayInv, GatewayTyped
    <3>2. stacks' \in Nat
      BY <1>2 DEF GatewayInv, GatewayTyped
    <3>3. mcp' \in McpRec
      BY <1>2, <3>2, McpStarts DEF GatewayInv, GatewayTyped
    <3> QED BY <3>1, <3>2, <3>3 DEF GatewayTyped
  <2>2. ASSUME OneConnects PROVE OneConnects'
    <3>1. mcp'.connecting /\ mcp'.stack = stacks'
      BY <1>2, McpFields DEF GatewayInv, GatewayTyped
    <3>2. opened' \subseteq {stacks'} \cup abandoned'
      BY <1>2, <2>2 DEF OneConnects
    <3>3. \A l \in Callers : CallerAt(l, "connect")' => l = k
      BY <1>2, <2>2 DEF OneConnects, CallerAt, GatewayInv, GatewayTyped
    <3>4. caller'[k].stack = stacks'
      BY <1>2 DEF GatewayInv, GatewayTyped
    <3> QED BY <3>1, <3>2, <3>3, <3>4 DEF OneConnects
  <2> QED BY <2>1, <2>2 DEF GatewayInv, ConnectMcp
<1> QED BY <1>1, <1>2 DEF ConnectMcp

LEMMA ConnectedKeeps ==
  ASSUME NEW k \in Callers, Connected(k), GatewayInv
  PROVE  GatewayInv'
<1>1. GatewayTyped'
  BY CallerMoves, McpEnds DEF Connected, GatewayInv, GatewayTyped
<1>2. ASSUME OneConnects PROVE OneConnects'
  <2>1. mcp'.connected /\ mcp'.stack = mcp.stack
    BY McpFields DEF Connected, GatewayInv, GatewayTyped
  <2>2. opened' \subseteq {mcp'.stack} \cup abandoned'
    BY <1>2, <2>1 DEF Connected, OneConnects
  <2>3. \A l \in Callers : ~CallerAt(l, "connect")'
    BY <1>2, NobodyConnects DEF Connected, GatewayInv, GatewayTyped
  <2> QED BY <2>1, <2>2, <2>3 DEF OneConnects
<1> QED BY <1>1, <1>2 DEF GatewayInv, Connected

LEMMA ConnectFailsKeeps ==
  ASSUME NEW k \in Callers, ConnectFails(k), GatewayInv
  PROVE  GatewayInv'
<1>1. GatewayTyped'
  BY CallerMoves, McpEnds DEF ConnectFails, GatewayInv, GatewayTyped
<1>2. ASSUME OneConnects PROVE OneConnects'
  <2>1. opened' \subseteq abandoned'
    BY <1>2 DEF ConnectFails, OneConnects
  <2>2. \A l \in Callers : ~CallerAt(l, "connect")'
    BY <1>2, NobodyConnects DEF ConnectFails, GatewayInv, GatewayTyped
  <2> QED BY <2>1, <2>2 DEF OneConnects
<1> QED BY <1>1, <1>2 DEF GatewayInv, ConnectFails

(* What cancelled turns leave. *)
LEMMA LeftStack ==
  ASSUME GatewayTyped, NEW K, LeaveStack(K)
  PROVE  /\ mcp' \in McpRec /\ mcp'.stack = mcp.stack /\ mcp'.connected = mcp.connected
         /\ abandoned \subseteq abandoned'
         /\ \A k \in K : CallerAt(k, "connect") => caller[k].stack \in abandoned'
         /\ mcp.connecting => mcp'.connecting \/ \E k \in K : CallerAt(k, "connect")
         /\ (\A k \in K : ~CallerAt(k, "connect")) => mcp' = mcp
<1> DEFINE left == {k \in K : CallerAt(k, "connect")}
<1>1. PICK b : b = (mcp.connecting /\ left = {})
  OBVIOUS
<1>2. b \in BOOLEAN
  BY <1>1, Zenon
<1>3. mcp' = [mcp EXCEPT !.connecting = b] /\ mcp \in McpRec
  BY <1>1 DEF LeaveStack, GatewayTyped
<1>4. mcp' \in McpRec
  BY <1>2, <1>3, McpEnds
<1>5. mcp'.stack = mcp.stack /\ mcp'.connected = mcp.connected /\ mcp'.connecting = b
  BY <1>3 DEF McpRec
<1>6. mcp.connecting => mcp'.connecting \/ \E k \in K : CallerAt(k, "connect")
  BY <1>1, <1>5
<1>7. (\A k \in K : ~CallerAt(k, "connect")) => mcp' = mcp
  <2> SUFFICES ASSUME \A k \in K : ~CallerAt(k, "connect") PROVE mcp' = mcp
    OBVIOUS
  <2>1. left = {}
    OBVIOUS
  <2>2. b = mcp.connecting
    BY <1>1, <1>2, <1>3, <2>1 DEF McpRec
  <2> QED BY <1>3, <2>2 DEF McpRec
<1>8. abandoned \subseteq abandoned' /\ \A k \in left : caller[k].stack \in abandoned'
  BY DEF LeaveStack
<1> QED BY <1>4, <1>5, <1>6, <1>7, <1>8

(* The tick that is cancelled may have been the one that connects. *)
LEMMA RearmKeeps ==
  ASSUME RearmCron, GatewayInv
  PROVE  GatewayInv'
<1> DEFINE k == "cron"
<1>0. k \in Callers /\ GoTo(k, "sleep") /\ LeaveStack({k}) /\ UNCHANGED <<phase, opened, stacks>>
  BY DEF Callers, RearmCron
<1>1. GatewayTyped'
  BY <1>0, CallerMoves, LeftStack DEF GatewayInv, GatewayTyped
<1>2. ASSUME OneConnects PROVE OneConnects'
  <2>1. mcp'.stack = mcp.stack /\ mcp'.connected = mcp.connected /\ abandoned \subseteq abandoned'
    BY <1>0, LeftStack DEF GatewayInv
  <2>2. CASE CallerAt(k, "connect")
    <3>1. \A l \in Callers : ~CallerAt(l, "connect")'
      BY <1>0, <1>2, <2>2, NobodyConnects DEF GatewayInv, GatewayTyped
    <3>2. mcp.stack \in abandoned'
      BY <1>0, <1>2, <2>2, LeftStack DEF GatewayInv, OneConnects
    <3>3. opened' \subseteq abandoned'
      BY <1>0, <1>2, <2>1, <3>2 DEF OneConnects
    <3> QED BY <3>1, <3>3 DEF OneConnects
  <2>3. CASE ~CallerAt(k, "connect")
    <3>1. mcp' = mcp
      BY <1>0, <2>3, LeftStack DEF GatewayInv
    <3>2. ASSUME NEW l \in Callers, CallerAt(l, "connect")'
          PROVE  CallerAt(l, "connect") /\ caller'[l] = caller[l]
      <4>1. caller'[l].pc = "connect"
        BY <3>2 DEF CallerAt
      <4>2. l # k
        BY <1>0, <4>1, CallerMoves DEF GatewayInv, GatewayTyped
      <4> QED BY <1>0, <4>1, <4>2, CallerMoves DEF CallerAt, GatewayInv, GatewayTyped
    <3>3. /\ opened' \subseteq {mcp'.stack} \cup abandoned'
          /\ mcp'.connecting \/ mcp'.connected \/ opened' \subseteq abandoned'
      BY <1>0, <1>2, <2>1, <3>1 DEF OneConnects
    <3> QED BY <1>2, <3>1, <3>2, <3>3 DEF OneConnects
  <2> QED BY <2>2, <2>3
<1> QED BY <1>0, <1>1, <1>2 DEF GatewayInv

(* The steps of the shutdown: the types are kept, and run has ended. *)
LEMMA ShutdownKeeps ==
  ASSUME GatewayInv,
         \/ Interrupt \/ AgentFails \/ CloseMcp
         \/ StopServices \/ StopAllReturns \/ EndProcess
  PROVE  GatewayInv' /\ phase' # "runs"
<1>1. phase' # "runs"
  BY DEF Interrupt, AgentFails, CloseMcp, StopServices, StopAllReturns, EndProcess
<1>2. ASSUME NEW K, CutOff(K), stacks' = stacks PROVE GatewayTyped'
  <2>1. DOMAIN caller' = Callers
    BY <1>2 DEF CutOff
  <2>2. mcp' \in McpRec
    BY <1>2, LeftStack DEF CutOff, GatewayInv
  <2> QED BY <1>2, <2>1, <2>2 DEF GatewayInv, GatewayTyped
<1>3. GatewayTyped'
  <2>1. CASE Interrupt \/ AgentFails \/ StopServices
    BY <2>1, <1>2 DEF Interrupt, AgentFails, StopServices
  <2>2. CASE CloseMcp
    BY <2>2, McpEnds DEF CloseMcp, GatewayInv, GatewayTyped
  <2>3. CASE StopAllReturns \/ EndProcess
    BY <2>3 DEF StopAllReturns, EndProcess, Mcp, GatewayInv, GatewayTyped
  <2> QED BY <2>1, <2>2, <2>3
<1> QED BY <1>1, <1>3 DEF GatewayInv

LEMMA GatewayBegins == GatewayInit => GatewayInv
<1> SUFFICES ASSUME GatewayInit PROVE GatewayInv
  OBVIOUS
<1>1. NoStack \in Nat /\ FALSE \in BOOLEAN
  BY DEF NoStack
<1>2. mcp \in McpRec
  BY <1>1 DEF GatewayInit, McpRec
<1>3. DOMAIN caller = Callers /\ stacks \in Nat
  BY DEF GatewayInit
<1>4. \A k \in Callers : ~CallerAt(k, "connect")
  BY DEF GatewayInit, CallerAt
<1> QED BY <1>2, <1>3, <1>4 DEF GatewayInit, GatewayInv, GatewayTyped, OneConnects

LEMMA GatewayKeeps == GatewayInv /\ [GatewayNext]_gatewayVars => GatewayInv'
<1> SUFFICES ASSUME GatewayInv, [GatewayNext]_gatewayVars PROVE GatewayInv'
  OBVIOUS
<1>1. CASE Opens \/ DialFails \/ Drops \/ Redials \/ StopChannel
  BY <1>1, QuietChannel DEF Opens, DialFails, Drops, Redials, StopChannel
<1>2. CASE CronWakes \/ HeartbeatWakes \/ HeartbeatDecides \/ HeartbeatNotifies
  BY <1>2, QuietCaller DEF CronWakes, HeartbeatWakes, HeartbeatDecides, HeartbeatNotifies, Callers
<1>3. ASSUME NEW k \in Callers, TurnFails(k) \/ DirectTurnEnds(k) PROVE GatewayInv'
  BY <1>3, QuietCaller DEF TurnFails, DirectTurnEnds
<1>4. ASSUME NEW k \in Callers, ConnectMcp(k) \/ Connected(k) \/ ConnectFails(k)
      PROVE  GatewayInv'
  BY <1>4, ConnectKeeps, ConnectedKeeps, ConnectFailsKeeps
<1>5. CASE \/ Interrupt \/ AgentFails \/ CloseMcp
           \/ StopServices \/ StopAllReturns \/ EndProcess
  BY <1>5, ShutdownKeeps
<1>6. CASE UNCHANGED gatewayVars
  BY <1>6, QuietChannel DEF gatewayVars, Mcp
<1> QED BY <1>1, <1>2, <1>3, <1>4, <1>5, <1>6, RearmKeeps DEF GatewayNext

(* No step makes a channel that was stopped connect again. *)
LEMMA NoRedial ==
  ASSUME [GatewayNext]_gatewayVars, ~keepsOn, link' = "dialing"
  PROVE  link = "dialing"
<1>1. CASE Opens \/ DialFails \/ Drops \/ Redials \/ StopChannel
  BY <1>1 DEF Opens, DialFails, Drops, Redials, StopChannel
<1>2. CASE CronWakes \/ HeartbeatWakes \/ HeartbeatDecides \/ HeartbeatNotifies
  BY <1>2 DEF CronWakes, HeartbeatWakes, HeartbeatDecides, HeartbeatNotifies, Channel
<1>3. CASE \E k \in Callers : TurnFails(k) \/ DirectTurnEnds(k) \/ ConnectMcp(k)
                             \/ Connected(k) \/ ConnectFails(k)
  BY <1>3 DEF TurnFails, DirectTurnEnds, ConnectMcp, Connected, ConnectFails, Channel
<1>4. CASE \/ Interrupt \/ AgentFails \/ CloseMcp
           \/ StopServices \/ StopAllReturns \/ EndProcess
  BY <1>4 DEF Interrupt, StartCancelled, AgentFails, CloseMcp, StopServices,
              StopAllReturns, EndProcess, Channel
<1>5. CASE UNCHANGED gatewayVars \/ RearmCron
  BY <1>5 DEF gatewayVars, RearmCron, Channel
<1> QED BY <1>1, <1>2, <1>3, <1>4, <1>5 DEF GatewayNext

(* While the gateway runs, whoever of the Agent, cron and the heartbeat    *)
(* connects to the MCP servers, every connection is on the one stack that  *)
(* close_mcp will close (agent/loop.py:269), or on one that a cancelled    *)
(* cron turn was filling (cron/service.py:210), and a channel that was     *)
(* stopped never begins to connect again (channels/whatsapp.py:44).        *)
THEOREM NothingEscapesShutdown == GatewaySpec => GatewayConnections
<1>1. GatewayInv' => (phase' = "runs" => opened' \subseteq {mcp'.stack} \cup abandoned')
  BY DEF GatewayInv, OneConnects
<1>2. GatewayInv /\ [GatewayNext]_gatewayVars =>
        [ /\ phase' = "runs" => opened' \subseteq {mcp'.stack} \cup abandoned'
          /\ ~keepsOn /\ link' = "dialing" => link = "dialing" ]_gatewayVars
  BY <1>1, GatewayKeeps, NoRedial
<1> QED BY <1>2, GatewayBegins, GatewayKeeps, PTL DEF GatewaySpec, GatewayConnections

(* The types of the gateway. Where the process and its channel stand.      *)
Places ==
  /\ phase \in {"runs", "closing", "closed", "stopping", "returned", "ended"}
  /\ platform \in Platform /\ keepsOn \in BOOLEAN
  /\ link \in {"dialing", "open", "waiting", "closed"}

LEMMA PlacesKept ==
  ASSUME Places, [GatewayNext]_gatewayVars
  PROVE  Places'
<1>1. CASE UNCHANGED <<phase, Channel>>
  BY <1>1 DEF Places, Channel
<1>2. CASE Opens \/ DialFails \/ Drops \/ Redials
  BY <1>2 DEF Places, Opens, DialFails, Drops, Redials
<1>3. CASE StopChannel
  <2>1. link' \in {link, "dialing", "closed"}
    BY <1>3 DEF StopChannel
  <2> QED BY <1>3, <2>1 DEF Places, StopChannel
<1>4. CASE Interrupt \/ AgentFails \/ CloseMcp \/ StopServices \/ StopAllReturns \/ EndProcess
  BY <1>4 DEF Places, Channel, Interrupt, StartCancelled, AgentFails, CloseMcp, StopServices,
              StopAllReturns, EndProcess
<1>5. CASE \/ CronWakes \/ HeartbeatWakes \/ HeartbeatDecides \/ HeartbeatNotifies
           \/ \E k \in Callers : \/ ConnectMcp(k) \/ Connected(k) \/ ConnectFails(k)
                                 \/ TurnFails(k) \/ DirectTurnEnds(k)
           \/ RearmCron
  BY <1>1, <1>5 DEF CronWakes, RearmCron, HeartbeatWakes, HeartbeatDecides, HeartbeatNotifies, ConnectMcp,
                    Connected, ConnectFails, TurnFails, DirectTurnEnds
<1>6. CASE UNCHANGED gatewayVars
  BY <1>1, <1>6 DEF gatewayVars, Channel
<1> QED BY <1>2, <1>3, <1>4, <1>5, <1>6 DEF GatewayNext

(* Every stack that is open, or that somebody fills, was made.             *)
CallerRow ==
  [pc: {"off", "sleep", "decide", "enter", "connect", "turn", "notify"}, stack: 0..MaxStacks]
StacksMade ==
  /\ caller \in [Callers -> CallerRow]
  /\ mcp \in [connecting: BOOLEAN, connected: BOOLEAN, stack: 0..MaxStacks]
  /\ stacks \in 0..MaxStacks /\ opened \subseteq 1..stacks /\ abandoned \subseteq 1..stacks
  /\ \A k \in Callers : CallerAt(k, "connect") => caller[k].stack \in 1..stacks

(* A caller that went anywhere but to connect.                             *)
LEMMA CallerStays ==
  ASSUME StacksMade, NEW k \in Callers,
         NEW pc \in {"off", "sleep", "decide", "enter", "turn", "notify"}, GoTo(k, pc)
  PROVE  /\ caller' \in [Callers -> CallerRow]
         /\ \A l \in Callers : CallerAt(l, "connect")' =>
              CallerAt(l, "connect") /\ caller'[l] = caller[l]
<1>1. [pc |-> pc, stack |-> NoStack] \in CallerRow
  BY GatewayAssumption DEF CallerRow, NoStack
<1>2. caller' = [caller EXCEPT ![k] = [pc |-> pc, stack |-> NoStack]]
  BY DEF GoTo
<1>3. caller' \in [Callers -> CallerRow]
  BY <1>1, <1>2 DEF StacksMade
<1> QED BY <1>2, <1>3 DEF StacksMade, CallerAt

LEMMA LeftMade ==
  ASSUME StacksMade, NEW K \in SUBSET Callers, LeaveStack(K)
  PROVE  /\ mcp' \in [connecting: BOOLEAN, connected: BOOLEAN, stack: 0..MaxStacks]
         /\ abandoned' \subseteq 1..stacks
<1>1. PICK b : b = (mcp.connecting /\ {k \in K : CallerAt(k, "connect")} = {})
  OBVIOUS
<1>2. b \in BOOLEAN
  BY <1>1, Zenon
<1>3. mcp' = [mcp EXCEPT !.connecting = b]
  BY <1>1 DEF LeaveStack
<1>4. abandoned' \subseteq 1..stacks
  BY DEF LeaveStack, StacksMade
<1> QED BY <1>2, <1>3, <1>4 DEF StacksMade

LEMMA CutOffStays ==
  ASSUME StacksMade, NEW K \in SUBSET Callers, CutOff(K), stacks' = stacks, opened' = opened
  PROVE  StacksMade'
<1> DEFINE Row(k) == IF k \in K THEN [pc |-> "off", stack |-> NoStack] ELSE caller[k]
<1>1. caller' = [k \in Callers |-> Row(k)]
  BY DEF CutOff
<1>2. \A k \in Callers : Row(k) \in CallerRow
  BY GatewayAssumption DEF StacksMade, CallerRow, NoStack
<1>3. \A k \in Callers : caller'[k] = Row(k)
  BY <1>1
<1>4. \A k \in Callers : CallerAt(k, "connect")' => CallerAt(k, "connect") /\ caller'[k] = caller[k]
  BY <1>3 DEF CallerAt
<1>5. /\ mcp' \in [connecting: BOOLEAN, connected: BOOLEAN, stack: 0..MaxStacks]
      /\ abandoned' \subseteq 1..stacks
  BY LeftMade DEF CutOff
<1> QED BY <1>1, <1>2, <1>4, <1>5 DEF StacksMade

LEMMA ConnectingMade ==
  ASSUME StacksMade, NEW k \in Callers, ConnectMcp(k) \/ Connected(k) \/ ConnectFails(k)
  PROVE  StacksMade'
<1> USE GatewayAssumption DEF NoStack
<1>1. CASE ConnectMcp(k) /\ GoTo(k, "turn") /\ UNCHANGED Mcp
  BY <1>1, CallerStays DEF Mcp, StacksMade
<1>2. CASE /\ stacks < MaxStacks
           /\ stacks' = stacks + 1 /\ opened' = opened \cup {stacks'}
           /\ mcp' = [mcp EXCEPT !.connecting = TRUE, !.stack = stacks']
           /\ caller' = [caller EXCEPT ![k] = [pc |-> "connect", stack |-> stacks']]
           /\ UNCHANGED abandoned
  <2>1. stacks' \in 0..MaxStacks /\ stacks' \in 1..stacks' /\ opened' \subseteq 1..stacks'
        /\ 1..stacks \subseteq 1..stacks' /\ abandoned' \subseteq 1..stacks'
    BY <1>2 DEF StacksMade
  <2>2. mcp' \in [connecting: BOOLEAN, connected: BOOLEAN, stack: 0..MaxStacks]
    BY <1>2, <2>1 DEF StacksMade
  <2>3. caller' \in [Callers -> CallerRow]
    BY <1>2, <2>1 DEF StacksMade, CallerRow
  <2>4. \A l \in Callers : CallerAt(l, "connect")' => caller'[l].stack \in 1..stacks'
    BY <1>2, <2>1 DEF StacksMade, CallerAt
  <2> QED BY <2>1, <2>2, <2>3, <2>4 DEF StacksMade
<1>3. CASE Connected(k)
  <2>1. mcp' \in [connecting: BOOLEAN, connected: BOOLEAN, stack: 0..MaxStacks]
    BY <1>3 DEF Connected, StacksMade
  <2>2. opened' \subseteq 1..stacks /\ stacks' = stacks /\ abandoned' = abandoned
    BY <1>3 DEF Connected, StacksMade
  <2> QED BY <1>3, <2>1, <2>2, CallerStays DEF Connected, StacksMade
<1>4. CASE ConnectFails(k)
  <2> DEFINE M == [connecting: BOOLEAN, connected: BOOLEAN, stack: 0..MaxStacks]
  <2>1. mcp' \in M
    <3>1. 0 \in 0..MaxStacks
      OBVIOUS
    <3>2. mcp \in M /\ mcp' = [mcp EXCEPT !.connecting = FALSE, !.stack = 0]
      BY <1>4 DEF ConnectFails, StacksMade
    <3> QED BY <3>1, <3>2, Zenon
  <2>2. opened' \subseteq 1..stacks /\ stacks' = stacks /\ abandoned' = abandoned
    BY <1>4 DEF ConnectFails, StacksMade
  <2> QED BY <1>4, <2>1, <2>2, CallerStays DEF ConnectFails, StacksMade
<1> QED BY <1>1, <1>2, <1>3, <1>4 DEF ConnectMcp

LEMMA StacksKept ==
  ASSUME StacksMade, [GatewayNext]_gatewayVars
  PROVE  StacksMade'
<1>1. CASE UNCHANGED <<caller, Mcp>>
  BY <1>1 DEF StacksMade, Mcp, CallerAt
<1>2. ASSUME NEW k \in Callers,
             NEW pc \in {"off", "sleep", "decide", "enter", "turn", "notify"},
             GoTo(k, pc), UNCHANGED Mcp
      PROVE  StacksMade'
  BY <1>2, CallerStays DEF StacksMade, Mcp
<1>3. CASE CronWakes \/ HeartbeatWakes \/ HeartbeatDecides \/ HeartbeatNotifies
  BY <1>2, <1>3 DEF CronWakes, HeartbeatWakes, HeartbeatDecides, HeartbeatNotifies, Callers
<1>4. ASSUME NEW k \in Callers, TurnFails(k) \/ DirectTurnEnds(k) PROVE StacksMade'
  BY <1>2, <1>4 DEF TurnFails, DirectTurnEnds
<1>5. CASE Interrupt \/ AgentFails \/ StopServices
  <2>1. {"agent"} \in SUBSET Callers /\ Callers \in SUBSET Callers
    BY DEF Callers
  <2> QED BY <1>5, <2>1, CutOffStays DEF Interrupt, AgentFails, StopServices
<1>5a. CASE RearmCron
  <2>1. "cron" \in Callers /\ {"cron"} \in SUBSET Callers
    BY DEF Callers
  <2>2. /\ GoTo("cron", "sleep") /\ LeaveStack({"cron"})
        /\ stacks' = stacks /\ opened' = opened
    BY <1>5a DEF RearmCron
  <2>3. /\ mcp' \in [connecting: BOOLEAN, connected: BOOLEAN, stack: 0..MaxStacks]
        /\ abandoned' \subseteq 1..stacks
    BY <2>1, <2>2, LeftMade
  <2>4. /\ caller' \in [Callers -> CallerRow]
        /\ \A l \in Callers : CallerAt(l, "connect")' =>
             CallerAt(l, "connect") /\ caller'[l] = caller[l]
    BY <2>1, <2>2, CallerStays
  <2> QED BY <2>2, <2>3, <2>4 DEF StacksMade
<1>6. CASE CloseMcp
  <2>1. mcp' \in [connecting: BOOLEAN, connected: BOOLEAN, stack: 0..MaxStacks]
    BY <1>6, GatewayAssumption DEF CloseMcp, StacksMade, NoStack
  <2> QED BY <1>6, <2>1 DEF CloseMcp, StacksMade, CallerAt
<1>7. CASE EndProcess
  BY <1>7 DEF EndProcess, StacksMade, CallerAt
<1>8. CASE Opens \/ DialFails \/ Drops \/ Redials \/ StopChannel \/ StopAllReturns
  BY <1>1, <1>8 DEF Opens, DialFails, Drops, Redials, StopChannel, StopAllReturns
<1>9. CASE UNCHANGED gatewayVars
  BY <1>1, <1>9 DEF gatewayVars, Mcp
<1> QED BY <1>3, <1>4, <1>5, <1>5a, <1>6, <1>7, <1>8, <1>9, ConnectingMade DEF GatewayNext

LEMMA StacksBegin == GatewayInit => Places /\ StacksMade
<1> SUFFICES ASSUME GatewayInit PROVE Places /\ StacksMade
  OBVIOUS
<1>1. Places
  BY DEF GatewayInit, Places
<1>2. 0 \in 0..MaxStacks /\ NoStack = 0
  BY GatewayAssumption DEF NoStack
<1>3. caller \in [Callers -> CallerRow]
  BY <1>2 DEF GatewayInit, CallerRow
<1>4. \A k \in Callers : ~CallerAt(k, "connect")
  BY DEF GatewayInit, CallerAt
<1>5. mcp \in [connecting: BOOLEAN, connected: BOOLEAN, stack: 0..MaxStacks]
  BY <1>2 DEF GatewayInit
<1> QED BY <1>1, <1>2, <1>3, <1>4, <1>5 DEF GatewayInit, StacksMade

(* The types of the gateway, for any platforms and any number of attempts  *)
(* to connect: what is open, and what a caller fills while it connects, is *)
(* a stack that _connect_mcp made (agent/loop.py:269).                     *)
THEOREM OpenStacksWereMade == GatewaySpec => []GatewayTypeOK
<1>1. Places /\ StacksMade => GatewayTypeOK
  BY DEF Places, StacksMade, CallerRow, GatewayTypeOK
<1> QED BY <1>1, StacksBegin, PlacesKept, StacksKept, PTL DEF GatewaySpec

-----------------------------------------------------------------------------
(* Experience and Skill evolution.  What the argument needs of the types.  *)
WorkPc == {"none", "ready", "assess", "sleep"} \cup Applying
WorkRow == [pc: WorkPc, a: Assessment, at: SUBSET Cluster, due: SUBSET Cluster]
ClusterRow ==
  [status: {"none", "collecting", "blocked", "activated"}, count: Nat, draft: BOOLEAN]
CWorkPc == {"none", "ready", "synthesize", "validate", "settle", "sleep"}
CWorkRow == [pc: CWorkPc, held: ClusterRow, old: SUBSET Cluster]

ExpTyped ==
  /\ DOMAIN episode = Root
  /\ work \in [Root -> WorkRow]
  /\ cluster \in [Cluster -> ClusterRow]
  /\ support \in [Cluster -> SUBSET Root]
  /\ cwork \in [Cluster -> CWorkRow]
  /\ lesson \in [Cluster -> LessonRec]
  /\ candidate \in [Revision -> CandidateRec]

LEMMA WorkPcs ==
  /\ "none" \in WorkPc /\ "ready" \in WorkPc /\ "assess" \in WorkPc /\ "sleep" \in WorkPc
  /\ "observe" \in WorkPc /\ "follow" \in WorkPc /\ "counter" \in WorkPc /\ "reopen" \in WorkPc
  /\ "promote" \in WorkPc /\ "record" \in WorkPc /\ "finish" \in WorkPc
BY DEF WorkPc, Applying

LEMMA NoWorkTyped ==
  /\ Nothing \in Assessment
  /\ NoWork \in WorkRow
  /\ NoWork.pc = "none" /\ NoWork.a = Nothing
<1>1. FALSE \in BOOLEAN /\ {} \in SUBSET Cluster
  OBVIOUS
<1>2. Nothing \in Assessment
  BY <1>1, Zenon DEF Nothing, Assessment
<1>3. NoWork \in WorkRow
  BY <1>1, <1>2, WorkPcs DEF NoWork, WorkRow
<1> QED BY <1>2, <1>3 DEF NoWork

(* A row of work at another place, with the assessment it had. *)
LEMMA WorkGoes ==
  ASSUME NEW w \in WorkRow, NEW pc \in WorkPc
  PROVE  /\ [w EXCEPT !.pc = pc] \in WorkRow
         /\ [w EXCEPT !.pc = pc].pc = pc
         /\ [w EXCEPT !.pc = pc].a = w.a
BY DEF WorkRow

LEMMA ReadyTyped == Ready \in WorkRow /\ Ready.pc = "ready" /\ Ready.a = Nothing
BY NoWorkTyped, WorkPcs, WorkGoes DEF Ready

(* What a coroutine's row is made of, whatever else a step puts there. *)
LEMMA WorkRowIs ==
  ASSUME NEW pc \in WorkPc, NEW a \in Assessment, NEW at \in SUBSET Cluster,
         NEW due \in SUBSET Cluster
  PROVE  [pc |-> pc, a |-> a, at |-> at, due |-> due] \in WorkRow
BY DEF WorkRow

(* An assessment with fewer patterns or Lessons left to handle. *)
LEMMA AssessmentShrinks ==
  ASSUME NEW a \in Assessment, NEW S \in SUBSET Cluster
  PROVE  /\ [a EXCEPT !.seen = S] \in Assessment
         /\ [a EXCEPT !.against = S] \in Assessment
         /\ [a EXCEPT !.seen = S].seen = S
         /\ [a EXCEPT !.seen = S].reusable = a.reusable
         /\ [a EXCEPT !.against = S].seen = a.seen
         /\ [a EXCEPT !.against = S].reusable = a.reusable
BY DEF Assessment

(* What one job's coroutine does leaves the others where they are. *)
WorkStep(r, v) ==
  /\ v \in WorkRow
  /\ work' = [work EXCEPT ![r] = v]

SeenTo(r, S, pc, at) ==
  work' = [work EXCEPT ![r].a.seen = S, ![r].pc = pc, ![r].at = at]
AgainstTo(r, S, pc, at) ==
  work' = [work EXCEPT ![r].a.against = S, ![r].at = at, ![r].pc = pc]
RowTo(r, pc, at, due) ==
  \/ work' = [work EXCEPT ![r].pc = pc]
  \/ work' = [work EXCEPT ![r].pc = pc, ![r].at = at]
  \/ work' = [work EXCEPT ![r].pc = pc, ![r].at = at, ![r].due = due]

LEMMA ObserveStep ==
  ASSUME NEW r \in Root, NEW S \in SUBSET Cluster, NEW pc \in WorkPc,
         NEW at \in SUBSET Cluster, work \in [Root -> WorkRow],
         SeenTo(r, S, pc, at)
  PROVE  \E v : WorkStep(r, v) /\ v.pc = pc /\ v.a = [work[r].a EXCEPT !.seen = S]
<1> DEFINE w == work[r]
<1>1. w \in WorkRow /\ w.a \in Assessment
  BY DEF WorkRow
<1>2. PICK b : b = [w.a EXCEPT !.seen = S]
  OBVIOUS
<1>3. b \in Assessment
  BY <1>1, <1>2, AssessmentShrinks
<1> DEFINE v == [w EXCEPT !.a = b, !.pc = pc, !.at = at]
<1>4. v \in WorkRow /\ v.pc = pc /\ v.a = b
  BY <1>1, <1>3 DEF WorkRow
<1>5. work' = [work EXCEPT ![r] = [w EXCEPT !.a = [w.a EXCEPT !.seen = S], !.pc = pc, !.at = at]]
  BY Zenon DEF SeenTo
<1>6. work' = [work EXCEPT ![r] = v]
  BY <1>2, <1>5, Zenon
<1> HIDE DEF v
<1> QED BY <1>2, <1>4, <1>6 DEF WorkStep

LEMMA CounterStep ==
  ASSUME NEW r \in Root, NEW S \in SUBSET Cluster, NEW pc \in WorkPc,
         NEW at \in SUBSET Cluster, work \in [Root -> WorkRow],
         AgainstTo(r, S, pc, at)
  PROVE  \E v : WorkStep(r, v) /\ v.pc = pc /\ v.a = [work[r].a EXCEPT !.against = S]
<1> DEFINE w == work[r]
<1>1. w \in WorkRow /\ w.a \in Assessment
  BY DEF WorkRow
<1>2. PICK b : b = [w.a EXCEPT !.against = S]
  OBVIOUS
<1>3. b \in Assessment
  BY <1>1, <1>2, AssessmentShrinks
<1> DEFINE v == [w EXCEPT !.a = b, !.at = at, !.pc = pc]
<1>4. v \in WorkRow /\ v.pc = pc /\ v.a = b
  BY <1>1, <1>3 DEF WorkRow
<1>5. work' = [work EXCEPT ![r] = [w EXCEPT !.a = [w.a EXCEPT !.against = S], !.at = at, !.pc = pc]]
  BY Zenon DEF AgainstTo
<1>6. work' = [work EXCEPT ![r] = v]
  BY <1>2, <1>5, Zenon
<1> HIDE DEF v
<1> QED BY <1>2, <1>4, <1>6 DEF WorkStep

LEMMA RowStep ==
  ASSUME NEW r \in Root, NEW pc \in WorkPc, NEW at \in SUBSET Cluster,
         NEW due \in SUBSET Cluster, work \in [Root -> WorkRow],
         RowTo(r, pc, at, due)
  PROVE  \E v : WorkStep(r, v) /\ v.pc = pc /\ v.a = work[r].a
<1> DEFINE w == work[r]
<1>1. w \in WorkRow
  OBVIOUS
<1>2. CASE work' = [work EXCEPT ![r].pc = pc]
  <2> DEFINE v == [w EXCEPT !.pc = pc]
  <2>1. v \in WorkRow /\ v.pc = pc /\ v.a = w.a
    BY <1>1, WorkGoes
  <2>2. work' = [work EXCEPT ![r] = v]
    BY <1>2, Zenon
  <2> HIDE DEF v
  <2> QED BY <2>1, <2>2 DEF WorkStep
<1>3. CASE work' = [work EXCEPT ![r].pc = pc, ![r].at = at]
  <2> DEFINE v == [w EXCEPT !.pc = pc, !.at = at]
  <2>1. v \in WorkRow /\ v.pc = pc /\ v.a = w.a
    BY <1>1 DEF WorkRow
  <2>2. work' = [work EXCEPT ![r] = v]
    BY <1>3, Zenon
  <2> HIDE DEF v
  <2> QED BY <2>1, <2>2 DEF WorkStep
<1>4. CASE work' = [work EXCEPT ![r].pc = pc, ![r].at = at, ![r].due = due]
  <2> DEFINE v == [w EXCEPT !.pc = pc, !.at = at, !.due = due]
  <2>1. v \in WorkRow /\ v.pc = pc /\ v.a = w.a
    BY <1>1 DEF WorkRow
  <2>2. work' = [work EXCEPT ![r] = v]
    BY <1>4, Zenon
  <2> HIDE DEF v
  <2> QED BY <2>1, <2>2 DEF WorkStep
<1> QED BY <1>2, <1>3, <1>4 DEF RowTo

(* Where the coroutine of a job may go in one step: nowhere; out of the    *)
(* writing of what the model answered, with that or with nothing; from the *)
(* answer into the writing, alone; or on with the writing, with less left  *)
(* to write.                                                               *)
Answered(s, a) ==
  /\ a.seen # {} => IsFailure(s)
  /\ a.reusable => IsSuccess(s)
RowGoes(s) ==
  \/ work'[s] = work[s]
  \/ work'[s].pc \notin Applying /\ work'[s].a \in {Nothing, work[s].a}
  \/ /\ ~Busy /\ work'[s].pc = "observe" /\ Answered(s, work'[s].a)
     /\ \A t \in Root : t # s => work'[t] = work[t]
  \/ /\ work[s].pc \in Applying /\ work'[s].pc \in Applying
     /\ work'[s].a.seen \subseteq work[s].a.seen
     /\ work'[s].a.reusable = work[s].a.reusable
     /\ work'[s].pc = "follow" => work[s].a.seen # {}
     /\ work'[s].pc = "promote" => Propose(s)

LEMMA StepAt ==
  ASSUME NEW r \in Root, NEW v, work \in [Root -> WorkRow], WorkStep(r, v)
  PROVE  /\ work' \in [Root -> WorkRow] /\ work'[r] = v
         /\ \A s \in Root : s # r => work'[s] = work[s]
BY DEF WorkStep

LEMMA AtRest ==
  ASSUME NEW r \in Root, NEW v, work \in [Root -> WorkRow], WorkStep(r, v),
         v.pc \notin Applying, v.a \in {Nothing, work[r].a}
  PROVE  work' \in [Root -> WorkRow] /\ \A s \in Root : RowGoes(s)
BY StepAt DEF RowGoes

LEMMA GoesOn ==
  ASSUME NEW r \in Root, NEW v, work \in [Root -> WorkRow], WorkStep(r, v),
         work[r].pc \in Applying, v.pc \in Applying,
         v.a.seen \subseteq work[r].a.seen, v.a.reusable = work[r].a.reusable,
         v.pc = "follow" => work[r].a.seen # {},
         v.pc = "promote" => Propose(r)
  PROVE  work' \in [Root -> WorkRow] /\ \A s \in Root : RowGoes(s)
BY StepAt DEF RowGoes

LEMMA IdleWork ==
  ASSUME NEW r \in Root, ExpTyped,
         \/ \E t \in FinishedTask : CompleteTask(r, t)
         \/ RunJob(r) \/ JobRaises(r) \/ RetryJob(r) \/ FinishJob(r)
  PROVE  work' \in [Root -> WorkRow] /\ \A s \in Root : RowGoes(s)
<1>1. work \in [Root -> WorkRow]
  BY DEF ExpTyped
<1>2. CASE \/ \E t \in FinishedTask : CompleteTask(r, t)
           \/ RetryJob(r)
  <2>1. WorkStep(r, Ready)
    BY <1>2, ReadyTyped DEF CompleteTask, RetryJob, WorkStep
  <2> QED BY <1>1, <2>1, ReadyTyped, AtRest DEF Applying
<1>3. CASE FinishJob(r) \/ work' = [work EXCEPT ![r] = NoWork]
  <2>1. WorkStep(r, NoWork)
    BY <1>3, NoWorkTyped DEF FinishJob, WorkStep
  <2> QED BY <1>1, <2>1, NoWorkTyped, AtRest DEF Applying
<1>4. CASE work' = [work EXCEPT ![r].pc = "assess"]
  <2>1. PICK v : WorkStep(r, v) /\ v.pc = "assess" /\ v.a = work[r].a
    <3>1. {} \in SUBSET Cluster
      OBVIOUS
    <3> QED BY <1>1, <1>4, <3>1, RowStep, WorkPcs DEF RowTo
  <2> QED BY <1>1, <2>1, AtRest DEF Applying
<1>5. CASE JobRaises(r)
  <2> DEFINE v == [NoWork EXCEPT !.pc = Slept(job[r])]
  <2>1. Slept(job[r]) \in {"none", "sleep"}
    BY DEF Slept
  <2>2. v \in WorkRow /\ v.pc \in {"none", "sleep"} /\ v.a = Nothing
    BY <2>1, NoWorkTyped, WorkPcs, WorkGoes
  <2>3. WorkStep(r, v)
    BY <1>5, <2>2 DEF JobRaises, WorkStep
  <2> HIDE DEF v
  <2> QED BY <1>1, <2>2, <2>3, AtRest DEF Applying
<1> QED BY <1>2, <1>3, <1>4, <1>5 DEF RunJob

LEMMA AssessedWork ==
  ASSUME NEW r \in Root, NEW a \in Assessment, ExpTyped, Assessed(r, a)
  PROVE  work' \in [Root -> WorkRow] /\ \A s \in Root : RowGoes(s)
<1>1. work \in [Root -> WorkRow]
  BY DEF ExpTyped
<1>2. PICK seen : seen = IF IsFailure(r) THEN a.seen ELSE {}
  OBVIOUS
<1>3. PICK against : against = IF IsSuccess(r) THEN a.against ELSE {}
  OBVIOUS
<1>4. PICK reusable : reusable = (a.reusable /\ IsSuccess(r))
  OBVIOUS
<1>5. PICK conflict : conflict = (a.conflict /\ IsSuccess(r))
  OBVIOUS
<1> DEFINE used == [seen |-> seen, against |-> against, reusable |-> reusable,
                    conflict |-> conflict]
<1>6. used \in Assessment
  <2>1. seen \in SUBSET Cluster /\ against \in SUBSET Cluster
    BY <1>2, <1>3 DEF Assessment
  <2>2. reusable \in BOOLEAN /\ conflict \in BOOLEAN
    BY <1>4, <1>5, Zenon
  <2> QED BY <2>1, <2>2, Zenon DEF Assessment
<1>7. used.seen = seen /\ used.reusable = reusable
  OBVIOUS
<1>8. work' = [work EXCEPT ![r] = [NoWork EXCEPT !.pc = "observe", !.a = used]]
  BY <1>2, <1>3, <1>4, <1>5, Zenon DEF Assessed
<1> HIDE DEF used
<1> DEFINE v == [NoWork EXCEPT !.pc = "observe", !.a = used]
<1>9. v \in WorkRow /\ v.pc = "observe" /\ v.a = used
  BY <1>6, NoWorkTyped, WorkPcs DEF WorkRow
<1>10. WorkStep(r, v)
  BY <1>8, <1>9 DEF WorkStep
<1> HIDE DEF v
<1>11. work'[r].pc = "observe" /\ work'[r].a = used
  BY <1>1, <1>9, <1>10, StepAt
<1>12. Answered(r, used)
  BY <1>2, <1>4, <1>7 DEF Answered
<1>13. RowGoes(r)
  BY <1>1, <1>10, <1>11, <1>12, StepAt DEF RowGoes, Assessed
<1> QED BY <1>1, <1>10, <1>13, StepAt DEF RowGoes

LEMMA WritingWork ==
  ASSUME NEW r \in Root, NEW c \in Cluster, ExpTyped,
         \/ Observe(r, c) \/ Attach(r, c) \/ EnqueueCluster(r, c)
         \/ Counter(r, c) \/ Reopen(r, c)
  PROVE  work' \in [Root -> WorkRow] /\ \A s \in Root : RowGoes(s)
<1>1. work \in [Root -> WorkRow] /\ work[r] \in WorkRow /\ work[r].a \in Assessment
  BY DEF ExpTyped, WorkRow
<1>2. work[r].pc \in Applying
  BY DEF Observe, Attach, EnqueueCluster, Counter, Reopen, Applying
<1>3. CASE Observe(r, c)
  <2>1. PICK pc, at : /\ pc \in {"observe", "follow"} /\ at \in SUBSET Cluster
                      /\ work' = [work EXCEPT ![r].a.seen = @ \ {c}, ![r].pc = pc, ![r].at = at]
    BY <1>3 DEF Observe
  <2>2. PICK S : S = work[r].a.seen \ {c}
    OBVIOUS
  <2>3. SeenTo(r, S, pc, at)
    BY <2>1, <2>2, Zenon DEF SeenTo
  <2>4. S \in SUBSET Cluster /\ pc \in WorkPc
    BY <1>1, <2>1, <2>2, WorkPcs DEF Assessment
  <2>5. PICK v : WorkStep(r, v) /\ v.pc = pc /\ v.a = [work[r].a EXCEPT !.seen = S]
    BY <1>1, <2>1, <2>3, <2>4, ObserveStep
  <2>6. v.a.seen = S /\ v.a.reusable = work[r].a.reusable
    BY <1>1, <2>4, <2>5, AssessmentShrinks
  <2>7. work[r].a.seen # {}
    BY <1>3 DEF Observe
  <2> QED BY <1>1, <1>2, <2>1, <2>2, <2>5, <2>6, <2>7, GoesOn DEF Applying
<1>4. CASE Counter(r, c)
  <2>1. PICK pc, at : /\ pc \in {"counter", "reopen"} /\ at \in SUBSET Cluster
                      /\ work' = [work EXCEPT ![r].a.against = @ \ {c}, ![r].at = at, ![r].pc = pc]
    BY <1>4 DEF Counter
  <2>2. PICK S : S = work[r].a.against \ {c}
    OBVIOUS
  <2>3. AgainstTo(r, S, pc, at)
    BY <2>1, <2>2, Zenon DEF AgainstTo
  <2>4. S \in SUBSET Cluster /\ pc \in WorkPc
    BY <1>1, <2>1, <2>2, WorkPcs DEF Assessment
  <2>5. PICK v : WorkStep(r, v) /\ v.pc = pc /\ v.a = [work[r].a EXCEPT !.against = S]
    BY <1>1, <2>1, <2>3, <2>4, CounterStep
  <2>6. v.a.seen = work[r].a.seen /\ v.a.reusable = work[r].a.reusable
    BY <1>1, <2>4, <2>5, AssessmentShrinks
  <2> QED BY <1>1, <1>2, <2>1, <2>5, <2>6, GoesOn DEF Applying
<1>5. CASE Attach(r, c) \/ EnqueueCluster(r, c) \/ Reopen(r, c)
  <2>1. work[r].due \cup {c} \in SUBSET Cluster /\ {} \in SUBSET Cluster
    BY <1>1 DEF WorkRow
  <2>2. PICK due : due = work[r].due \cup {c}
    OBVIOUS
  <2>3. PICK pc : /\ pc \in {"observe", "counter"}
                  /\ \/ work' = [work EXCEPT ![r].pc = pc, ![r].at = {}]
                     \/ work' = [work EXCEPT ![r].pc = pc, ![r].at = {}, ![r].due = @ \cup {c}]
    BY <1>5 DEF Attach, EnqueueCluster, Reopen
  <2>4. RowTo(r, pc, {}, due)
    BY <2>2, <2>3, Zenon DEF RowTo
  <2>5. PICK v : WorkStep(r, v) /\ v.pc = pc /\ v.a = work[r].a
    BY <1>1, <2>1, <2>2, <2>3, <2>4, RowStep, WorkPcs
  <2> QED BY <1>1, <1>2, <2>3, <2>5, GoesOn DEF Applying
<1> QED BY <1>3, <1>4, <1>5

LEMMA PromotingWork ==
  ASSUME NEW r \in Root, ExpTyped, Propose(r) \/ Promote(r) \/ RecordPromotion(r)
  PROVE  work' \in [Root -> WorkRow] /\ \A s \in Root : RowGoes(s)
<1>1. work \in [Root -> WorkRow]
  BY DEF ExpTyped
<1>2. work[r].pc \in Applying
  BY DEF Propose, Promote, RecordPromotion, Applied, Applying
<1>3. PICK pc : /\ pc \in {"promote", "record", "finish"} /\ (pc = "promote" => Propose(r))
                /\ work' = [work EXCEPT ![r].pc = pc]
  <2>1. CASE Propose(r)
    BY <2>1 DEF Propose
  <2>2. CASE Promote(r)
    BY <2>2 DEF Promote
  <2>3. CASE RecordPromotion(r)
    BY <2>3 DEF RecordPromotion
  <2> QED BY <2>1, <2>2, <2>3
<1>4. pc \in WorkPc /\ {} \in SUBSET Cluster
  BY <1>3, WorkPcs
<1>5. PICK v : WorkStep(r, v) /\ v.pc = pc /\ v.a = work[r].a
  BY <1>1, <1>3, <1>4, RowStep DEF RowTo
<1> QED BY <1>1, <1>2, <1>3, <1>5, GoesOn DEF Applying

LEMMA WorkGoesOn ==
  ASSUME ExpTyped, [ExpNext]_expVars
  PROVE  work' \in [Root -> WorkRow] /\ \A s \in Root : RowGoes(s)
<1>1. work \in [Root -> WorkRow]
  BY DEF ExpTyped
<1>2. ASSUME work' = work PROVE work' \in [Root -> WorkRow] /\ \A s \in Root : RowGoes(s)
  BY <1>1, <1>2 DEF RowGoes
<1>3. CASE RestartExperience
  <2>1. \A s \in Root : work'[s] \in {Ready, NoWork}
    BY <1>3 DEF RestartExperience
  <2>2. work' = [s \in Root |-> work'[s]]
    BY <1>3 DEF RestartExperience
  <2>3. \A s \in Root : /\ work'[s] \in WorkRow
                        /\ work'[s].pc \notin Applying /\ work'[s].a = Nothing
    BY <2>1, ReadyTyped, NoWorkTyped DEF Applying
  <2> QED BY <2>2, <2>3 DEF RowGoes
<1>4. ASSUME NEW c \in Cluster,
             \/ RunClusterJob(c) \/ Synthesized(c) \/ Rejected(c) \/ Settle(c)
             \/ \E old \in SUBSET Cluster : Accepted(c, old)
             \/ \E d \in Cluster : Supersede(c, d)
             \/ ClusterJobRaises(c) \/ RetryClusterJob(c)
      PROVE  work' = work
  BY <1>4 DEF RunClusterJob, Synthesized, Rejected, Settle, Accepted, Supersede,
              ClusterJobRaises, RetryClusterJob
<1>5. CASE UNCHANGED expVars
  BY <1>2, <1>5 DEF expVars
<1> QED BY <1>2, <1>3, <1>4, <1>5, IdleWork, AssessedWork, WritingWork, PromotingWork DEF ExpNext

(* Only a task that is completed writes its episode. *)
LEMMA OneEpisode ==
  ASSUME [ExpNext]_expVars
  PROVE  (\A r \in Root : \A t \in FinishedTask : ~CompleteTask(r, t)) => episode' = episode
<1>1. ASSUME NEW r \in Root,
             \/ RunJob(r) \/ JobRaises(r) \/ RetryJob(r)
             \/ \E a \in Assessment : Assessed(r, a)
             \/ Propose(r) \/ Promote(r) \/ RecordPromotion(r) \/ FinishJob(r)
      PROVE  episode' = episode
  BY <1>1 DEF RunJob, JobRaises, RetryJob, Assessed, Propose, Promote, RecordPromotion, FinishJob
<1>2. ASSUME NEW r \in Root, NEW c \in Cluster,
             \/ Observe(r, c) \/ Attach(r, c) \/ EnqueueCluster(r, c)
             \/ Counter(r, c) \/ Reopen(r, c)
      PROVE  episode' = episode
  BY <1>2 DEF Observe, Attach, EnqueueCluster, Counter, Reopen
<1>3. ASSUME NEW c \in Cluster,
             \/ RunClusterJob(c) \/ Synthesized(c) \/ Rejected(c) \/ Settle(c)
             \/ \E old \in SUBSET Cluster : Accepted(c, old)
             \/ \E d \in Cluster : Supersede(c, d)
             \/ ClusterJobRaises(c) \/ RetryClusterJob(c)
      PROVE  episode' = episode
  BY <1>3 DEF RunClusterJob, Synthesized, Rejected, Settle, Accepted, Supersede,
              ClusterJobRaises, RetryClusterJob
<1>4. CASE RestartExperience
  BY <1>4 DEF RestartExperience
<1>5. CASE UNCHANGED expVars
  BY <1>5 DEF expVars
<1> QED BY <1>1, <1>2, <1>3, <1>4, <1>5 DEF ExpNext

(* How a task ended is written once. *)
LEMMA EpisodeStays ==
  ASSUME ExpTyped, [ExpNext]_expVars
  PROVE  /\ DOMAIN episode' = Root
         /\ \A r \in Root : /\ IsFailure(r) => IsFailure(r)'
                            /\ IsSuccess(r) => IsSuccess(r)'
<1>1. ASSUME NEW r \in Root, NEW t \in FinishedTask, CompleteTask(r, t)
      PROVE  /\ DOMAIN episode' = Root
             /\ \A s \in Root : /\ IsFailure(s) => IsFailure(s)'
                                /\ IsSuccess(s) => IsSuccess(s)'
  BY <1>1 DEF CompleteTask, ExpTyped, IsFailure, IsSuccess
<1>2. ASSUME episode' = episode
      PROVE  /\ DOMAIN episode' = Root
             /\ \A s \in Root : /\ IsFailure(s) => IsFailure(s)'
                                /\ IsSuccess(s) => IsSuccess(s)'
  BY <1>2 DEF ExpTyped, IsFailure, IsSuccess
<1> QED BY <1>1, <1>2, OneEpisode

(* The steps that touch neither the records of clusters nor their Lessons. *)
ElsewhereStep ==
  \/ \E r \in Root :
       \/ \E t \in FinishedTask : CompleteTask(r, t)
       \/ RunJob(r) \/ JobRaises(r) \/ RetryJob(r)
       \/ \E a \in Assessment : Assessed(r, a)
       \/ \E c \in Cluster : EnqueueCluster(r, c)
       \/ Propose(r) \/ Promote(r) \/ RecordPromotion(r) \/ FinishJob(r)
  \/ \E c \in Cluster : RunClusterJob(c) \/ ClusterJobRaises(c) \/ RetryClusterJob(c)
  \/ RestartExperience
  \/ UNCHANGED expVars

LEMMA Elsewhere ==
  ASSUME ElsewhereStep
  PROVE  UNCHANGED <<cluster, support, lesson>>
<1>1. ASSUME NEW r \in Root,
             \/ \E t \in FinishedTask : CompleteTask(r, t)
             \/ RunJob(r) \/ JobRaises(r) \/ RetryJob(r)
             \/ \E a \in Assessment : Assessed(r, a)
             \/ \E c \in Cluster : EnqueueCluster(r, c)
      PROVE  UNCHANGED <<cluster, support, lesson>>
  BY <1>1 DEF CompleteTask, RunJob, JobRaises, RetryJob, Assessed, EnqueueCluster
<1>2. ASSUME NEW r \in Root, Propose(r) \/ Promote(r) \/ RecordPromotion(r) \/ FinishJob(r)
      PROVE  UNCHANGED <<cluster, support, lesson>>
  BY <1>2 DEF Propose, Promote, RecordPromotion, FinishJob
<1>3. ASSUME NEW c \in Cluster, RunClusterJob(c) \/ ClusterJobRaises(c) \/ RetryClusterJob(c)
      PROVE  UNCHANGED <<cluster, support, lesson>>
  BY <1>3 DEF RunClusterJob, ClusterJobRaises, RetryClusterJob
<1>4. CASE RestartExperience
  BY <1>4 DEF RestartExperience
<1>5. CASE UNCHANGED expVars
  BY <1>5 DEF expVars
<1> QED BY <1>1, <1>2, <1>3, <1>4, <1>5 DEF ElsewhereStep

LEMMA StepsOfExp ==
  ASSUME [ExpNext]_expVars
  PROVE  \/ ElsewhereStep
         \/ \E r \in Root, c \in Cluster :
              Observe(r, c) \/ Attach(r, c) \/ Counter(r, c) \/ Reopen(r, c)
         \/ \E c \in Cluster :
              \/ Synthesized(c) \/ Rejected(c) \/ Settle(c)
              \/ \E old \in SUBSET Cluster : Accepted(c, old)
              \/ \E d \in Cluster : Supersede(c, d)
BY Zenon DEF ExpNext, ElsewhereStep

(* A task is added to the support of a cluster by a job that saw it there. *)
LEMMA SupportGrows ==
  ASSUME ExpTyped, [ExpNext]_expVars
  PROVE  /\ support' \in [Cluster -> SUBSET Root]
         /\ \A c \in Cluster :
              /\ support[c] \subseteq support'[c]
              /\ \A r \in support'[c] : r \in support[c] \/ work[r].a.seen # {}
<1>1. ASSUME NEW r \in Root, NEW c \in Cluster, Observe(r, c)
      PROVE  /\ support' \in [Cluster -> SUBSET Root]
             /\ \A d \in Cluster :
                  /\ support[d] \subseteq support'[d]
                  /\ \A s \in support'[d] : s \in support[d] \/ work[s].a.seen # {}
  <2>1. support' = [support EXCEPT ![c] = @ \cup {r}] /\ work[r].a.seen # {}
    BY <1>1 DEF Observe
  <2> QED BY <2>1 DEF ExpTyped
<1>2. ASSUME support' = support
      PROVE  /\ support' \in [Cluster -> SUBSET Root]
             /\ \A d \in Cluster :
                  /\ support[d] \subseteq support'[d]
                  /\ \A s \in support'[d] : s \in support[d] \/ work[s].a.seen # {}
  BY <1>2 DEF ExpTyped
<1>3. ASSUME NEW r \in Root, NEW c \in Cluster, Attach(r, c) \/ Counter(r, c) \/ Reopen(r, c)
      PROVE  support' = support
  BY <1>3 DEF Attach, Counter, Reopen
<1>4. ASSUME NEW c \in Cluster,
             \/ Synthesized(c) \/ Rejected(c) \/ Settle(c)
             \/ \E old \in SUBSET Cluster : Accepted(c, old)
             \/ \E d \in Cluster : Supersede(c, d)
      PROVE  support' = support
  BY <1>4 DEF Synthesized, Rejected, Settle, Accepted, Supersede
<1>5. ElsewhereStep => support' = support
  BY Elsewhere
<1> QED BY <1>1, <1>2, <1>3, <1>4, <1>5, StepsOfExp

(* A Lesson's evidence only grows, by the support of its cluster or by a   *)
(* job that follows its cluster; it becomes active only from the support   *)
(* of its cluster, when the cluster's job has validated it.                *)
LessonGoes(c) ==
  /\ lesson[c].from \subseteq lesson'[c].from
  /\ \A r \in lesson'[c].from :
       \/ r \in lesson[c].from \/ r \in support[c]
       \/ work[r].pc = "follow"
  /\ lesson'[c].status = "active" =>
       \/ lesson[c].status = "active"
       \/ cwork[c].pc = "validate" /\ support[c] \subseteq lesson'[c].from

LessonStep(c, l) == l \in LessonRec /\ lesson' = [lesson EXCEPT ![c] = l]

LEMMA LessonMoves ==
  ASSUME NEW c \in Cluster, NEW l, ExpTyped, LessonStep(c, l),
         lesson[c].from \subseteq l.from,
         \A r \in l.from : r \in lesson[c].from \/ r \in support[c] \/ work[r].pc = "follow",
         l.status = "active" => \/ lesson[c].status = "active"
                                \/ cwork[c].pc = "validate" /\ support[c] \subseteq l.from
  PROVE  lesson' \in [Cluster -> LessonRec] /\ \A d \in Cluster : LessonGoes(d)
<1>1. lesson' \in [Cluster -> LessonRec] /\ lesson'[c] = l
  BY DEF ExpTyped, LessonStep
<1>2. \A d \in Cluster : d # c => lesson'[d] = lesson[d]
  BY DEF ExpTyped, LessonStep
<1>3. LessonGoes(c)
  BY <1>1 DEF LessonGoes
<1>4. \A d \in Cluster : d # c => LessonGoes(d)
  BY <1>2 DEF LessonGoes
<1> QED BY <1>1, <1>3, <1>4

LEMMA LessonGrows ==
  ASSUME ExpTyped, [ExpNext]_expVars
  PROVE  lesson' \in [Cluster -> LessonRec] /\ \A c \in Cluster : LessonGoes(c)
<1>1. ASSUME lesson' = lesson
      PROVE  lesson' \in [Cluster -> LessonRec] /\ \A c \in Cluster : LessonGoes(c)
  BY <1>1 DEF ExpTyped, LessonGoes
<1>2. ASSUME NEW r \in Root, NEW c \in Cluster, Attach(r, c)
      PROVE  lesson' \in [Cluster -> LessonRec] /\ \A d \in Cluster : LessonGoes(d)
  <2> DEFINE l == [lesson[c] EXCEPT !.from = lesson[c].from \cup {r}]
  <2>1. lesson[c] \in LessonRec /\ lesson[c].from \cup {r} \in SUBSET Root
    BY DEF ExpTyped, LessonRec
  <2>2. l \in LessonRec /\ l.from = lesson[c].from \cup {r} /\ l.status = lesson[c].status
    BY <2>1 DEF LessonRec
  <2>3. LessonStep(c, l)
    BY <1>2, <2>2, Zenon DEF Attach, LessonStep
  <2>4. work[r].pc = "follow"
    BY <1>2 DEF Attach
  <2> HIDE DEF l
  <2> QED BY <2>2, <2>3, <2>4, LessonMoves
<1>3. ASSUME NEW r \in Root, NEW c \in Cluster, Counter(r, c)
      PROVE  lesson' \in [Cluster -> LessonRec] /\ \A d \in Cluster : LessonGoes(d)
  <2>1. PICK S, st : /\ S = lesson[c].against \cup {r}
                     /\ st \in {"retired", lesson[c].status}
                     /\ lesson' = [lesson EXCEPT ![c].against = S, ![c].status = st]
    BY <1>3 DEF Counter
  <2> DEFINE l == [lesson[c] EXCEPT !.against = S, !.status = st]
  <2>2. /\ lesson[c] \in LessonRec /\ S \in SUBSET Root
        /\ st \in {"none", "active", "superseded", "retired"}
    BY <2>1 DEF ExpTyped, LessonRec
  <2>3. l \in LessonRec /\ l.from = lesson[c].from /\ l.status = st
    BY <2>2 DEF LessonRec
  <2>4. LessonStep(c, l)
    BY <2>1, <2>3, Zenon DEF LessonStep
  <2> HIDE DEF l
  <2> QED BY <2>1, <2>3, <2>4, LessonMoves
<1>4. ASSUME NEW c \in Cluster, NEW old \in SUBSET Cluster, Accepted(c, old)
      PROVE  lesson' \in [Cluster -> LessonRec] /\ \A d \in Cluster : LessonGoes(d)
  <2>1. PICK S : S = lesson[c].from \cup support[c]
    OBVIOUS
  <2> DEFINE l == [lesson[c] EXCEPT !.status = "active", !.from = S]
  <2>2. lesson[c] \in LessonRec /\ S \in SUBSET Root
    BY <2>1 DEF ExpTyped, LessonRec
  <2>3. l \in LessonRec /\ l.from = S
    BY <2>2 DEF LessonRec
  <2>4. lesson' = [lesson EXCEPT ![c].status = "active", ![c].from = S]
    BY <1>4, <2>1, Zenon DEF Accepted
  <2>5. LessonStep(c, l)
    BY <2>3, <2>4, Zenon DEF LessonStep
  <2>6. cwork[c].pc = "validate"
    BY <1>4 DEF Accepted
  <2> HIDE DEF l
  <2> QED BY <2>1, <2>3, <2>5, <2>6, LessonMoves
<1>5. ASSUME NEW c \in Cluster, NEW d \in Cluster, Supersede(c, d)
      PROVE  lesson' \in [Cluster -> LessonRec] /\ \A e \in Cluster : LessonGoes(e)
  <2> DEFINE l == [lesson[d] EXCEPT !.status = "superseded"]
  <2>1. lesson[d] \in LessonRec
    BY DEF ExpTyped
  <2>2. l \in LessonRec /\ l.from = lesson[d].from /\ l.status = "superseded"
    BY <2>1 DEF LessonRec
  <2>3. LessonStep(d, l)
    BY <1>5, <2>2, Zenon DEF Supersede, LessonStep
  <2> HIDE DEF l
  <2> QED BY <2>2, <2>3, LessonMoves
<1>6. ASSUME NEW r \in Root, NEW c \in Cluster, Observe(r, c) \/ Reopen(r, c)
      PROVE  lesson' = lesson
  BY <1>6 DEF Observe, Reopen
<1>7. ASSUME NEW c \in Cluster, Synthesized(c) \/ Rejected(c) \/ Settle(c)
      PROVE  lesson' = lesson
  BY <1>7 DEF Synthesized, Rejected, Settle
<1>8. ElsewhereStep => lesson' = lesson
  BY Elsewhere
<1> QED BY <1>1, <1>2, <1>3, <1>4, <1>5, <1>6, <1>7, <1>8, StepsOfExp

(* The count in a cluster's record is the one it had, the one in the       *)
(* record its job holds, or that of the support now in the table.          *)
ClusterGoes(c) ==
  \/ cluster'[c].count = cluster[c].count
  \/ cluster'[c].count = cwork[c].held.count
  \/ cluster'[c].count = Cardinality(support'[c])

ClusterStatus == {"none", "collecting", "blocked", "activated"}
ClusterStep(c, h) == h \in ClusterRow /\ cluster' = [cluster EXCEPT ![c] = h]

LEMMA ClusterMoves ==
  ASSUME NEW c \in Cluster, NEW h, ExpTyped, ClusterStep(c, h),
         \/ h.count = cluster[c].count
         \/ h.count = cwork[c].held.count
         \/ h.count = Cardinality(support'[c])
  PROVE  cluster' \in [Cluster -> ClusterRow] /\ \A d \in Cluster : ClusterGoes(d)
<1>1. cluster' \in [Cluster -> ClusterRow] /\ cluster'[c] = h
  BY DEF ExpTyped, ClusterStep
<1>2. \A d \in Cluster : d # c => cluster'[d] = cluster[d]
  BY DEF ExpTyped, ClusterStep
<1> QED BY <1>1, <1>2 DEF ClusterGoes

LEMMA NoClusterTyped == NoCluster \in ClusterRow /\ NoCluster.count = 0
<1>1. FALSE \in BOOLEAN
  OBVIOUS
<1> QED BY <1>1 DEF NoCluster, ClusterRow

LEMMA ObservedCount ==
  ASSUME NEW c \in Cluster, NEW r \in Root, ExpTyped
  PROVE  /\ Observed(c, r) \in ClusterRow
         /\ Observed(c, r).count = Cardinality(support[c] \cup {r})
<1>1. PICK n : n = Cardinality(support[c] \cup {r})
  OBVIOUS
<1>2. n \in Nat
  <2>1. support[c] \cup {r} \subseteq Root
    BY DEF ExpTyped
  <2> QED BY <1>1, <2>1, ExperienceAssumption, FS_Subset, FS_CardinalityType
<1>3. "collecting" \in ClusterStatus /\ FALSE \in BOOLEAN
  BY DEF ClusterStatus
<1>4. cluster[c] \in ClusterRow
  BY DEF ExpTyped
<1>5. PICK was : was = IF cluster[c].status = "none" THEN [NoCluster EXCEPT !.status = "collecting"]
                       ELSE cluster[c]
  OBVIOUS
<1>6. was \in ClusterRow
  BY <1>3, <1>4, <1>5, NoClusterTyped DEF ClusterRow, ClusterStatus
<1>7. PICK now : now = [was EXCEPT !.count = n]
  OBVIOUS
<1>8. now \in ClusterRow /\ now.count = n
  BY <1>2, <1>6, <1>7 DEF ClusterRow
<1>9. PICK again : again = [now EXCEPT !.status = "collecting", !.draft = FALSE]
  OBVIOUS
<1>10. again \in ClusterRow /\ again.count = n
  BY <1>3, <1>8, <1>9 DEF ClusterRow
<1>11. Observed(c, r) = IF (r \notin support[c]) /\ was.status = "blocked" THEN again ELSE now
  BY <1>1, <1>5, <1>7, <1>9, Zenon DEF Observed
<1> QED BY <1>1, <1>8, <1>10, <1>11

LEMMA HeldTyped ==
  ASSUME NEW c \in Cluster, ExpTyped
  PROVE  cwork[c] \in CWorkRow /\ cwork[c].held \in ClusterRow
BY DEF ExpTyped, CWorkRow

LEMMA BlockedCount ==
  ASSUME NEW c \in Cluster, NEW h \in ClusterRow, ExpTyped, Block(c, h),
         h.count = cwork[c].held.count
  PROVE  cluster' \in [Cluster -> ClusterRow] /\ \A d \in Cluster : ClusterGoes(d)
<1> DEFINE g == [h EXCEPT !.status = "blocked"]
<1>1. g \in ClusterRow /\ g.count = h.count
  BY DEF ClusterRow
<1>2. ClusterStep(c, g)
  BY <1>1 DEF Block, ClusterStep
<1> HIDE DEF g
<1> QED BY <1>1, <1>2, ClusterMoves

LEMMA ClusterCounts ==
  ASSUME ExpTyped, [ExpNext]_expVars
  PROVE  cluster' \in [Cluster -> ClusterRow] /\ \A c \in Cluster : ClusterGoes(c)
<1>1. ASSUME cluster' = cluster
      PROVE  cluster' \in [Cluster -> ClusterRow] /\ \A c \in Cluster : ClusterGoes(c)
  BY <1>1 DEF ExpTyped, ClusterGoes
<1>2. ASSUME NEW r \in Root, NEW c \in Cluster, Observe(r, c)
      PROVE  cluster' \in [Cluster -> ClusterRow] /\ \A d \in Cluster : ClusterGoes(d)
  <2>1. cluster' = [cluster EXCEPT ![c] = Observed(c, r)]
    BY <1>2, Zenon DEF Observe
  <2>2. ClusterStep(c, Observed(c, r))
    BY <2>1, ObservedCount DEF ClusterStep
  <2>3. support'[c] = support[c] \cup {r}
    BY <1>2 DEF Observe, ExpTyped
  <2> QED BY <2>2, <2>3, ObservedCount, ClusterMoves
<1>3. ASSUME NEW r \in Root, NEW c \in Cluster, Reopen(r, c)
      PROVE  cluster' \in [Cluster -> ClusterRow] /\ \A d \in Cluster : ClusterGoes(d)
  <2> DEFINE g == [cluster[c] EXCEPT !.status = "collecting", !.draft = FALSE]
  <2>1. cluster[c] \in ClusterRow /\ FALSE \in BOOLEAN
    BY DEF ExpTyped
  <2>2. g \in ClusterRow /\ g.count = cluster[c].count
    BY <2>1 DEF ClusterRow
  <2>3. ClusterStep(c, g)
    BY <1>3, <2>2, Zenon DEF Reopen, ClusterStep
  <2> HIDE DEF g
  <2> QED BY <2>2, <2>3, ClusterMoves
<1>4. ASSUME NEW c \in Cluster, Synthesized(c)
      PROVE  cluster' \in [Cluster -> ClusterRow] /\ \A d \in Cluster : ClusterGoes(d)
  <2> DEFINE h == [cwork[c].held EXCEPT !.draft = TRUE]
  <2>1. cwork[c].held \in ClusterRow /\ TRUE \in BOOLEAN
    BY HeldTyped
  <2>2. h \in ClusterRow /\ h.count = cwork[c].held.count
    BY <2>1 DEF ClusterRow
  <2>3. Block(c, h) \/ cluster' = [cluster EXCEPT ![c] = h]
    BY <1>4, Zenon DEF Synthesized
  <2> HIDE DEF h
  <2>4. CASE Block(c, h)
    BY <2>2, <2>4, BlockedCount
  <2>5. CASE cluster' = [cluster EXCEPT ![c] = h]
    BY <2>2, <2>5, ClusterMoves DEF ClusterStep
  <2> QED BY <2>3, <2>4, <2>5
<1>5. ASSUME NEW c \in Cluster, Rejected(c)
      PROVE  cluster' \in [Cluster -> ClusterRow] /\ \A d \in Cluster : ClusterGoes(d)
  BY <1>5, HeldTyped, BlockedCount DEF Rejected
<1>6. ASSUME NEW c \in Cluster, Settle(c)
      PROVE  cluster' \in [Cluster -> ClusterRow] /\ \A d \in Cluster : ClusterGoes(d)
  <2> DEFINE g == [cwork[c].held EXCEPT !.status = "activated"]
  <2>1. cwork[c].held \in ClusterRow
    BY HeldTyped
  <2>2. g \in ClusterRow /\ g.count = cwork[c].held.count
    BY <2>1 DEF ClusterRow
  <2>3. ClusterStep(c, g)
    BY <1>6, <2>2, Zenon DEF Settle, ClusterStep
  <2> HIDE DEF g
  <2> QED BY <2>2, <2>3, ClusterMoves
<1>7. ASSUME NEW r \in Root, NEW c \in Cluster, Attach(r, c) \/ Counter(r, c)
      PROVE  cluster' = cluster
  BY <1>7 DEF Attach, Counter
<1>8. ASSUME NEW c \in Cluster,
             \/ \E old \in SUBSET Cluster : Accepted(c, old)
             \/ \E d \in Cluster : Supersede(c, d)
      PROVE  cluster' = cluster
  BY <1>8 DEF Accepted, Supersede
<1>9. ElsewhereStep => cluster' = cluster
  BY Elsewhere
<1> QED BY <1>1, <1>2, <1>3, <1>4, <1>5, <1>6, <1>7, <1>8, <1>9, StepsOfExp

(* The job of a cluster holds the record it has read: it begins to write   *)
(* with one that counts enough tasks, and keeps that count to the end.     *)
Writes == {"synthesize", "validate", "settle"}
HolderGoes(c) ==
  \/ cwork'[c].pc \notin Writes /\ cwork'[c].held.count \in {0, cwork[c].held.count}
  \/ cwork[c].pc \in Writes /\ cwork'[c].held.count = cwork[c].held.count
  \/ cwork'[c].held = cluster[c] /\ cluster[c].count >= MinLesson

HolderStep(c, h) == h \in CWorkRow /\ cwork' = [cwork EXCEPT ![c] = h]

LEMMA HolderMoves ==
  ASSUME NEW c \in Cluster, NEW h, ExpTyped, HolderStep(c, h),
         \/ h.pc \notin Writes /\ h.held.count \in {0, cwork[c].held.count}
         \/ cwork[c].pc \in Writes /\ h.held.count = cwork[c].held.count
         \/ h.held = cluster[c] /\ cluster[c].count >= MinLesson
  PROVE  cwork' \in [Cluster -> CWorkRow] /\ \A d \in Cluster : HolderGoes(d)
<1>1. cwork' \in [Cluster -> CWorkRow] /\ cwork'[c] = h
  BY DEF ExpTyped, HolderStep
<1>2. \A d \in Cluster : d # c => cwork'[d] = cwork[d]
  BY DEF ExpTyped, HolderStep
<1> QED BY <1>1, <1>2 DEF HolderGoes

LEMMA NoCWorkTyped ==
  /\ NoCWork \in CWorkRow /\ NoCWork.pc = "none" /\ NoCWork.held.count = 0
  /\ CReady \in CWorkRow /\ CReady.pc = "ready" /\ CReady.held.count = 0
  /\ [NoCWork EXCEPT !.pc = "sleep"] \in CWorkRow
  /\ [NoCWork EXCEPT !.pc = "sleep"].pc = "sleep"
  /\ [NoCWork EXCEPT !.pc = "sleep"].held.count = 0
<1>1. {} \in SUBSET Cluster
  OBVIOUS
<1>2. PICK h : h = NoCluster
  OBVIOUS
<1>3. h \in ClusterRow /\ h.count = 0
  BY <1>2, NoClusterTyped
<1>4. NoCWork = [pc |-> "none", held |-> h, old |-> {}]
  BY <1>2 DEF NoCWork
<1>5. NoCWork \in CWorkRow /\ NoCWork.pc = "none" /\ NoCWork.held.count = 0
  BY <1>1, <1>3, <1>4 DEF CWorkRow, CWorkPc
<1>6. CReady \in CWorkRow /\ CReady.pc = "ready" /\ CReady.held.count = 0
  BY <1>5 DEF CReady, CWorkRow, CWorkPc
<1>7. /\ [NoCWork EXCEPT !.pc = "sleep"] \in CWorkRow
      /\ [NoCWork EXCEPT !.pc = "sleep"].pc = "sleep"
      /\ [NoCWork EXCEPT !.pc = "sleep"].held.count = 0
  BY <1>5 DEF CWorkRow, CWorkPc
<1> QED BY <1>5, <1>6, <1>7

LEMMA HolderLeaves ==
  ASSUME NEW c \in Cluster, ExpTyped, cwork' = [cwork EXCEPT ![c] = NoCWork]
  PROVE  cwork' \in [Cluster -> CWorkRow] /\ \A d \in Cluster : HolderGoes(d)
<1>1. HolderStep(c, NoCWork)
  BY NoCWorkTyped DEF HolderStep
<1> QED BY <1>1, NoCWorkTyped, HolderMoves DEF Writes

LEMMA HolderAsks ==
  ASSUME NEW c \in Cluster, NEW h \in ClusterRow, NEW pc \in {"validate", "synthesize"},
         ExpTyped, Ask(c, pc, h),
         \/ cwork[c].pc \in Writes /\ h.count = cwork[c].held.count
         \/ h = cluster[c] /\ cluster[c].count >= MinLesson
  PROVE  cwork' \in [Cluster -> CWorkRow] /\ \A d \in Cluster : HolderGoes(d)
<1> DEFINE g == [NoCWork EXCEPT !.pc = pc, !.held = h]
<1>1. g \in CWorkRow /\ g.held = h
  BY NoCWorkTyped DEF CWorkRow, CWorkPc
<1>2. HolderStep(c, g)
  BY <1>1 DEF Ask, HolderStep
<1> HIDE DEF g
<1> QED BY <1>1, <1>2, HolderMoves

LEMMA HolderCounts ==
  ASSUME ExpTyped, [ExpNext]_expVars
  PROVE  cwork' \in [Cluster -> CWorkRow] /\ \A c \in Cluster : HolderGoes(c)
<1> DEFINE Goal == cwork' \in [Cluster -> CWorkRow] /\ \A c \in Cluster : HolderGoes(c)
<1>1. ASSUME cwork' = cwork PROVE Goal
  BY <1>1 DEF ExpTyped, HolderGoes
<1>2. ASSUME \A c \in Cluster : cwork'[c] \in {NoCWork, CReady, cwork[c]},
             cwork' = [c \in Cluster |-> cwork'[c]]
      PROVE  Goal
  <2>1. \A c \in Cluster : cwork'[c] \in CWorkRow
    BY <1>2, NoCWorkTyped DEF ExpTyped
  <2>2. \A c \in Cluster : HolderGoes(c)
    BY <1>2, NoCWorkTyped DEF HolderGoes, Writes
  <2> QED BY <1>2, <2>1, <2>2
<1>3. ASSUME NEW r \in Root, FinishJob(r) PROVE Goal
  <2>1. \A c \in Cluster : cwork'[c] \in {NoCWork, CReady, cwork[c]}
    BY <1>3 DEF FinishJob
  <2>2. cwork' = [c \in Cluster |-> cwork'[c]]
    BY <1>3 DEF FinishJob
  <2> QED BY <1>2, <2>1, <2>2
<1>4. ASSUME RestartExperience PROVE Goal
  <2>1. \A c \in Cluster : cwork'[c] \in {NoCWork, CReady, cwork[c]}
    BY <1>4 DEF RestartExperience
  <2>2. cwork' = [c \in Cluster |-> cwork'[c]]
    BY <1>4 DEF RestartExperience
  <2> QED BY <1>2, <2>1, <2>2
<1>5. ASSUME NEW c \in Cluster, RunClusterJob(c) PROVE Goal
  <2>1. CASE cwork' = [cwork EXCEPT ![c] = NoCWork]
    BY <2>1, HolderLeaves
  <2>2. CASE /\ cluster[c].count >= MinLesson
             /\ Ask(c, IF cluster[c].draft THEN "validate" ELSE "synthesize", cluster[c])
    <3>1. cluster[c] \in ClusterRow
      BY DEF ExpTyped
    <3>2. PICK pc \in {"validate", "synthesize"} : Ask(c, pc, cluster[c])
      BY <2>2
    <3> QED BY <2>2, <3>1, <3>2, HolderAsks
  <2> QED BY <1>5, <2>1, <2>2 DEF RunClusterJob
<1>6. ASSUME NEW c \in Cluster, Synthesized(c) PROVE Goal
  <2> DEFINE h == [cwork[c].held EXCEPT !.draft = TRUE]
  <2>1. cwork[c].held \in ClusterRow /\ TRUE \in BOOLEAN
    BY HeldTyped
  <2>2. h \in ClusterRow /\ h.count = cwork[c].held.count
    BY <2>1 DEF ClusterRow
  <2>3. Block(c, h) \/ Ask(c, "validate", h) \/ Deferred(c)
    BY <1>6, Zenon DEF Synthesized
  <2>4. cwork[c].pc \in Writes
    BY <1>6 DEF Synthesized, Writes
  <2> HIDE DEF h
  <2>5. CASE Block(c, h) \/ Deferred(c)
    BY <2>5, HolderLeaves DEF Block, CDone, Deferred
  <2>6. CASE Ask(c, "validate", h)
    BY <2>2, <2>4, <2>6, HolderAsks
  <2> QED BY <2>3, <2>5, <2>6
<1>7. ASSUME NEW c \in Cluster, Rejected(c) \/ Settle(c) PROVE Goal
  BY <1>7, HolderLeaves DEF Rejected, Settle, Block, CDone
<1>8. ASSUME NEW c \in Cluster, NEW old \in SUBSET Cluster, Accepted(c, old) PROVE Goal
  <2> DEFINE g == [cwork[c] EXCEPT !.pc = "settle", !.old = old]
  <2>1. g \in CWorkRow /\ g.held = cwork[c].held
    BY HeldTyped DEF CWorkRow, CWorkPc
  <2>2. HolderStep(c, g)
    BY <1>8, <2>1, Zenon DEF Accepted, HolderStep
  <2>3. cwork[c].pc \in Writes
    BY <1>8 DEF Accepted, Writes
  <2> HIDE DEF g
  <2> QED BY <2>1, <2>2, <2>3, HolderMoves
<1>9. ASSUME NEW c \in Cluster, NEW d \in Cluster, Supersede(c, d) PROVE Goal
  <2>1. PICK old : old = cwork[c].old \ {d}
    OBVIOUS
  <2> DEFINE g == [cwork[c] EXCEPT !.old = old]
  <2>2. old \in SUBSET Cluster
    BY <2>1, HeldTyped DEF CWorkRow
  <2>3. g \in CWorkRow /\ g.held = cwork[c].held
    BY <2>2, HeldTyped DEF CWorkRow, CWorkPc
  <2>4. HolderStep(c, g)
    BY <1>9, <2>1, <2>3, Zenon DEF Supersede, HolderStep
  <2>5. cwork[c].pc \in Writes
    BY <1>9 DEF Supersede, Writes
  <2> HIDE DEF g
  <2> QED BY <2>3, <2>4, <2>5, HolderMoves
<1>10. ASSUME NEW c \in Cluster, ClusterJobRaises(c) PROVE Goal
  <2>1. CASE cwork' = [cwork EXCEPT ![c] = [NoCWork EXCEPT !.pc = "sleep"]]
    BY <2>1, NoCWorkTyped, HolderMoves DEF HolderStep, Writes
  <2>2. CASE cwork' = [cwork EXCEPT ![c] = [NoCWork EXCEPT !.pc = "none"]]
    <3>1. [NoCWork EXCEPT !.pc = "none"] = NoCWork
      BY DEF NoCWork
    <3> QED BY <2>2, <3>1, HolderLeaves
  <2> QED BY <1>10, <2>1, <2>2 DEF ClusterJobRaises, Slept
<1>11. ASSUME NEW c \in Cluster, RetryClusterJob(c) PROVE Goal
  <2> DEFINE g == [cwork[c] EXCEPT !.pc = "ready"]
  <2>1. g \in CWorkRow /\ g.held = cwork[c].held /\ g.pc = "ready"
    BY HeldTyped DEF CWorkRow, CWorkPc
  <2>2. HolderStep(c, g)
    BY <1>11, <2>1, Zenon DEF RetryClusterJob, HolderStep
  <2> HIDE DEF g
  <2> QED BY <2>1, <2>2, HolderMoves DEF Writes
<1>12. ASSUME NEW r \in Root,
              \/ \E t \in FinishedTask : CompleteTask(r, t)
              \/ RunJob(r) \/ JobRaises(r) \/ RetryJob(r)
              \/ \E a \in Assessment : Assessed(r, a)
              \/ Propose(r) \/ Promote(r) \/ RecordPromotion(r)
       PROVE  cwork' = cwork
  BY <1>12 DEF CompleteTask, RunJob, JobRaises, RetryJob, Assessed, Propose, Promote,
               RecordPromotion
<1>13. ASSUME NEW r \in Root, NEW c \in Cluster,
              \/ Observe(r, c) \/ Attach(r, c) \/ EnqueueCluster(r, c)
              \/ Counter(r, c) \/ Reopen(r, c)
       PROVE  cwork' = cwork
  BY <1>13 DEF Observe, Attach, EnqueueCluster, Counter, Reopen
<1>14. ASSUME UNCHANGED expVars PROVE Goal
  BY <1>1, <1>14 DEF expVars
<1> HIDE DEF Goal
<1>15. ASSUME NEW r \in Root,
              \/ \E t \in FinishedTask : CompleteTask(r, t)
              \/ RunJob(r) \/ JobRaises(r) \/ RetryJob(r)
              \/ \E a \in Assessment : Assessed(r, a)
              \/ \E c \in Cluster :
                   \/ Observe(r, c) \/ Attach(r, c) \/ EnqueueCluster(r, c)
                   \/ Counter(r, c) \/ Reopen(r, c)
              \/ Propose(r) \/ Promote(r) \/ RecordPromotion(r) \/ FinishJob(r)
       PROVE  Goal
  BY <1>1, <1>3, <1>12, <1>13, <1>15
<1>16. ASSUME NEW c \in Cluster,
              \/ RunClusterJob(c) \/ Synthesized(c) \/ Rejected(c) \/ Settle(c)
              \/ \E old \in SUBSET Cluster : Accepted(c, old)
              \/ \E d \in Cluster : Supersede(c, d)
              \/ ClusterJobRaises(c) \/ RetryClusterJob(c)
       PROVE  Goal
  BY <1>5, <1>6, <1>7, <1>8, <1>9, <1>10, <1>11, <1>16
<1>17. Goal
  <2>1. CASE UNCHANGED expVars
    BY <1>14, <2>1
  <2>2. CASE ExpNext
    BY <1>4, <1>15, <1>16, <2>2 DEF ExpNext
  <2> QED BY <2>1, <2>2
<1> QED BY <1>17 DEF Goal

(* The candidates of the workflow.  Which of them a success supports next  *)
(* does not depend on what that success adds to it.                        *)
CandidateStep(k, d) == d \in CandidateRec /\ candidate' = [candidate EXCEPT ![k] = d]

LEMMA CandidateMoves ==
  ASSUME NEW k \in Revision, NEW d, ExpTyped, CandidateStep(k, d)
  PROVE  /\ candidate' \in [Revision -> CandidateRec] /\ candidate'[k] = d
         /\ \A m \in Revision : m # k => candidate'[m] = candidate[m]
BY DEF ExpTyped, CandidateStep

LEMMA CandidateRow ==
  ASSUME NEW d \in CandidateRec, NEW st \in {"none", "collecting", "blocked", "promoted"}
  PROVE  /\ d.by \in SUBSET Root
         /\ [d EXCEPT !.status = st] \in CandidateRec
         /\ [d EXCEPT !.status = st].by = d.by
BY DEF CandidateRec

LEMMA CandidateErrs ==
  ASSUME NEW d \in CandidateRec
  PROVE  /\ [d EXCEPT !.status = "blocked", !.errors = TRUE] \in CandidateRec
         /\ [d EXCEPT !.status = "blocked", !.errors = TRUE].by = d.by
<1>1. TRUE \in BOOLEAN
  OBVIOUS
<1> QED BY <1>1 DEF CandidateRec

LEMMA TargetOpen == OpenRevisions # {} => Target \in OpenRevisions
BY DEF Target

LEMMA Proposed ==
  ASSUME NEW r \in Root, ExpTyped, Propose(r)
  PROVE  /\ candidate' \in [Revision -> CandidateRec]
         /\ Target \in Revision /\ Target' = Target
         /\ candidate'[Target].by = candidate[Target].by \cup {r}
         /\ \A m \in Revision : m # Target => candidate'[m] = candidate[m]
         /\ work'[r].pc = "promote" => Cardinality(candidate'[Target].by) >= MinSuccess
<1>1. PICK k : k = Target
  OBVIOUS
<1>2. PICK by : by = candidate[k].by \cup {r}
  OBVIOUS
<1>3. PICK st : st = IF (ActiveLessons # {}) \/ work[r].a.conflict THEN "blocked" ELSE "collecting"
  OBVIOUS
<1>4. PICK e : e = work[r].a.conflict
  OBVIOUS
<1> DEFINE d == [status |-> st, by |-> by, errors |-> e]
<1>5. k \in Revision
  BY <1>1 DEF Propose
<1>6. d \in CandidateRec
  <2>1. candidate[k] \in CandidateRec
    BY <1>5 DEF ExpTyped
  <2>2. by \in SUBSET Root
    BY <1>2, <2>1, CandidateRow
  <2>3. work[r].a \in Assessment
    BY DEF ExpTyped, WorkRow
  <2>4. e \in BOOLEAN
    BY <1>4, <2>3, Zenon DEF Assessment
  <2>5. st \in {"none", "collecting", "blocked", "promoted"}
    BY <1>3
  <2> QED BY <2>2, <2>4, <2>5, Zenon DEF CandidateRec
<1>7. candidate' = [candidate EXCEPT ![k] = d]
  BY <1>1, <1>2, <1>3, <1>4, Zenon DEF Propose
<1>8. d.by = by /\ d.status = st
  OBVIOUS
<1> HIDE DEF d
<1>9. CandidateStep(k, d)
  BY <1>6, <1>7 DEF CandidateStep
<1>10. /\ candidate' \in [Revision -> CandidateRec] /\ candidate'[k] = d
       /\ \A m \in Revision : m # k => candidate'[m] = candidate[m]
  BY <1>5, <1>9, CandidateMoves
<1>11. candidate'[k].status \in {"collecting", "blocked"}
  BY <1>3, <1>8, <1>10
<1>12. Target' = Target
  <2>1. CASE OpenRevisions # {}
    <3>1. candidate[k].status \in {"collecting", "blocked"}
      BY <1>1, <2>1, TargetOpen DEF OpenRevisions
    <3>2. OpenRevisions' = OpenRevisions
      BY <1>5, <1>10, <1>11, <3>1 DEF OpenRevisions
    <3> QED BY <2>1, <3>2 DEF Target
  <2>2. CASE OpenRevisions = {}
    <3>1. OpenRevisions' = {k}
      BY <1>5, <1>10, <1>11, <2>2 DEF OpenRevisions
    <3>2. Target' = k
      BY <3>1 DEF Target
    <3> QED BY <1>1, <3>2
  <2> QED BY <2>1, <2>2
<1>13. work'[r].pc = "promote" => Cardinality(by) >= MinSuccess
  <2>1. PICK pc : /\ pc = IF Cardinality(by) >= MinSuccess THEN "promote" ELSE "finish"
                  /\ work' = [work EXCEPT ![r].pc = pc]
    BY <1>1, <1>2 DEF Propose
  <2>2. work'[r].pc = pc
    BY <2>1 DEF ExpTyped, WorkRow
  <2> QED BY <2>1, <2>2
<1> QED BY <1>1, <1>2, <1>5, <1>8, <1>10, <1>12, <1>13

(* The other steps of a promotion keep who supports what. *)
LEMMA Promoted ==
  ASSUME NEW r \in Root, ExpTyped, Promote(r) \/ RecordPromotion(r)
  PROVE  /\ candidate' \in [Revision -> CandidateRec]
         /\ \A m \in Revision : candidate'[m].by = candidate[m].by
         /\ work'[r].pc # "promote"
<1>1. ASSUME NEW d, Target \notin Revision, candidate' = [candidate EXCEPT ![Target] = d]
      PROVE  candidate' \in [Revision -> CandidateRec] /\ candidate' = candidate
  BY <1>1 DEF ExpTyped
<1>2. Target \in Revision => candidate[Target] \in CandidateRec
  BY DEF ExpTyped
<1>3. ASSUME NEW d, candidate' = [candidate EXCEPT ![Target] = d],
             Target \in Revision => d \in CandidateRec /\ d.by = candidate[Target].by
      PROVE  /\ candidate' \in [Revision -> CandidateRec]
             /\ \A m \in Revision : candidate'[m].by = candidate[m].by
  <2>1. CASE Target \in Revision
    BY <1>3, <2>1, CandidateMoves DEF CandidateStep
  <2>2. CASE Target \notin Revision
    BY <1>1, <1>3, <2>2
  <2> QED BY <2>1, <2>2
<1>4. /\ candidate' \in [Revision -> CandidateRec]
      /\ \A m \in Revision : candidate'[m].by = candidate[m].by
  <2>1. ASSUME NEW st \in {"none", "collecting", "blocked", "promoted"},
               candidate' = [candidate EXCEPT ![Target].status = st]
        PROVE  /\ candidate' \in [Revision -> CandidateRec]
               /\ \A m \in Revision : candidate'[m].by = candidate[m].by
    <3> DEFINE d == [candidate[Target] EXCEPT !.status = st]
    <3>1. Target \in Revision => d \in CandidateRec /\ d.by = candidate[Target].by
      BY <1>2, CandidateRow
    <3>2. candidate' = [candidate EXCEPT ![Target] = d]
      BY <2>1, Zenon
    <3> HIDE DEF d
    <3> QED BY <1>3, <3>1, <3>2
  <2>2. ASSUME candidate' = [candidate EXCEPT ![Target].status = "blocked",
                                              ![Target].errors = TRUE]
        PROVE  /\ candidate' \in [Revision -> CandidateRec]
               /\ \A m \in Revision : candidate'[m].by = candidate[m].by
    <3> DEFINE d == [candidate[Target] EXCEPT !.status = "blocked", !.errors = TRUE]
    <3>1. Target \in Revision => d \in CandidateRec /\ d.by = candidate[Target].by
      BY <1>2, CandidateErrs
    <3>2. candidate' = [candidate EXCEPT ![Target] = d]
      BY <2>2, Zenon
    <3> HIDE DEF d
    <3> QED BY <1>3, <3>1, <3>2
  <2>3. CASE candidate' = candidate
    BY <2>3 DEF ExpTyped
  <2>4. \/ candidate' = candidate
        \/ candidate' = [candidate EXCEPT ![Target].status = "blocked"]
        \/ candidate' = [candidate EXCEPT ![Target].status = "blocked", ![Target].errors = TRUE]
        \/ candidate' = [candidate EXCEPT ![Target].status = "promoted"]
    BY Zenon DEF Promote, RecordPromotion
  <2> QED BY <2>1, <2>2, <2>3, <2>4
<1>5. work'[r].pc # "promote"
  BY DEF Promote, RecordPromotion, ExpTyped, WorkRow
<1> QED BY <1>4, <1>5

(* Nothing else writes a candidate, and SKILL.md only a promotion. *)
LEMMA CandidateOnly ==
  ASSUME [ExpNext]_expVars
  PROVE  \/ candidate' = candidate /\ skillFile' = skillFile
         \/ \E r \in Root : \/ Propose(r) /\ skillFile' = skillFile
                            \/ Promote(r)
                            \/ RecordPromotion(r) /\ skillFile' = skillFile
<1> DEFINE Same == candidate' = candidate /\ skillFile' = skillFile
           Goal == \/ Same
                   \/ \E r \in Root : \/ Propose(r) /\ skillFile' = skillFile
                                      \/ Promote(r)
                                      \/ RecordPromotion(r) /\ skillFile' = skillFile
<1>1. ASSUME NEW r \in Root,
             \/ \E t \in FinishedTask : CompleteTask(r, t)
             \/ RunJob(r) \/ JobRaises(r) \/ RetryJob(r)
             \/ \E a \in Assessment : Assessed(r, a)
             \/ FinishJob(r)
      PROVE  Same
  BY <1>1 DEF CompleteTask, RunJob, JobRaises, RetryJob, Assessed, FinishJob
<1>2. ASSUME NEW r \in Root, NEW c \in Cluster,
             \/ Observe(r, c) \/ Attach(r, c) \/ EnqueueCluster(r, c)
             \/ Counter(r, c) \/ Reopen(r, c)
      PROVE  Same
  BY <1>2 DEF Observe, Attach, EnqueueCluster, Counter, Reopen
<1>3. ASSUME NEW c \in Cluster,
             \/ RunClusterJob(c) \/ Synthesized(c) \/ Rejected(c) \/ Settle(c)
             \/ \E old \in SUBSET Cluster : Accepted(c, old)
             \/ \E d \in Cluster : Supersede(c, d)
             \/ ClusterJobRaises(c) \/ RetryClusterJob(c)
      PROVE  Same
  BY <1>3 DEF RunClusterJob, Synthesized, Rejected, Settle, Accepted, Supersede,
              ClusterJobRaises, RetryClusterJob
<1>4. ASSUME RestartExperience \/ UNCHANGED expVars PROVE Same
  BY <1>4 DEF RestartExperience, expVars
<1>5. ASSUME NEW r \in Root, Propose(r) \/ RecordPromotion(r) PROVE skillFile' = skillFile
  BY <1>5 DEF Propose, RecordPromotion
<1> HIDE DEF Same
<1>6. Goal
  <2>1. ASSUME NEW r \in Root,
               \/ \E t \in FinishedTask : CompleteTask(r, t)
               \/ RunJob(r) \/ JobRaises(r) \/ RetryJob(r)
               \/ \E a \in Assessment : Assessed(r, a)
               \/ \E c \in Cluster :
                    \/ Observe(r, c) \/ Attach(r, c) \/ EnqueueCluster(r, c)
                    \/ Counter(r, c) \/ Reopen(r, c)
               \/ Propose(r) \/ Promote(r) \/ RecordPromotion(r) \/ FinishJob(r)
        PROVE  Goal
    BY <1>1, <1>2, <1>5, <2>1
  <2>2. CASE UNCHANGED expVars
    BY <1>4, <2>2
  <2>3. CASE ExpNext
    BY <1>3, <1>4, <2>1, <2>3 DEF ExpNext
  <2> QED BY <2>2, <2>3
<1> QED BY <1>6 DEF Goal, Same

(* What a Lesson rests on, from the model's answer to the active Lesson.   *)
(*   Seen: only a job whose task failed has patterns to report or a Lesson *)
(*     to follow;                                                          *)
(*   Counted: a cluster's record, and the copy its job works with, never   *)
(*     counts more tasks than the table holds, which are failures all;     *)
(*   and the job that writes holds a record that counts enough of them.    *)
LessonInv ==
  /\ \A r \in Root : work[r].a.seen # {} \/ work[r].pc = "follow" => IsFailure(r)
  /\ \A c \in Cluster :
       /\ \A r \in support[c] \cup lesson[c].from : IsFailure(r)
       /\ cluster[c].count <= Cardinality(support[c])
       /\ cwork[c].held.count <= Cardinality(support[c])
       /\ cwork[c].pc \in Writes => MinLesson <= cwork[c].held.count
       /\ lesson[c].status = "active" => MinLesson <= Cardinality(lesson[c].from)

(* What a promotion rests on: only a job whose task succeeded may support  *)
(* a candidate; one job writes at a time; and the job about to promote has *)
(* counted the supporters of the candidate it will write.                  *)
PromotionInv ==
  /\ \A r \in Root : work[r].a.reusable => IsSuccess(r)
  /\ \A k \in Revision : \A r \in candidate[k].by : IsSuccess(r)
  /\ \A r \in Root : \A s \in Root :
       work[r].pc \in Applying /\ work[s].pc \in Applying => r = s
  /\ \A r \in Root : work[r].pc = "promote" =>
       /\ Target \in Revision
       /\ Cardinality(candidate[Target].by) >= MinSuccess

ExpInv == ExpTyped /\ LessonInv /\ PromotionInv

LEMMA CandidateTyped ==
  ASSUME ExpTyped, [ExpNext]_expVars
  PROVE  candidate' \in [Revision -> CandidateRec]
<1>1. CASE candidate' = candidate
  BY <1>1 DEF ExpTyped
<1> QED BY <1>1, CandidateOnly, Proposed, Promoted

LEMMA ExpTypes ==
  ASSUME ExpTyped, [ExpNext]_expVars
  PROVE  ExpTyped'
BY EpisodeStays, WorkGoesOn, ClusterCounts, SupportGrows, HolderCounts, LessonGrows,
   CandidateTyped DEF ExpTyped

LEMMA NothingSeen == Nothing.seen = {} /\ ~Nothing.reusable
BY DEF Nothing

LEMMA Sizes ==
  ASSUME ExpTyped, NEW c \in Cluster
  PROVE  /\ support[c] \subseteq Root /\ IsFiniteSet(support[c])
         /\ Cardinality(support[c]) \in Nat
         /\ lesson[c].from \subseteq Root /\ IsFiniteSet(lesson[c].from)
         /\ Cardinality(lesson[c].from) \in Nat
         /\ cluster[c].count \in Nat /\ cwork[c].held.count \in Nat
<1>1. support[c] \subseteq Root /\ lesson[c].from \subseteq Root
  BY DEF ExpTyped, LessonRec
<1>2. cluster[c].count \in Nat
  BY DEF ExpTyped, ClusterRow
<1>3. cwork[c].held.count \in Nat
  <2>1. cwork[c].held \in ClusterRow
    BY HeldTyped
  <2> QED BY <2>1 DEF ClusterRow
<1> QED BY <1>1, <1>2, <1>3, ExperienceAssumption, FS_Subset, FS_CardinalityType

LEMMA SeenKeeps ==
  ASSUME ExpTyped, LessonInv, [ExpNext]_expVars, NEW r \in Root,
         work'[r].a.seen # {} \/ work'[r].pc = "follow"
  PROVE  IsFailure(r)
<1>1. RowGoes(r)
  BY WorkGoesOn
<1>2. CASE work'[r] = work[r]
  BY <1>2 DEF LessonInv
<1>3. CASE work'[r].pc \notin Applying /\ work'[r].a \in {Nothing, work[r].a}
  <2>1. work'[r].a.seen # {}
    BY <1>3 DEF Applying
  <2>2. work'[r].a = work[r].a
    BY <1>3, <2>1, NothingSeen
  <2> QED BY <2>1, <2>2 DEF LessonInv
<1>4. CASE work'[r].pc = "observe" /\ Answered(r, work'[r].a)
  BY <1>4 DEF Answered
<1>5. CASE /\ work'[r].a.seen \subseteq work[r].a.seen
           /\ work'[r].pc = "follow" => work[r].a.seen # {}
  BY <1>5 DEF LessonInv
<1> QED BY <1>1, <1>2, <1>3, <1>4, <1>5 DEF RowGoes

LEMMA LessonKeeps ==
  ASSUME ExpTyped, LessonInv, [ExpNext]_expVars
  PROVE  LessonInv'
<1>1. ExpTyped'
  BY ExpTypes
<1>2. ASSUME NEW r \in Root
      PROVE  work'[r].a.seen # {} \/ work'[r].pc = "follow" => IsFailure(r)'
  BY SeenKeeps, EpisodeStays
<1>3. ASSUME NEW c \in Cluster
      PROVE  /\ \A r \in support'[c] \cup lesson'[c].from : IsFailure(r)'
             /\ cluster'[c].count <= Cardinality(support'[c])
             /\ cwork'[c].held.count <= Cardinality(support'[c])
             /\ cwork'[c].pc \in Writes => MinLesson <= cwork'[c].held.count
             /\ lesson'[c].status = "active" => MinLesson <= Cardinality(lesson'[c].from)
  <2>1. /\ \A r \in support[c] \cup lesson[c].from : IsFailure(r)
        /\ cluster[c].count <= Cardinality(support[c])
        /\ cwork[c].held.count <= Cardinality(support[c])
        /\ cwork[c].pc \in Writes => MinLesson <= cwork[c].held.count
        /\ lesson[c].status = "active" => MinLesson <= Cardinality(lesson[c].from)
    BY DEF LessonInv
  <2>2. /\ Cardinality(support[c]) \in Nat /\ Cardinality(lesson[c].from) \in Nat
        /\ cluster[c].count \in Nat /\ cwork[c].held.count \in Nat
    BY Sizes
  <2>3. /\ Cardinality(support'[c]) \in Nat /\ Cardinality(lesson'[c].from) \in Nat
        /\ IsFiniteSet(support'[c]) /\ IsFiniteSet(lesson'[c].from)
        /\ support'[c] \subseteq Root /\ lesson'[c].from \subseteq Root
    BY <1>1, ExperienceAssumption, FS_Subset, FS_CardinalityType DEF ExpTyped, LessonRec
  <2>4. support[c] \subseteq support'[c] /\ LessonGoes(c)
    BY SupportGrows, LessonGrows
  <2>5. /\ Cardinality(support[c]) <= Cardinality(support'[c])
        /\ Cardinality(lesson[c].from) <= Cardinality(lesson'[c].from)
    BY <2>3, <2>4, FS_Subset DEF LessonGoes
  <2>6. \A r \in support'[c] : IsFailure(r)
    BY <2>1, <2>3, SupportGrows DEF LessonInv
  <2>7. \A r \in lesson'[c].from : IsFailure(r)
    BY <2>1, <2>3, <2>4 DEF LessonInv, LessonGoes
  <2>8. \A r \in support'[c] \cup lesson'[c].from : IsFailure(r)'
    BY <2>3, <2>6, <2>7, EpisodeStays
  <2>9. ClusterGoes(c) /\ HolderGoes(c)
    BY ClusterCounts, HolderCounts
  <2>10. cluster'[c].count <= Cardinality(support'[c])
    BY <2>1, <2>2, <2>3, <2>5, <2>9 DEF ClusterGoes
  <2>11. cwork'[c].held.count \in {0, cwork[c].held.count, cluster[c].count}
    BY <2>9 DEF HolderGoes
  <2>12. cwork'[c].held.count <= Cardinality(support'[c])
    BY <2>1, <2>2, <2>3, <2>5, <2>11
  <2>13. cwork'[c].pc \in Writes => MinLesson <= cwork'[c].held.count
    BY <2>1, <2>2, <2>9, ExperienceAssumption DEF HolderGoes
  <2>14. ASSUME lesson'[c].status = "active" PROVE MinLesson <= Cardinality(lesson'[c].from)
    <3>1. CASE lesson[c].status = "active"
      BY <2>1, <2>2, <2>3, <2>5, <3>1, ExperienceAssumption
    <3>2. CASE cwork[c].pc = "validate" /\ support[c] \subseteq lesson'[c].from
      <4>1. MinLesson <= cwork[c].held.count
        BY <2>1, <3>2 DEF Writes
      <4>2. Cardinality(support[c]) <= Cardinality(lesson'[c].from)
        BY <2>3, <3>2, FS_Subset
      <4> QED BY <2>1, <2>2, <2>3, <4>1, <4>2, ExperienceAssumption
    <3> QED BY <2>4, <2>14, <3>1, <3>2 DEF LessonGoes
  <2> QED BY <2>8, <2>10, <2>12, <2>13, <2>14
<1> QED BY <1>2, <1>3 DEF LessonInv, IsFailure

LEMMA ReusableKeeps ==
  ASSUME ExpTyped, PromotionInv, [ExpNext]_expVars, NEW r \in Root, work'[r].a.reusable
  PROVE  IsSuccess(r)
<1>1. RowGoes(r)
  BY WorkGoesOn
<1>2. CASE work'[r] = work[r]
  BY <1>2 DEF PromotionInv
<1>3. CASE work'[r].a \in {Nothing, work[r].a}
  BY <1>3, NothingSeen DEF PromotionInv
<1>4. CASE Answered(r, work'[r].a)
  BY <1>4 DEF Answered
<1>5. CASE work'[r].a.reusable = work[r].a.reusable
  BY <1>5 DEF PromotionInv
<1> QED BY <1>1, <1>2, <1>3, <1>4, <1>5 DEF RowGoes

(* One job begins to write only while none writes. *)
LEMMA OneWrites ==
  ASSUME ExpTyped, PromotionInv, [ExpNext]_expVars, NEW r \in Root, NEW s \in Root,
         work'[r].pc \in Applying, work'[s].pc \in Applying
  PROVE  r = s
<1>1. RowGoes(r) /\ RowGoes(s)
  BY WorkGoesOn
<1>2. ASSUME NEW t \in Root, work'[t].pc \in Applying, RowGoes(t), work[t].pc \notin Applying
      PROVE  /\ \A u \in Root : work[u].pc \notin Applying
             /\ \A u \in Root : u # t => work'[u] = work[u]
  BY <1>2 DEF RowGoes, Busy
<1>3. CASE work[r].pc \notin Applying
  BY <1>1, <1>2, <1>3
<1>4. CASE work[s].pc \notin Applying
  BY <1>1, <1>2, <1>4
<1>5. CASE work[r].pc \in Applying /\ work[s].pc \in Applying
  BY <1>5 DEF PromotionInv
<1> QED BY <1>3, <1>4, <1>5

LEMMA PromoteReady ==
  ASSUME ExpTyped, PromotionInv, [ExpNext]_expVars, NEW r \in Root,
         work'[r].pc = "promote"
  PROVE  Target' \in Revision /\ Cardinality(candidate'[Target'].by) >= MinSuccess
<1>1. RowGoes(r) /\ "promote" \in Applying
  BY WorkGoesOn DEF Applying
<1>2. CASE Propose(r)
  BY <1>2, Proposed
<1>3. CASE work'[r] = work[r]
  <2>1. work[r].pc = "promote"
    BY <1>3
  <2>2. \A s \in Root : work[s].pc \in Applying => s = r
    BY <1>1, <2>1 DEF PromotionInv
  <2>3. ASSUME NEW s \in Root, Propose(s) \/ Promote(s) \/ RecordPromotion(s)
        PROVE  FALSE
    <3>1. work[s].pc \in Applying
      BY <2>3 DEF Propose, Applied, Promote, RecordPromotion, Applying
    <3>2. s = r
      BY <2>2, <3>1
    <3>3. Promote(r)
      BY <2>1, <2>3, <3>2 DEF Propose, Applied, RecordPromotion
    <3> QED BY <3>3, Promoted
  <2>4. candidate' = candidate
    BY <2>3, CandidateOnly
  <2>5. Target' = Target
    BY <2>4 DEF Target, OpenRevisions, NextRevision
  <2> QED BY <2>1, <2>4, <2>5 DEF PromotionInv
<1> QED BY <1>1, <1>2, <1>3 DEF RowGoes

LEMMA SupportersSucceeded ==
  ASSUME ExpTyped, PromotionInv, [ExpNext]_expVars, NEW k \in Revision
  PROVE  \A r \in candidate'[k].by : IsSuccess(r)
<1>1. CASE candidate' = candidate
  BY <1>1 DEF PromotionInv
<1>2. ASSUME NEW s \in Root, Propose(s) PROVE \A r \in candidate'[k].by : IsSuccess(r)
  <2>1. IsSuccess(s)
    BY <1>2 DEF Propose, PromotionInv
  <2>2. CASE k = Target
    BY <1>2, <2>1, <2>2, Proposed DEF PromotionInv
  <2>3. CASE k # Target
    BY <1>2, <2>3, Proposed DEF PromotionInv
  <2> QED BY <2>2, <2>3
<1>3. ASSUME NEW s \in Root, Promote(s) \/ RecordPromotion(s)
      PROVE  \A r \in candidate'[k].by : IsSuccess(r)
  BY <1>3, Promoted DEF PromotionInv
<1> QED BY <1>1, <1>2, <1>3, CandidateOnly

LEMMA PromotionKeeps ==
  ASSUME ExpTyped, PromotionInv, [ExpNext]_expVars
  PROVE  PromotionInv'
<1>1. \A r \in Root : work'[r].a.reusable => IsSuccess(r)'
  BY ReusableKeeps, EpisodeStays
<1>2. \A k \in Revision : \A r \in candidate'[k].by : IsSuccess(r)'
  <2> SUFFICES ASSUME NEW k \in Revision, NEW r \in candidate'[k].by PROVE IsSuccess(r)'
    OBVIOUS
  <2>1. r \in Root
    BY CandidateTyped DEF CandidateRec
  <2> QED BY <2>1, SupportersSucceeded, EpisodeStays
<1>3. \A r \in Root : \A s \in Root :
        work'[r].pc \in Applying /\ work'[s].pc \in Applying => r = s
  BY OneWrites
<1>4. \A r \in Root : work'[r].pc = "promote" =>
        Target' \in Revision /\ Cardinality(candidate'[Target'].by) >= MinSuccess
  BY PromoteReady
<1> QED BY <1>1, <1>2, <1>3, <1>4 DEF PromotionInv

LEMMA ExpStarts == ExpInit => ExpInv
<1> SUFFICES ASSUME ExpInit PROVE ExpInv
  OBVIOUS
<1>1. \A r \in Root : work[r] = NoWork
  BY DEF ExpInit
<1>2. \A c \in Cluster : /\ cluster[c] = NoCluster /\ support[c] = {}
                         /\ cwork[c] = NoCWork /\ lesson[c] = NoLesson
  BY DEF ExpInit
<1>3. NoLesson \in LessonRec /\ NoLesson.status = "none" /\ NoLesson.from = {}
  BY DEF NoLesson, LessonRec
<1>4. NoCandidate \in CandidateRec /\ NoCandidate.by = {}
  <2>1. FALSE \in BOOLEAN
    OBVIOUS
  <2> QED BY <2>1 DEF NoCandidate, CandidateRec
<1>5. ExpTyped
  BY <1>3, <1>4, NoWorkTyped, NoClusterTyped, NoCWorkTyped DEF ExpInit, ExpTyped
<1>6. LessonInv
  <2>1. \A r \in Root : work[r].a.seen = {} /\ work[r].pc # "follow"
    BY <1>1, NoWorkTyped, NothingSeen
  <2>2. \A c \in Cluster : /\ support[c] = {} /\ lesson[c].from = {}
                           /\ lesson[c].status # "active" /\ cwork[c].pc \notin Writes
    BY <1>2, <1>3, NoCWorkTyped DEF Writes
  <2>3. \A c \in Cluster : cluster[c].count = 0 /\ cwork[c].held.count = 0
    BY <1>2, NoClusterTyped, NoCWorkTyped
  <2>4. \A c \in Cluster : Cardinality(support[c]) = 0
    BY <2>2, FS_EmptySet
  <2> QED BY <2>1, <2>2, <2>3, <2>4 DEF LessonInv
<1>7. PromotionInv
  <2>1. \A r \in Root : ~work[r].a.reusable /\ work[r].pc = "none"
    BY <1>1, NoWorkTyped, NothingSeen
  <2>2. \A k \in Revision : candidate[k].by = {}
    BY <1>4 DEF ExpInit
  <2> QED BY <2>1, <2>2 DEF PromotionInv, Applying
<1> QED BY <1>5, <1>6, <1>7 DEF ExpInv

LEMMA ExpKeeps == ExpInv /\ [ExpNext]_expVars => ExpInv'
BY ExpTypes, LessonKeeps, PromotionKeeps DEF ExpInv

(* An active Lesson rests on failed attempts of enough distinct tasks,     *)
(* whatever was retried, interrupted between two transactions, restarted   *)
(* or processed again, for any number of tasks and patterns                *)
(* (agent/experience/evolution.py:295).                                    *)
THEOREM LessonsAreEarned == ExpSpec => []LessonEarned
<1>1. ExpInv => LessonEarned
  BY Sizes, ExperienceAssumption DEF ExpInv, LessonInv, LessonEarned, ActiveLessons
<1> QED BY <1>1, ExpStarts, ExpKeeps, PTL DEF ExpSpec

LEMMA PromotesEarned ==
  ExpInv /\ [ExpNext]_expVars =>
    [skillFile' # skillFile =>
       /\ Cardinality(candidate[skillFile'].by) >= MinSuccess
       /\ \A r \in candidate[skillFile'].by : IsSuccess(r)
       /\ ActiveLessons = {}]_expVars
<1> SUFFICES ASSUME ExpInv, [ExpNext]_expVars, skillFile' # skillFile
             PROVE  /\ Cardinality(candidate[skillFile'].by) >= MinSuccess
                    /\ \A r \in candidate[skillFile'].by : IsSuccess(r)
                    /\ ActiveLessons = {}
  OBVIOUS
<1>1. PICK r \in Root : Promote(r)
  BY CandidateOnly
<1>2. skillFile' = Target /\ ActiveLessons = {} /\ work[r].pc = "promote"
  BY <1>1 DEF Promote
<1> QED BY <1>2 DEF ExpInv, PromotionInv

(* SKILL.md is rewritten only for enough distinct tasks that succeeded and *)
(* while no active Lesson speaks against the workflow, wherever the        *)
(* process died in between (agent/experience/evolution.py:503).            *)
THEOREM PromotionsAreEarned == ExpSpec => PromotionEarned
BY PromotesEarned, ExpStarts, ExpKeeps, PTL DEF ExpSpec, PromotionEarned
(* The types of experience. The rows of the two job tables.                *)
JobWrite(f, g, x) ==
  \/ \E s \in Rows : g = [f EXCEPT ![x].status = s]
  \/ g = [f EXCEPT ![x] = Begun(f[x])]
  \/ \E s \in Rows : g = [f EXCEPT ![x] = [Begun(f[x]) EXCEPT !.status = s]]
  \/ g = [f EXCEPT ![x] = Failed(f[x])]
  \/ g = f

LEMMA RowWritten ==
  ASSUME NEW S, NEW f \in [S -> JobRow], NEW x \in S, NEW g, JobWrite(f, g, x)
  PROVE  g \in [S -> JobRow]
<1>1. f[x] \in JobRow
  OBVIOUS
<1>2. \A row \in JobRow, u \in Rows : [row EXCEPT !.status = u] \in JobRow
  BY DEF JobRow
<1>3. Begun(f[x]) \in JobRow
  <2>1. "running" \in Rows
    BY DEF Rows
  <2>2. (IF f[x].tries < MaxEvoTries THEN f[x].tries + 1 ELSE MaxEvoTries) \in 0..MaxEvoTries
    BY <1>1, ExperienceAssumption DEF JobRow
  <2> QED BY <2>1, <2>2 DEF Begun, JobRow
<1>4. Failed(f[x]) \in JobRow
  <2>1. (IF f[x].tries < MaxEvoTries THEN "pending" ELSE "failed") \in Rows
    BY DEF Rows
  <2> QED BY <1>1, <1>2, <2>1 DEF Failed
<1>5. \A row \in JobRow : [f EXCEPT ![x] = row] \in [S -> JobRow]
  OBVIOUS
<1> HIDE DEF Begun, Failed
<1>6. ASSUME NEW s \in Rows, g = [f EXCEPT ![x] = [Begun(f[x]) EXCEPT !.status = s]]
      PROVE  g \in [S -> JobRow]
  <2>1. [Begun(f[x]) EXCEPT !.status = s] \in JobRow
    BY <1>2, <1>3
  <2> QED BY <1>5, <1>6, <2>1
<1>7. ASSUME NEW s \in Rows, g = [f EXCEPT ![x].status = s] PROVE g \in [S -> JobRow]
  BY <1>1, <1>2, <1>7
<1> QED BY <1>3, <1>4, <1>5, <1>6, <1>7 DEF JobWrite

JobRows == job \in [Root -> JobRow] /\ cjob \in [Cluster -> JobRow]

LEMMA RowsKept ==
  ASSUME JobRows, [ExpNext]_expVars
  PROVE  JobRows'
<1>0. {"none", "pending", "running", "completed", "failed"} = Rows
  BY DEF Rows
<1>1. ASSUME NEW r \in Root, NEW t, CompleteTask(r, t) PROVE JobRows'
  <2>1. [status |-> "pending", tries |-> 0] \in JobRow
    BY ExperienceAssumption DEF JobRow, Rows
  <2> QED BY <1>1, <2>1 DEF CompleteTask, JobRows
<1>2. ASSUME NEW r \in Root, RunJob(r) \/ JobRaises(r) \/ RetryJob(r) \/ FinishJob(r) PROVE JobRows'
  <2>1. cjob' = cjob /\ JobWrite(job, job', r)
    BY <1>0, <1>2 DEF RunJob, JobRaises, RetryJob, FinishJob, JobWrite
  <2> QED BY <2>1, RowWritten DEF JobRows
<1>3. ASSUME NEW r \in Root, NEW c \in Cluster,
             \/ Observe(r, c) \/ Attach(r, c) \/ EnqueueCluster(r, c)
             \/ Counter(r, c) \/ Reopen(r, c)
      PROVE  JobRows'
  <2>1. CASE EnqueueCluster(r, c)
    <3>1. job' = job /\ JobWrite(cjob, cjob', c)
      BY <1>0, <2>1 DEF EnqueueCluster, JobWrite
    <3> QED BY <3>1, RowWritten DEF JobRows
  <2> QED BY <1>3, <2>1 DEF Observe, Attach, Counter, Reopen, JobRows
<1>4. CASE \E r \in Root : \/ \E a \in Assessment : Assessed(r, a)
                           \/ Propose(r) \/ Promote(r) \/ RecordPromotion(r)
  BY <1>4 DEF Assessed, Propose, Promote, RecordPromotion, JobRows
<1>5. ASSUME NEW c \in Cluster, RunClusterJob(c) PROVE JobRows'
  <2>1. job' = job /\ JobWrite(cjob, cjob', c)
    BY <1>0, <1>5, Zenon DEF RunClusterJob, JobWrite
  <2> QED BY <2>1, RowWritten DEF JobRows
<1>6. ASSUME NEW c \in Cluster, Synthesized(c) \/ Rejected(c) \/ Settle(c) \/ ClusterJobRaises(c)
      PROVE  JobRows'
  <2>1. job' = job /\ JobWrite(cjob, cjob', c)
    BY <1>0, <1>6 DEF Synthesized, Rejected, Settle, ClusterJobRaises, Block, CDone, Deferred, Ask, JobWrite
  <2> QED BY <2>1, RowWritten DEF JobRows
<1>7. CASE \E c \in Cluster : \/ \E old \in SUBSET Cluster : Accepted(c, old)
                              \/ \E d \in Cluster : Supersede(c, d)
                              \/ RetryClusterJob(c)
  BY <1>7 DEF Accepted, Supersede, RetryClusterJob, JobRows
<1>8. CASE RestartExperience
  <2>1. \A row \in JobRow : Reset(row) \in JobRow
    BY <1>0 DEF Reset, JobRow
  <2> QED BY <1>8, <2>1 DEF RestartExperience, JobRows
<1>9. CASE UNCHANGED expVars
  BY <1>9 DEF expVars, JobRows
<1> QED BY <1>1, <1>2, <1>3, <1>4, <1>5, <1>6, <1>7, <1>8, <1>9 DEF ExpNext
(* Episodes and counters. *)
Counted ==
  /\ episode \in [Root -> {"none", "success", "mixed", "failure", "barren"}]
  /\ skillFile \in 0..MaxRevision
  /\ evoCalls \in 0..MaxEvoCalls /\ expFaults \in 0..MaxFaults

LEMMA EpisodesTyped ==
  ASSUME Counted, [ExpNext]_expVars
  PROVE  episode' \in [Root -> {"none", "success", "mixed", "failure", "barren"}]
<1>1. CASE episode' = episode
  BY <1>1 DEF Counted
<1>2. ASSUME NEW r \in Root, NEW t, CompleteTask(r, t)
      PROVE  episode' \in [Root -> {"none", "success", "mixed", "failure", "barren"}]
  <2>1. Kind(t) \in {"success", "mixed", "failure", "barren"}
    BY DEF Kind
  <2>2. episode' = [episode EXCEPT ![r] = Kind(t)]
    BY <1>2 DEF CompleteTask
  <2> HIDE DEF Kind
  <2> QED BY <2>1, <2>2 DEF Counted
<1> QED BY <1>1, <1>2, OneEpisode

LEMMA CountersKept ==
  ASSUME Counted, PromotionInv, [ExpNext]_expVars
  PROVE  Counted'
<1> USE ExperienceAssumption
<1> DEFINE Bounded == evoCalls' \in 0..MaxEvoCalls /\ expFaults' \in 0..MaxFaults
<1>1. skillFile' \in 0..MaxRevision
  <2>1. CASE skillFile' = skillFile
    BY <2>1 DEF Counted
  <2>2. ASSUME NEW r \in Root, Promote(r) PROVE skillFile' \in {skillFile, Target} /\ Target \in Revision
    BY <2>2, Zenon DEF Promote, PromotionInv
  <2> QED BY <2>1, <2>2, CandidateOnly DEF Counted, Revision
<1>2. ASSUME UNCHANGED <<evoCalls, expFaults>> PROVE Bounded
  BY <1>2 DEF Counted
<1>3. ASSUME Claimable, Claim, UNCHANGED expFaults PROVE Bounded
  BY <1>3 DEF Counted, Claimable, Claim
<1>4. ASSUME Fault, evoCalls' \in {0, evoCalls} PROVE Bounded
  BY <1>4 DEF Counted, Fault
<1> HIDE DEF Bounded
<1>5. ASSUME NEW r \in Root,
             \/ \E t \in FinishedTask : CompleteTask(r, t)
             \/ RetryJob(r) \/ FinishJob(r)
             \/ \E a \in Assessment : Assessed(r, a)
             \/ Propose(r) \/ Promote(r) \/ RecordPromotion(r)
      PROVE  UNCHANGED <<evoCalls, expFaults>>
  BY <1>5 DEF CompleteTask, RetryJob, FinishJob, Assessed, Propose, Promote, RecordPromotion
<1>6. ASSUME NEW r \in Root, NEW c \in Cluster,
             \/ Observe(r, c) \/ Attach(r, c) \/ EnqueueCluster(r, c)
             \/ Counter(r, c) \/ Reopen(r, c)
      PROVE  UNCHANGED <<evoCalls, expFaults>>
  BY <1>6 DEF Observe, Attach, EnqueueCluster, Counter, Reopen
<1>7. ASSUME NEW c \in Cluster,
             \/ Rejected(c) \/ Settle(c) \/ RetryClusterJob(c)
             \/ \E old \in SUBSET Cluster : Accepted(c, old)
             \/ \E d \in Cluster : Supersede(c, d)
      PROVE  UNCHANGED <<evoCalls, expFaults>>
  BY <1>7 DEF Rejected, Settle, Accepted, Supersede, RetryClusterJob, Block, CDone
<1>8. ASSUME NEW r \in Root, RunJob(r) PROVE Bounded
  BY <1>2, <1>3, <1>8 DEF RunJob
<1>9. ASSUME NEW c \in Cluster, RunClusterJob(c) \/ Synthesized(c) PROVE Bounded
  BY <1>2, <1>3, <1>9 DEF RunClusterJob, Synthesized, Ask, Block, Deferred
<1>10. ASSUME NEW r \in Root, JobRaises(r) PROVE Bounded
  BY <1>4, <1>10 DEF JobRaises
<1>11. ASSUME NEW c \in Cluster, ClusterJobRaises(c) PROVE Bounded
  BY <1>4, <1>11 DEF ClusterJobRaises
<1>12. ASSUME RestartExperience PROVE Bounded
  BY <1>4, <1>12 DEF RestartExperience
<1>13. ASSUME UNCHANGED expVars PROVE Bounded
  BY <1>2, <1>13 DEF expVars
<1>14. Bounded
  <2>1. CASE \E r \in Root :
               \/ \E t \in FinishedTask : CompleteTask(r, t)
               \/ RunJob(r) \/ JobRaises(r) \/ RetryJob(r)
               \/ \E a \in Assessment : Assessed(r, a)
               \/ \E c \in Cluster :
                    \/ Observe(r, c) \/ Attach(r, c) \/ EnqueueCluster(r, c)
                    \/ Counter(r, c) \/ Reopen(r, c)
               \/ Propose(r) \/ Promote(r) \/ RecordPromotion(r) \/ FinishJob(r)
    BY <1>2, <1>5, <1>6, <1>8, <1>10, <2>1
  <2>2. CASE \E c \in Cluster :
               \/ RunClusterJob(c) \/ Synthesized(c) \/ Rejected(c) \/ Settle(c)
               \/ \E old \in SUBSET Cluster : Accepted(c, old)
               \/ \E d \in Cluster : Supersede(c, d)
               \/ ClusterJobRaises(c) \/ RetryClusterJob(c)
    BY <1>2, <1>7, <1>9, <1>11, <2>2
  <2> QED BY <1>12, <1>13, <2>1, <2>2 DEF ExpNext
<1> QED BY <1>1, <1>14, EpisodesTyped DEF Counted, Bounded

(* The types of experience, for any number of tasks and patterns: every    *)
(* record, every job and every copy a coroutine works with has its form,   *)
(* the record of a cluster counts no more tasks than there are, and what   *)
(* SKILL.md holds is a candidate (agent/experience/store.py:568).          *)
THEOREM ExperienceTyped == ExpSpec => []ExpTypeOK
<1>1. ExpInit => JobRows /\ Counted
  <2> SUFFICES ASSUME ExpInit PROVE JobRows /\ Counted
    OBVIOUS
  <2>1. NoJob \in JobRow
    BY ExperienceAssumption DEF NoJob, JobRow, Rows
  <2> QED BY <2>1, ExperienceAssumption DEF ExpInit, JobRows, Counted
<1>2. ExpInv /\ JobRows /\ Counted => ExpTypeOK
  <2> SUFFICES ASSUME ExpInv, JobRows, Counted PROVE ExpTypeOK
    OBVIOUS
  <2>1. \A c \in Cluster, n \in Nat : n <= Cardinality(support[c]) => n \in 0..Cardinality(Root)
    <3> SUFFICES ASSUME NEW c \in Cluster, NEW n \in Nat, n <= Cardinality(support[c])
                 PROVE  n \in 0..Cardinality(Root)
      OBVIOUS
    <3>1. Cardinality(support[c]) <= Cardinality(Root)
      BY Sizes, FS_Subset, ExperienceAssumption DEF ExpInv
    <3>2. Cardinality(Root) \in Nat /\ Cardinality(support[c]) \in Nat
      BY Sizes, FS_CardinalityType, ExperienceAssumption DEF ExpInv
    <3> QED BY <3>1, <3>2
  <2>2. cluster \in [Cluster -> ClusterRec]
    BY <2>1 DEF ExpInv, ExpTyped, LessonInv, ClusterRow, ClusterRec
  <2>3. cwork \in [Cluster -> CWorkRec]
    BY <2>1 DEF ExpInv, ExpTyped, LessonInv, ClusterRow, ClusterRec, CWorkRow, CWorkPc, CWorkRec
  <2>4. work \in [Root -> WorkRec]
    BY DEF ExpInv, ExpTyped, WorkRow, WorkPc, WorkRec
  <2> QED BY <2>2, <2>3, <2>4 DEF ExpInv, ExpTyped, JobRows, Counted, ExpTypeOK
<1> QED BY <1>1, <1>2, ExpStarts, ExpKeeps, RowsKept, CountersKept, PTL DEF ExpSpec, ExpInv
=============================================================================
