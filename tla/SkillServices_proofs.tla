------------------------ MODULE SkillServices_proofs -------------------------
(***************************************************************************)
(* Proofs about the parts around a Skill that MCServices checks, each a    *)
(* specification of its own: its installation, the switch of Runtimes, the *)
(* evidence of a task, and its activation and binding.                     *)
(***************************************************************************)
EXTENDS SkillInstallation, RuntimeSwitch, Evidence, Activation, SequenceTheorems, FiniteSetTheorems,
        TLAPS

InstSpec == InstInit /\ [][InstNext]_instVars
SwitchSpec == SwitchInit /\ [][SwitchNext]_switchVars
EvidenceSpec == EvidenceInit /\ [][EvidenceNext]_evidenceVars
ActivationSpec == ActivationInit /\ [][ActivationNext]_activationVars

AtMostOne(S) == \A r, q \in S : r = q

LEMMA OneCounts == ASSUME NEW S, AtMostOne(S) PROVE Cardinality(S) <= 1
<1>1. CASE S = {}
  BY <1>1, FS_EmptySet
<1>2. ASSUME NEW x \in S PROVE Cardinality(S) <= 1
  <2>1. S = {x}
    BY <1>2 DEF AtMostOne
  <2>2. Cardinality({x}) = 1
    BY FS_Singleton
  <2> QED BY <2>1, <2>2
<1> QED BY <1>1, <1>2

-----------------------------------------------------------------------------
(* Installation.  A process works on the Skill's directory, or on its      *)
(* Runtime, exactly while it holds the lock, and there is one lock.        *)
AtWork == {"locked", "place", "undo", "delete", "prepare", "launch", "settle", "halt"}
Works(p) == proc[p].pc \in AtWork

Phase == {"idle", "status", "download", "preview", "nodes", "stage", "locked", "place", "undo",
          "delete", "prepare", "launch", "settle", "halt", "probe", "save"}
Row == [pc: Phase, op: {"none", "install", "remove", "start", "stop", "status"},
        v: Version \cup {Missing}, saved: Version \cup {Missing}, savedWhole: BOOLEAN,
        st: RuntimeStatus, busy: BOOLEAN]

(* A process that downloads, or installs nodes, is told a version.          *)
InstTyped ==
  /\ bundle \in Version \cup {Missing} /\ whole \in BOOLEAN
  /\ nodes \subseteq Version /\ holder \subseteq Process
  /\ proc \in [Process -> Row] /\ runtime \in RuntimeStatus
  /\ \A p \in Process : proc[p].pc \in {"download", "preview", "nodes"} => proc[p].v # Missing

Locked ==
  /\ \A p \in Process : Works(p) <=> p \in holder
  /\ \A p, q \in holder : p = q

(* What a process that holds the lock can rely on between its steps: while  *)
(* the bundle is aside no flow counts on it, and a start that was saved     *)
(* still has the bundle and the node it will launch.                        *)
GivenUp == flowOf = Missing \/ lapsed
Relies ==
  \A p \in Process :
    /\ proc[p].pc \in {"place", "undo", "delete"} => bundle = Missing /\ GivenUp
    /\ proc[p].pc \in {"launch", "settle"} => bundle # Missing /\ bundle \in nodes

(* A flow that was not given up is one that the file calls active. *)
FlowSaid == GivenUp \/ Active

InstInv == InstTyped /\ Locked /\ Relies /\ RuntimeKeepsBundle /\ FlowSaid

LEMMA InstStarts == InstInit => InstInv
<1> SUFFICES ASSUME InstInit PROVE InstInv
  OBVIOUS
<1>1. \A p \in Process : proc[p] = NoProcess
  BY DEF InstInit
<1>2. \A p \in Process : proc[p].pc = "idle"
  BY <1>1 DEF NoProcess
<1>3. NoProcess \in Row
  BY DEF NoProcess, Row, Phase, RuntimeStatus
<1>4. proc \in [Process -> Row]
  BY <1>3 DEF InstInit
<1>5. whole \in BOOLEAN
  BY DEF InstInit
<1>6. InstTyped
  BY <1>2, <1>4, <1>5 DEF InstInit, InstTyped, RuntimeStatus
<1>7. Locked /\ Relies /\ RuntimeKeepsBundle /\ FlowSaid
  BY <1>2 DEF InstInit, Locked, Relies, RuntimeKeepsBundle, Works, AtWork, FlowSaid, GivenUp
<1> QED BY <1>6, <1>7 DEF InstInv

(* Only the process that moves changes its row.                             *)
RowOnly(p) == \A q \in Process \ {p} : proc'[q] = proc[q]

(* No flow comes up: one that the file has always called active was one     *)
(* already.                                                                 *)
FlowLess == ~GivenUp' => ~GivenUp /\ flowOf' = flowOf /\ Active'

LEMMA FlowStays ==
  ASSUME FlowSaid, UNCHANGED flow \/ \E st, f : FlowIs(st, f) /\ f \in {flowOf, Missing}
  PROVE  FlowLess /\ FlowSaid'
<1>1. CASE UNCHANGED flow
  BY <1>1 DEF flow, FlowLess, FlowSaid, GivenUp, Active
<1>2. ASSUME NEW st, NEW f \in {flowOf, Missing}, FlowIs(st, f) PROVE FlowLess /\ FlowSaid'
  BY <1>2 DEF FlowIs, FlowLess, FlowSaid, GivenUp, Active
<1> QED BY <1>1, <1>2

LEMMA StillKeeps ==
  ASSUME InstInv, FlowLess, bundle' = bundle, nodes \subseteq nodes'
  PROVE  RuntimeKeepsBundle'
BY DEF InstInv, FlowLess, GivenUp, RuntimeKeepsBundle

(* A step outside the lock: the process was not at work and is not.         *)
LEMMA Outside ==
  ASSUME NEW p \in Process, InstInv, InstTyped', RowOnly(p), ~Works(p), ~Works(p)',
         UNCHANGED <<bundle, holder>>, FlowLess, FlowSaid', nodes \subseteq nodes'
  PROVE  InstInv'
<1>1. \A q \in Process : Works(q)' <=> Works(q)
  BY DEF RowOnly, Works
<1>2. Locked'
  BY <1>1 DEF InstInv, Locked
<1>3. \A q \in Process : proc'[q].pc \in AtWork => proc'[q] = proc[q]
  BY DEF RowOnly, Works
<1>4. Relies'
  BY <1>3 DEF InstInv, Relies, AtWork, FlowLess
<1>5. RuntimeKeepsBundle'
  BY StillKeeps
<1> QED BY <1>2, <1>4, <1>5 DEF InstInv

(* A step of the holder that gives up the lock, whatever it did before.     *)
LEMMA Unlock ==
  ASSUME NEW p \in Process, InstInv, InstTyped', RowOnly(p), Works(p), ~Works(p)', Release(p),
         RuntimeKeepsBundle', FlowSaid'
  PROVE  InstInv'
<1>1. \A q \in Process : q # p => ~Works(q)
  BY DEF InstInv, Locked
<1>2. \A q \in Process : ~Works(q)'
  BY <1>1 DEF RowOnly, Works
<1>3. holder' = {}
  BY DEF InstInv, Locked, Release
<1>4. Locked' /\ Relies'
  BY <1>2, <1>3 DEF Locked, Relies, Works, AtWork
<1> QED BY <1>4 DEF InstInv

(* A step of the holder that keeps the lock.                                *)
LEMMA KeepLock ==
  ASSUME NEW p \in Process, InstInv, InstTyped', RowOnly(p), Works(p), Works(p)', UNCHANGED holder,
         RuntimeKeepsBundle', FlowSaid',
         proc'[p].pc \in {"place", "undo", "delete"} => bundle' = Missing /\ GivenUp',
         proc'[p].pc \in {"launch", "settle"} => bundle' # Missing /\ bundle' \in nodes'
  PROVE  InstInv'
<1>1. \A q \in Process : q # p => ~Works(q)
  BY DEF InstInv, Locked
<1>2. \A q \in Process : q # p => ~Works(q)'
  BY <1>1 DEF RowOnly, Works
<1>3. Locked'
  BY <1>1, <1>2 DEF InstInv, Locked
<1>4. Relies'
  BY <1>2 DEF Relies, Works, AtWork
<1> QED BY <1>3, <1>4 DEF InstInv

(* What the steps make of a row.                                            *)
LEMMA RowIdle == NoProcess \in Row /\ NoProcess.pc = "idle"
BY DEF NoProcess, Row, Phase, RuntimeStatus

LEMMA RowMoves ==
  ASSUME NEW r \in Row, NEW pc \in Phase
  PROVE  /\ [r EXCEPT !.pc = pc] \in Row /\ [r EXCEPT !.pc = pc].pc = pc
         /\ [r EXCEPT !.pc = pc].v = r.v
BY DEF Row, Phase

LEMMA Goes ==
  ASSUME InstTyped, NEW p \in Process, NEW pc \in Phase, GoesTo(p, pc)
  PROVE  /\ RowOnly(p) /\ proc' \in [Process -> Row]
         /\ proc'[p].pc = pc /\ proc'[p].v = proc[p].v
<1>1. proc'[p] = [proc[p] EXCEPT !.pc = pc] /\ RowOnly(p)
  BY DEF InstTyped, GoesTo, RowOnly
<1>2. proc[p] \in Row
  BY DEF InstTyped
<1>3. proc' \in [Process -> Row]
  BY <1>2, RowMoves DEF InstTyped, GoesTo
<1> QED BY <1>1, <1>2, <1>3, RowMoves

LEMMA GoesAside ==
  ASSUME InstTyped, NEW p \in Process, NEW pc \in Phase,
         \/ proc' = [proc EXCEPT ![p].pc = pc, ![p].saved = bundle, ![p].savedWhole = whole]
         \/ proc' = [proc EXCEPT ![p].pc = pc, ![p].saved = bundle]
  PROVE  RowOnly(p) /\ proc' \in [Process -> Row] /\ proc'[p].pc = pc
<1> DEFINE r == [proc[p] EXCEPT !.pc = pc, !.saved = bundle, !.savedWhole = whole]
           s == [proc[p] EXCEPT !.pc = pc, !.saved = bundle]
<1>1. r \in Row /\ r.pc = pc /\ s \in Row /\ s.pc = pc
  <2>1. proc[p] \in Row /\ bundle \in Version \cup {Missing} /\ whole \in BOOLEAN
    BY DEF InstTyped
  <2>2. r \in Row /\ r.pc = pc
    BY <2>1 DEF Row
  <2>3. s \in Row /\ s.pc = pc
    BY <2>1 DEF Row
  <2> QED BY <2>2, <2>3
<1>2. proc' = [proc EXCEPT ![p] = r] \/ proc' = [proc EXCEPT ![p] = s]
  BY DEF InstTyped
<1>3. proc \in [Process -> Row]
  BY DEF InstTyped
<1> HIDE DEF r, s
<1> QED BY <1>1, <1>2, <1>3 DEF RowOnly

LEMMA Ended ==
  ASSUME InstTyped, NEW p \in Process, Ends(p)
  PROVE  RowOnly(p) /\ proc' \in [Process -> Row] /\ proc'[p].pc = "idle"
<1> HIDE DEF NoProcess
<1> QED BY RowIdle DEF InstTyped, Ends, RowOnly

LEMMA InstBegins ==
  ASSUME InstTyped, NEW p \in Process, NEW op \in {"install", "remove", "start", "stop", "status"},
         NEW v \in Version \cup {Missing}, Begin(p, op, v)
  PROVE  /\ RowOnly(p) /\ proc' \in [Process -> Row]
         /\ \/ proc'[p].pc = "download" /\ proc'[p].v # Missing
            \/ proc'[p].pc \in {"stage", "status"}
<1> DEFINE pc == CASE op = "install" -> "download"
                   [] op = "status"  -> "status"
                   [] OTHER          -> "stage"
           r == [NoProcess EXCEPT !.op = op, !.v = v, !.pc = pc]
<1>1. pc \in Phase
  BY DEF Phase
<1>2. r \in Row /\ r.pc = pc /\ r.v = v
  <2> HIDE DEF pc
  <2> QED BY <1>1 DEF NoProcess, Row, Phase, RuntimeStatus
<1>3. proc' = [proc EXCEPT ![p] = r] /\ (v # Missing <=> op = "install")
  BY DEF Begin
<1>4. (pc = "download" /\ v # Missing) \/ pc \in {"stage", "status"}
  BY <1>3
<1>5. proc \in [Process -> Row]
  BY DEF InstTyped
<1> HIDE DEF r, pc
<1> QED BY <1>2, <1>3, <1>4, <1>5 DEF RowOnly

(* The rows keep their shape, whoever moves. *)
LEMMA StillTyped ==
  ASSUME NEW p \in Process, InstTyped, RowOnly(p), proc' \in [Process -> Row],
         proc'[p].pc \in {"download", "preview", "nodes"} => proc'[p].v # Missing,
         bundle' \in Version \cup {Missing}, whole' \in BOOLEAN,
         nodes' \subseteq Version, holder' \subseteq Process, runtime' \in RuntimeStatus
  PROVE  InstTyped'
BY DEF InstTyped, RowOnly

LEMMA StatusRows ==
  ASSUME InstTyped, NEW p \in Process, NEW pc \in Phase, NEW st \in RuntimeStatus, NEW busy \in BOOLEAN,
         \/ proc' = [proc EXCEPT ![p].pc = pc, ![p].st = st, ![p].busy = busy]
         \/ proc' = [proc EXCEPT ![p].pc = pc, ![p].st = st]
  PROVE  RowOnly(p) /\ proc' \in [Process -> Row] /\ proc'[p].pc = pc
<1> DEFINE r == [proc[p] EXCEPT !.pc = pc, !.st = st, !.busy = busy]
           s == [proc[p] EXCEPT !.pc = pc, !.st = st]
<1>1. proc[p] \in Row
  BY DEF InstTyped
<1>2. r \in Row /\ r.pc = pc
  BY <1>1 DEF Row
<1>3. s \in Row /\ s.pc = pc
  BY <1>1 DEF Row
<1>4. proc' = [proc EXCEPT ![p] = r] \/ proc' = [proc EXCEPT ![p] = s]
  BY DEF InstTyped
<1>5. proc \in [Process -> Row]
  BY DEF InstTyped
<1> HIDE DEF r, s
<1> QED BY <1>2, <1>3, <1>4, <1>5 DEF RowOnly

(* What one process does. *)
InstMove(p) ==
  \/ \E op \in {"install", "remove", "start", "stop", "status"}, v \in Version \cup {Missing} : Begin(p, op, v)
  \/ Cached(p) \/ BrokenOff(p) \/ Commit(p) \/ Preview(p) \/ InstallNode(p)
  \/ \E fresh \in BOOLEAN, c \in Chunk : Receive(p, fresh, c)
  \/ TakeLock(p) \/ Refused(p)
  \/ MoveAside(p) \/ Place(p) \/ PlaceFails(p) \/ Undo(p) \/ UndoFails(p)
  \/ MoveAway(p) \/ Delete(p) \/ DeleteFails(p)
  \/ CheckStarted(p) \/ SaveStart(p) \/ StartFlow(p) \/ Launched(p) \/ LaunchFails(p)
  \/ SaveStop(p) \/ StopFlow(p) \/ Halted(p) \/ HaltFails(p)
  \/ ReadStatus(p) \/ ProbeFlow(p) \/ SaveStatus(p)
  \/ Dies(p)

LEMMA FlowDiesKeeps ==
  ASSUME InstInv, FlowDies
  PROVE  InstInv'
<1>1. FlowLess /\ FlowSaid'
  BY FlowStays DEF FlowDies, InstInv
<1>2. UNCHANGED <<bundle, whole, nodes, holder, proc>>
  BY DEF FlowDies, store
<1>3. RuntimeKeepsBundle' /\ runtime' = runtime
  BY <1>1, <1>2, StillKeeps DEF FlowDies, FlowIs
<1> QED BY <1>1, <1>2, <1>3 DEF InstInv, InstTyped, Locked, Relies, FlowLess, Works

(* Every step: the rows, and which of the three cases it is.                *)
LEMMA InstStep ==
  ASSUME InstInv, InstNext
  PROVE  InstInv'
<1> SUFFICES ASSUME NEW p \in Process, InstMove(p) PROVE InstInv'
  BY FlowDiesKeeps DEF InstNext, InstMove
<1> DEFINE Quiet == UNCHANGED <<bundle, whole, nodes, flow, holder>>
<1>t. /\ InstTyped /\ Locked /\ Relies /\ RuntimeKeepsBundle /\ FlowSaid
      /\ proc[p] \in Row /\ proc[p].saved \in Version \cup {Missing}
      /\ proc[p].v \in Version \cup {Missing} /\ proc[p].savedWhole \in BOOLEAN
      /\ "idle" \in Phase /\ "preview" \in Phase /\ "nodes" \in Phase /\ "stage" \in Phase
      /\ "locked" \in Phase /\ "place" \in Phase /\ "undo" \in Phase /\ "delete" \in Phase
      /\ "launch" \in Phase /\ "halt" \in Phase /\ "prepare" \in Phase /\ "settle" \in Phase
      /\ "probe" \in Phase /\ "save" \in Phase
  BY DEF InstInv, InstTyped, Row, Phase
<1>r. runtime' \in RuntimeStatus
  <2>1. UNCHANGED flow \/ \E st \in RuntimeStatus : \E f : FlowIs(st, f)
    <3>1. proc[p].st \in RuntimeStatus /\ runtime \in RuntimeStatus
      BY <1>t DEF Row, InstTyped
    <3>2. {"starting", "running", "stopping", "stopped", "failed"} \subseteq RuntimeStatus
      BY DEF RuntimeStatus
    <3>3. CASE CheckStarted(p)
      BY <3>1, <3>2, <3>3 DEF CheckStarted
    <3>4. CASE SaveStart(p) \/ StartFlow(p) \/ Launched(p) \/ LaunchFails(p) \/ SaveStop(p)
               \/ StopFlow(p) \/ Halted(p) \/ HaltFails(p) \/ SaveStatus(p)
      BY <3>1, <3>2, <3>4 DEF SaveStart, StartFlow, Launched, LaunchFails, SaveStop, StopFlow, Halted,
         HaltFails, SaveStatus
    <3>5. CASE ~(CheckStarted(p) \/ SaveStart(p) \/ StartFlow(p) \/ Launched(p) \/ LaunchFails(p)
               \/ SaveStop(p) \/ StopFlow(p) \/ Halted(p) \/ HaltFails(p) \/ SaveStatus(p))
      BY <3>5 DEF InstMove, Begin, Cached, BrokenOff, Commit, Preview, InstallNode, Receive, TakeLock,
         Refused, MoveAside, Place, Undo, UndoFails, MoveAway, DeleteFails, PlaceFails, Delete,
         ReadStatus, ProbeFlow, Dies
    <3> QED BY <3>3, <3>4, <3>5
  <2> QED BY <1>t, <2>1 DEF flow, FlowIs, InstTyped
(* No lock. *)
<1>q. ASSUME Quiet, RowOnly(p), proc' \in [Process -> Row], ~Works(p), ~Works(p)',
             proc'[p].pc \in {"download", "preview", "nodes"} => proc'[p].v # Missing
      PROVE  InstInv'
  <2>1. InstTyped'
    <3>1. /\ bundle' \in Version \cup {Missing} /\ nodes' \subseteq Version
          /\ holder' \subseteq Process
      BY <1>t, <1>q DEF InstTyped
    <3>2. whole' \in BOOLEAN
      BY <1>t, <1>q DEF InstTyped
    <3> QED BY <1>q, <1>t, <3>1, <3>2, <1>r, StillTyped
  <2>2. FlowLess /\ FlowSaid'
    BY <1>q, <1>t, FlowStays
  <2> QED BY <1>q, <2>1, <2>2, Outside
<1>1. ASSUME NEW op \in {"install", "remove", "start", "stop", "status"}, NEW v \in Version \cup {Missing},
             Begin(p, op, v)
      PROVE  InstInv'
  <2>1. ~Works(p) /\ Quiet
    BY <1>1 DEF Begin, ProcessAt, Works, AtWork, store
  <2>2. /\ RowOnly(p) /\ proc' \in [Process -> Row]
        /\ \/ proc'[p].pc = "download" /\ proc'[p].v # Missing
           \/ proc'[p].pc \in {"stage", "status"}
    BY <1>1, <1>t, InstBegins
  <2>3. ~Works(p)'
    BY <2>2 DEF Works, AtWork
  <2> QED BY <2>1, <2>2, <2>3, <1>q
<1>2. CASE Cached(p)
  <2>1. ~Works(p) /\ Quiet /\ GoesTo(p, "preview") /\ proc[p].v # Missing
    BY <1>2, <1>t DEF InstTyped, Cached, ProcessAt, Works, AtWork, store
  <2>2. RowOnly(p) /\ proc' \in [Process -> Row] /\ proc'[p].pc = "preview" /\ proc'[p].v = proc[p].v
    BY <2>1, <1>t, Goes
  <2>3. ~Works(p)'
    BY <2>2 DEF Works, AtWork
  <2> QED BY <2>1, <2>2, <2>3, <1>q
<1>3. CASE BrokenOff(p)
  <2>1. ~Works(p) /\ Quiet /\ Ends(p)
    BY <1>3 DEF BrokenOff, ProcessAt, Works, AtWork, store
  <2>2. RowOnly(p) /\ proc' \in [Process -> Row] /\ proc'[p].pc = "idle"
    BY <2>1, <1>t, Ended
  <2>3. ~Works(p)'
    BY <2>2 DEF Works, AtWork
  <2> QED BY <2>1, <2>2, <2>3, <1>q
<1>4. CASE Commit(p) \/ Preview(p)
  <2>1. ~Works(p) /\ Quiet /\ proc[p].v # Missing
    BY <1>4, <1>t DEF InstTyped, Commit, Preview, ProcessAt, Works, AtWork, store
  <2>2. Ends(p) \/ \E pc \in {"preview", "nodes", "stage"} : GoesTo(p, pc)
    BY <1>4 DEF Commit, Preview
  <2>3. /\ RowOnly(p) /\ proc' \in [Process -> Row]
        /\ \/ proc'[p].pc = "idle"
           \/ proc'[p].pc \in {"preview", "nodes", "stage"} /\ proc'[p].v = proc[p].v
    <3>1. CASE Ends(p)
      BY <3>1, <1>t, Ended
    <3>2. ASSUME NEW pc \in {"preview", "nodes", "stage"}, GoesTo(p, pc)
          PROVE  RowOnly(p) /\ proc' \in [Process -> Row] /\ proc'[p].pc = pc /\ proc'[p].v = proc[p].v
      <4>1. pc \in Phase
        BY DEF Phase
      <4> QED BY <3>2, <4>1, <1>t, Goes
    <3> QED BY <2>2, <3>1, <3>2
  <2>4. ~Works(p)'
    BY <2>3 DEF Works, AtWork
  <2> QED BY <2>1, <2>3, <2>4, <1>q
<1>5. CASE InstallNode(p)
  <2>1. ~Works(p) /\ UNCHANGED <<bundle, whole, flow, holder>> /\ proc[p].v # Missing
    BY <1>5, <1>t DEF InstTyped, InstallNode, ProcessAt, Works, AtWork
  <2>2. nodes \subseteq nodes' /\ nodes' \subseteq Version
    BY <1>5, <1>t, <2>1 DEF InstTyped, InstallNode
  <2>3. Ends(p) \/ GoesTo(p, "preview")
    BY <1>5 DEF InstallNode
  <2>4. /\ RowOnly(p) /\ proc' \in [Process -> Row]
        /\ \/ proc'[p].pc = "idle"
           \/ proc'[p].pc = "preview" /\ proc'[p].v = proc[p].v
    BY <2>3, <1>t, Ended, Goes
  <2>5. ~Works(p)'
    BY <2>4 DEF Works, AtWork
  <2>6. bundle' \in Version \cup {Missing} /\ holder' \subseteq Process
    BY <1>t, <2>1 DEF InstTyped
  <2>7. whole' \in BOOLEAN
    BY <1>t, <2>1 DEF InstTyped
  <2>8. InstTyped'
    BY <2>1, <2>2, <2>4, <2>6, <2>7, <1>t, <1>r, StillTyped
  <2>9. FlowLess /\ FlowSaid'
    BY <1>t, <2>1, FlowStays
  <2> QED BY <2>1, <2>2, <2>4, <2>5, <2>8, <2>9, Outside
<1>6. ASSUME NEW fresh \in BOOLEAN, NEW c \in Chunk, Receive(p, fresh, c) PROVE InstInv'
  <2>1. ~Works(p) /\ Quiet /\ proc[p].v # Missing /\ proc' = proc
    BY <1>6, <1>t DEF InstTyped, Receive, ProcessAt, Works, AtWork, store
  <2>2. ~Works(p)' /\ RowOnly(p) /\ proc' \in [Process -> Row]
    BY <2>1, <1>t DEF InstTyped, Works, AtWork, RowOnly
  <2> QED BY <2>1, <2>2, <1>q
(* The lock is taken, or refused. *)
<1>7. CASE TakeLock(p)
  <2>1. CASE holder # {} /\ Ends(p) /\ UNCHANGED holder
    <3>1. ~Works(p) /\ Quiet
      BY <1>7, <2>1 DEF TakeLock, ProcessAt, Works, AtWork, store
    <3>2. RowOnly(p) /\ proc' \in [Process -> Row] /\ proc'[p].pc = "idle"
      BY <2>1, <1>t, Ended
    <3>3. ~Works(p)'
      BY <3>2 DEF Works, AtWork
    <3> QED BY <3>1, <3>2, <3>3, <1>q
  <2>2. CASE holder = {} /\ holder' = {p} /\ GoesTo(p, "locked")
    <3>1. UNCHANGED <<bundle, whole, nodes, flow>>
      BY <1>7 DEF TakeLock, store
    <3>2. RowOnly(p) /\ proc' \in [Process -> Row] /\ proc'[p].pc = "locked"
      BY <2>2, <1>t, Goes
    <3>3. bundle' \in Version \cup {Missing} /\ nodes' \subseteq Version /\ holder' \subseteq Process
      BY <1>t, <2>2, <3>1 DEF InstTyped
    <3>4. whole' \in BOOLEAN
      BY <1>t, <3>1 DEF InstTyped
    <3>5. InstTyped'
      BY <3>2, <3>3, <3>4, <1>t, <1>r, StillTyped
    <3>6. \A q \in Process : q # p => ~Works(q) /\ ~Works(q)'
      BY <1>t, <2>2, <3>2 DEF Locked, RowOnly, Works, AtWork
    <3>7. Locked' /\ Relies'
      BY <2>2, <3>2, <3>6 DEF Locked, Relies, Works, AtWork
    <3>8. RuntimeKeepsBundle' /\ FlowSaid'
      BY <1>t, <3>1 DEF RuntimeKeepsBundle, FlowSaid, GivenUp, Active, flow
    <3> QED BY <3>5, <3>7, <3>8 DEF InstInv
  <2> QED BY <1>7, <2>1, <2>2 DEF TakeLock
(* The holder ends its operation: with the bundle as it was, or put back. *)
<1>u. ASSUME Ends(p), Release(p), Works(p), FlowLess, FlowSaid',
             bundle' = bundle \/ (GivenUp /\ bundle' \in Version \cup {Missing}),
             whole' \in BOOLEAN, nodes' = nodes
      PROVE  InstInv'
  <2>1. RowOnly(p) /\ proc' \in [Process -> Row] /\ proc'[p].pc = "idle"
    BY <1>u, <1>t, Ended
  <2>2. ~Works(p)'
    BY <2>1 DEF Works, AtWork
  <2>3. /\ holder' \subseteq Process /\ nodes' \subseteq Version
        /\ bundle' \in Version \cup {Missing}
    BY <1>u, <1>t DEF InstTyped, Release
  <2>4. InstTyped'
    BY <1>u, <1>t, <2>1, <2>3, <1>r, StillTyped
  <2>5. RuntimeKeepsBundle'
    BY <1>u, StillKeeps DEF FlowLess, GivenUp, RuntimeKeepsBundle
  <2> QED BY <1>u, <2>1, <2>2, <2>4, <2>5, Unlock
<1>b. whole \in BOOLEAN /\ bundle \in Version \cup {Missing} /\ nodes \subseteq Version
  BY <1>t DEF InstTyped
<1>8. CASE Refused(p) \/ Delete(p)
  <2>1. Ends(p) /\ Release(p) /\ Works(p) /\ UNCHANGED <<bundle, whole, nodes, flow>>
    BY <1>8 DEF Refused, Delete, ProcessAt, Works, AtWork, store
  <2>2. FlowLess /\ FlowSaid'
    BY <1>t, <2>1, FlowStays
  <2>3. whole' \in BOOLEAN
    BY <1>b, <2>1
  <2> QED BY <1>u, <2>1, <2>2, <2>3
<1>9. CASE Place(p)
  <2>1. /\ Ends(p) /\ Release(p) /\ Works(p) /\ bundle' = proc[p].v /\ whole' = TRUE
        /\ UNCHANGED <<nodes, flow>>
    BY <1>9 DEF Place, ProcessAt, Works, AtWork
  <2>2. GivenUp
    BY <1>9, <1>t DEF Relies, Place, ProcessAt
  <2>3. FlowLess /\ FlowSaid'
    BY <1>t, <2>1, FlowStays
  <2> QED BY <1>u, <1>t, <2>1, <2>2, <2>3
<1>10. CASE Undo(p) \/ UndoFails(p) \/ DeleteFails(p)
  <2>1. Ends(p) /\ Release(p) /\ Works(p) /\ UNCHANGED <<nodes, flow>>
    BY <1>10 DEF Undo, UndoFails, DeleteFails, ProcessAt, Works, AtWork
  <2>2. GivenUp
    BY <1>10, <1>t DEF Relies, Undo, UndoFails, DeleteFails, ProcessAt
  <2>3. bundle' \in {bundle, proc[p].saved}
    BY <1>10 DEF Undo, UndoFails, DeleteFails
  <2>4. bundle' \in Version \cup {Missing}
    BY <1>t, <1>b, <2>3
  <2>5. whole' = whole \/ whole' = proc[p].savedWhole \/ whole' = FALSE
    BY <1>10 DEF Undo, UndoFails, DeleteFails
  <2>6. whole' \in BOOLEAN
    BY <1>t, <1>b, <2>5
  <2>7. FlowLess /\ FlowSaid'
    BY <1>t, <2>1, FlowStays
  <2> QED BY <1>u, <2>1, <2>2, <2>4, <2>6, <2>7
<1>11. CASE Launched(p) \/ LaunchFails(p) \/ Halted(p) \/ HaltFails(p)
  <2>1. Ends(p) /\ Release(p) /\ Works(p) /\ UNCHANGED <<bundle, whole, nodes>>
    BY <1>11 DEF Launched, LaunchFails, Halted, HaltFails, ProcessAt, Works, AtWork, store
  <2>2. FlowLess /\ FlowSaid'
    BY <1>11, <1>t, FlowStays DEF Launched, LaunchFails, Halted, HaltFails
  <2>3. whole' \in BOOLEAN
    BY <1>b, <2>1
  <2> QED BY <1>u, <2>1, <2>2, <2>3
<1>12. CASE CheckStarted(p) /\ Ends(p) /\ Release(p)
  <2>1. Works(p) /\ UNCHANGED <<bundle, whole, nodes>>
    BY <1>12 DEF CheckStarted, ProcessAt, Works, AtWork, store
  <2>2. FlowLess /\ FlowSaid'
    BY <1>12, <1>t, FlowStays DEF CheckStarted
  <2>3. whole' \in BOOLEAN
    BY <1>b, <2>1
  <2> QED BY <1>u, <1>12, <2>1, <2>2, <2>3
<1>13. CASE Dies(p)
  <2>1. Ends(p) /\ Release(p) /\ UNCHANGED <<bundle, whole, nodes, flow>>
    BY <1>13 DEF Dies, store
  <2>2. FlowLess /\ FlowSaid'
    BY <1>t, <2>1, FlowStays
  <2>3. whole' \in BOOLEAN
    BY <1>b, <2>1
  <2>4. CASE Works(p)
    BY <1>u, <2>1, <2>2, <2>3, <2>4
  <2>5. CASE ~Works(p)
    <3>1. RowOnly(p) /\ proc' \in [Process -> Row] /\ proc'[p].pc = "idle"
      BY <2>1, <1>t, Ended
    <3>2. ~Works(p)'
      BY <3>1 DEF Works, AtWork
    <3>3. holder' = holder
      BY <2>1, <2>5, <1>t DEF Locked, Release
    <3> QED BY <1>q, <2>1, <2>5, <3>1, <3>2, <3>3
  <2> QED BY <2>4, <2>5
(* The holder goes on. *)
<1>k. ASSUME NEW pc \in AtWork,
             RowOnly(p), proc' \in [Process -> Row], proc'[p].pc = pc, Works(p),
             UNCHANGED <<whole, nodes, holder>>, bundle' \in {bundle, Missing},
             RuntimeKeepsBundle', FlowSaid',
             pc \in {"place", "undo", "delete"} => bundle' = Missing /\ GivenUp',
             pc \in {"launch", "settle"} => bundle' # Missing /\ bundle' \in nodes'
      PROVE  InstInv'
  <2>1. Works(p)'
    BY <1>k DEF Works
  <2>2. bundle' \in Version \cup {Missing} /\ nodes' \subseteq Version /\ holder' \subseteq Process
    BY <1>k, <1>t DEF InstTyped
  <2>3. whole' \in BOOLEAN
    BY <1>k, <1>b
  <2>4. InstTyped'
    BY <1>k, <1>t, <2>2, <2>3, <1>r, StillTyped DEF AtWork
  <2> QED BY <1>k, <2>1, <2>4, KeepLock
<1>14. CASE MoveAside(p) \/ MoveAway(p)
  <2>1. Works(p) /\ UNCHANGED <<whole, nodes, holder, flow>> /\ bundle' = Missing
    BY <1>14 DEF MoveAside, MoveAway, ProcessAt, Works, AtWork
  <2>2. GivenUp
    <3>1. CASE bundle = Missing
      BY <3>1, <1>t, InstallationAssumption DEF GivenUp, RuntimeKeepsBundle, InstTyped
    <3>2. CASE ~Active
      BY <3>2, <1>t DEF FlowSaid
    <3> QED BY <1>14, <3>1, <3>2 DEF MoveAside, MoveAway
  <2>3. PICK pc \in {"place", "delete"} :
        \/ proc' = [proc EXCEPT ![p].pc = pc, ![p].saved = bundle, ![p].savedWhole = whole]
        \/ proc' = [proc EXCEPT ![p].pc = pc, ![p].saved = bundle]
    BY <1>14 DEF MoveAside, MoveAway
  <2>4. pc \in Phase /\ pc \in AtWork
    BY DEF Phase, AtWork
  <2>5. RowOnly(p) /\ proc' \in [Process -> Row] /\ proc'[p].pc = pc
    BY <2>3, <2>4, <1>t, GoesAside
  <2>6. GivenUp' /\ RuntimeKeepsBundle' /\ FlowSaid'
    BY <2>1, <2>2 DEF GivenUp, RuntimeKeepsBundle, FlowSaid, flow
  <2> QED BY <1>k, <2>1, <2>4, <2>5, <2>6
<1>15. CASE PlaceFails(p)
  <2>1. Works(p) /\ UNCHANGED <<bundle, whole, nodes, holder, flow>> /\ GoesTo(p, "undo")
    BY <1>15 DEF PlaceFails, ProcessAt, Works, AtWork, store
  <2>2. bundle = Missing /\ GivenUp
    BY <1>15, <1>t DEF PlaceFails, ProcessAt, Relies
  <2>3. RowOnly(p) /\ proc' \in [Process -> Row] /\ proc'[p].pc = "undo" /\ "undo" \in AtWork
    BY <2>1, <1>t, Goes DEF AtWork
  <2>4. GivenUp' /\ RuntimeKeepsBundle' /\ FlowSaid'
    BY <2>1, <2>2 DEF GivenUp, RuntimeKeepsBundle, FlowSaid, flow
  <2> QED BY <1>k, <2>1, <2>2, <2>3, <2>4
<1>16. CASE SaveStart(p) \/ SaveStop(p) \/ (CheckStarted(p) /\ GoesTo(p, "prepare") /\ UNCHANGED holder)
  <2>1. PICK pc \in {"launch", "halt", "prepare"} :
          /\ GoesTo(p, pc)
          /\ pc = "launch" => bundle # Missing /\ bundle \in nodes
    BY <1>16 DEF SaveStart, SaveStop
  <2>2. Works(p) /\ UNCHANGED <<bundle, whole, nodes, holder>>
    BY <1>16 DEF SaveStart, SaveStop, CheckStarted, Prepares, ProcessAt, Works, AtWork, store
  <2>3. FlowLess /\ FlowSaid'
    BY <1>16, <1>t, FlowStays DEF SaveStart, SaveStop, CheckStarted
  <2>4. pc \in Phase /\ pc \in AtWork
    BY DEF Phase, AtWork
  <2>5. RowOnly(p) /\ proc' \in [Process -> Row] /\ proc'[p].pc = pc
    BY <2>1, <2>4, <1>t, Goes
  <2>6. RuntimeKeepsBundle'
    BY <2>2, <2>3, StillKeeps
  <2> QED BY <1>k, <2>1, <2>2, <2>3, <2>4, <2>5, <2>6
<1>17. CASE StartFlow(p)
  <2>1. Works(p) /\ UNCHANGED <<bundle, whole, nodes, holder>> /\ GoesTo(p, "settle")
    BY <1>17 DEF StartFlow, ProcessAt, Works, AtWork, store
  <2>2. bundle # Missing /\ bundle \in nodes
    BY <1>17, <1>t DEF StartFlow, ProcessAt, Relies
  <2>3. RowOnly(p) /\ proc' \in [Process -> Row] /\ proc'[p].pc = "settle" /\ "settle" \in AtWork
    BY <2>1, <1>t, Goes DEF AtWork
  <2>4. RuntimeKeepsBundle' /\ FlowSaid'
    <3>1. CASE flowOf = Missing
      BY <1>17, <2>1, <2>2, <3>1 DEF StartFlow, FlowIs, RuntimeKeepsBundle, FlowSaid, GivenUp, Active
    <3>2. CASE flowOf # Missing
      <4>1. FlowIs(runtime, flowOf)
        BY <1>17, <3>2 DEF StartFlow
      <4>2. FlowLess /\ FlowSaid'
        BY <1>t, <4>1, FlowStays
      <4> QED BY <2>1, <4>2, StillKeeps
    <3> QED BY <3>1, <3>2
  <2> QED BY <1>k, <2>1, <2>2, <2>3, <2>4
<1>18. CASE StopFlow(p)
  <2>1. UNCHANGED <<bundle, whole, nodes, holder, proc>> /\ FlowIs(runtime, Missing)
    BY <1>18 DEF StopFlow, store
  <2>2. FlowLess /\ FlowSaid'
    BY <1>t, <2>1, FlowStays
  <2>3. RuntimeKeepsBundle'
    BY <2>1, <2>2, StillKeeps
  <2> QED BY <1>t, <1>r, <2>1, <2>2, <2>3 DEF InstInv, InstTyped, Locked, Relies, FlowLess, Works
(* status, outside the lock. *)
<1>19. CASE ReadStatus(p) \/ ProbeFlow(p)
  <2>1. ~Works(p) /\ Quiet
    BY <1>19 DEF ReadStatus, ProbeFlow, ProcessAt, Works, AtWork, store
  <2>2. /\ RowOnly(p) /\ proc' \in [Process -> Row]
        /\ proc'[p].pc \in {"idle", "probe", "save"}
    <3>1. CASE Ends(p)
      BY <3>1, <1>t, Ended
    <3>2. CASE proc' = [proc EXCEPT ![p].pc = "probe", ![p].st = runtime, ![p].busy = holder # {}]
               /\ runtime \in RuntimeStatus
      <4>1. (holder # {}) \in BOOLEAN
        OBVIOUS
      <4> QED BY <1>t, <3>2, <4>1, StatusRows
    <3>3. ASSUME NEW st \in RuntimeStatus, proc' = [proc EXCEPT ![p].pc = "save", ![p].st = st]
          PROVE  /\ RowOnly(p) /\ proc' \in [Process -> Row] /\ proc'[p].pc = "save"
      BY <1>t, <3>3, StatusRows
    <3>4. runtime \in RuntimeStatus
      BY <1>t DEF InstTyped
    <3>5. \A ready, listed \in BOOLEAN :
            Reconciled(proc[p].st, proc[p].busy, ready, listed) \in RuntimeStatus
      BY <1>t DEF Reconciled, RuntimeStatus, Row
    <3> QED BY <1>19, <3>1, <3>2, <3>3, <3>4, <3>5 DEF ReadStatus, ProbeFlow
  <2>3. ~Works(p)' /\ proc'[p].pc \notin {"download", "preview", "nodes"}
    BY <2>2 DEF Works, AtWork
  <2> QED BY <1>q, <2>1, <2>2, <2>3
<1>20. CASE SaveStatus(p)
  <2>1. ~Works(p) /\ UNCHANGED <<bundle, whole, nodes, holder>> /\ Ends(p)
    BY <1>20 DEF SaveStatus, ProcessAt, Works, AtWork, store
  <2>2. RowOnly(p) /\ proc' \in [Process -> Row] /\ proc'[p].pc = "idle"
    BY <2>1, <1>t, Ended
  <2>3. ~Works(p)'
    BY <2>2 DEF Works, AtWork
  <2>4. FlowLess /\ FlowSaid'
    BY <1>20, <1>t, FlowStays DEF SaveStatus
  <2>5. runtime' \in RuntimeStatus
    BY <1>20, <1>t DEF SaveStatus, FlowIs, Row
  <2>6. InstTyped'
    <3>1. holder' \subseteq Process /\ bundle' \in Version \cup {Missing} /\ nodes' \subseteq Version
      BY <1>t, <2>1 DEF InstTyped
    <3>2. whole' \in BOOLEAN
      BY <1>b, <2>1
    <3> QED BY <1>t, <2>2, <2>5, <3>1, <3>2, <1>r, StillTyped
  <2> QED BY <2>1, <2>2, <2>3, <2>4, <2>6, Outside
<1> QED
  BY <1>1, <1>2, <1>3, <1>4, <1>5, <1>6, <1>7, <1>8, <1>9, <1>10, <1>11, <1>12, <1>13,
     <1>14, <1>15, <1>16, <1>17, <1>18, <1>19, <1>20 DEF InstMove, CheckStarted

LEMMA InstInvariant == InstSpec => []InstInv
<1>1. ASSUME InstInv, UNCHANGED instVars PROVE InstInv'
  BY <1>1 DEF InstInv, instVars, InstTyped, Locked, Relies, RuntimeKeepsBundle, Works, FlowSaid, GivenUp,
     Active
<1> QED BY <1>1, InstStarts, InstStep, PTL DEF InstSpec

(* A flow that runs keeps the bundle it was started from and its node, for  *)
(* any number of processes and versions, whoever installs, removes, fails   *)
(* or dies, as long as the state file has not said since it came up that it *)
(* is not active: status writes it without the lock (manager.py:167), a     *)
(* start and a stop that fail under it (skill_runtime/installer.py:129).    *)
THEOREM BundleStays == InstSpec => []RuntimeKeepsBundle
<1>1. InstInv => RuntimeKeepsBundle
  BY DEF InstInv
<1> QED BY <1>1, InstInvariant, PTL

(* Versions leave the machine by a removal only. *)
LEMMA VersionStays ==
  ASSUME InstInv, InstNext
  PROVE  \A v \in Kept \ Kept' :
           \E p \in Process : proc[p].op = "remove" /\ ProcessAt(p, "locked") /\ bundle = v
<1>1. CASE FlowDies
  BY <1>1 DEF FlowDies, store, Kept
<1> SUFFICES ASSUME NEW p \in Process, InstMove(p)
             PROVE  \A v \in Kept \ Kept' :
                      \E q \in Process : proc[q].op = "remove" /\ ProcessAt(q, "locked") /\ bundle = v
  BY <1>1 DEF InstNext, InstMove
<1>2. CASE MoveAway(p)
  BY <1>2 DEF MoveAway, Kept
<1>3. CASE MoveAside(p)
  <2>1. Kept \subseteq Kept'
    BY <1>3 DEF MoveAside, Kept
  <2> QED BY <2>1
<1>4. CASE Place(p) \/ Undo(p) \/ UndoFails(p) \/ DeleteFails(p)
  <2>1. bundle = Missing
    BY <1>4 DEF InstInv, Relies, Place, Undo, UndoFails, DeleteFails, ProcessAt
  <2>2. backups \subseteq backups' \cup {bundle'}
    BY <1>4 DEF Place, Undo, UndoFails, DeleteFails
  <2>3. Kept \subseteq Kept'
    BY <2>1, <2>2 DEF Kept
  <2> QED BY <2>3
<1>5. CASE ~(MoveAway(p) \/ MoveAside(p) \/ Place(p) \/ Undo(p) \/ UndoFails(p) \/ DeleteFails(p))
  <2>1. UNCHANGED <<bundle, backups>>
    BY <1>5 DEF InstMove, Begin, Cached, BrokenOff, Commit, Preview, InstallNode, Receive, TakeLock, Refused,
       PlaceFails, Delete, CheckStarted, SaveStart, StartFlow, Launched, LaunchFails, SaveStop, StopFlow,
       Halted, HaltFails, ReadStatus, ProbeFlow, SaveStatus, Dies, store
  <2> QED BY <2>1 DEF Kept
<1> QED BY <1>2, <1>3, <1>4, <1>5

(* No step of an update, of its failure or of its rollback takes the last   *)
(* copy of an installed version from the machine; only a removal does, for  *)
(* any number of processes and versions (skill_runtime/installer.py:129).   *)
THEOREM OnlyRemovalLoses == InstSpec => UpdateKeepsVersion
<1>1. ASSUME InstInv, [InstNext]_instVars
      PROVE  [\A v \in Kept \ Kept' :
                \E p \in Process : proc[p].op = "remove" /\ ProcessAt(p, "locked") /\ bundle = v]_instVars
  BY <1>1, VersionStays
<1> QED BY <1>1, InstInvariant, PTL DEF InstSpec, UpdateKeepsVersion

(* The types of the installation. What a part of an archive is.            *)
ArchivePart == UNION {[1..n -> Chunk] : n \in 0..Size}

LEMMA PartsGrow ==
  /\ <<>> \in ArchivePart
  /\ \A s \in ArchivePart, c \in Chunk : Len(s) < Size => Append(s, c) \in ArchivePart
<1> USE InstallationAssumption
<1>1. <<>> \in ArchivePart
  <2>1. <<>> \in [1..0 -> Chunk] /\ 0 \in 0..Size
    OBVIOUS
  <2> QED BY <2>1 DEF ArchivePart
<1>2. ASSUME NEW s \in ArchivePart, NEW c \in Chunk, Len(s) < Size PROVE Append(s, c) \in ArchivePart
  <2>1. PICK n \in 0..Size : s \in [1..n -> Chunk]
    BY DEF ArchivePart
  <2>2. s \in Seq(Chunk) /\ Len(s) = n
    BY <2>1
  <2>3. Append(s, c) \in Seq(Chunk) /\ Len(Append(s, c)) = n + 1
    BY <2>2
  <2>4. Append(s, c) \in [1..n + 1 -> Chunk]
    BY <2>3, LenProperties
  <2>5. n + 1 \in 0..Size
    BY <1>2, <2>2
  <2> QED BY <2>4, <2>5 DEF ArchivePart
<1> QED BY <1>1, <1>2

CacheTyped ==
  /\ archive \in [Version -> BOOLEAN] /\ part \in [Version -> ArchivePart]
  /\ ops \in 0..MaxOps /\ instFaults \in 0..MaxInstFaults
PlaceTyped ==
  backups \subseteq Version /\ flowOf \in Version \cup {Missing} /\ lapsed \in BOOLEAN

LEMMA CacheKept ==
  ASSUME InstInv, CacheTyped, InstNext
  PROVE  CacheTyped'
<1> USE InstallationAssumption
<1>0. CASE FlowDies
  BY <1>0 DEF FlowDies, InstFault, cache, CacheTyped
<1> SUFFICES ASSUME NEW p \in Process, InstMove(p) PROVE CacheTyped'
  BY <1>0 DEF InstNext, InstMove
<1>1. ASSUME NEW fresh \in BOOLEAN, NEW c \in Chunk, Receive(p, fresh, c) PROVE CacheTyped'
  <2>1. PICK v \in Version : v = proc[p].v
    BY <1>1 DEF Receive, ProcessAt, InstInv, InstTyped, Row
  <2>2. part[v] \in ArchivePart /\ Len(part[v]) < Size
    BY <1>1, <2>1 DEF Receive, CacheTyped
  <2>3. PICK kept \in {<<>>, part[v]} : part' = [part EXCEPT ![v] = Append(kept, c)]
    BY <1>1, <2>1 DEF Receive
  <2>4. Append(kept, c) \in ArchivePart
    BY <2>2, <2>3, PartsGrow
  <2>5. archive' = archive /\ ops' = ops /\ (instFaults' = instFaults \/ InstFault)
    BY <1>1 DEF Receive
  <2> QED BY <2>3, <2>4, <2>5 DEF CacheTyped, InstFault
<1>2. CASE Commit(p)
  <2>1. PICK v : part' = [part EXCEPT ![v] = <<>>] /\ archive' \in {archive, [archive EXCEPT ![v] = TRUE]}
    BY <1>2 DEF Commit
  <2>2. ops' = ops /\ instFaults' = instFaults
    BY <1>2 DEF Commit
  <2> QED BY <2>1, <2>2, PartsGrow DEF CacheTyped
<1>3. ASSUME NEW op, NEW v, Begin(p, op, v) PROVE CacheTyped'
  BY <1>3 DEF Begin, cache, CacheTyped
<1>4. CASE \/ BrokenOff(p) \/ PlaceFails(p) \/ UndoFails(p) \/ DeleteFails(p) \/ Dies(p)
           \/ LaunchFails(p) \/ Halted(p) \/ HaltFails(p)
  BY <1>4 DEF BrokenOff, PlaceFails, UndoFails, DeleteFails, Dies, LaunchFails, Halted, HaltFails,
              InstFault, cache, CacheTyped
<1>5. CASE \/ Cached(p) \/ Preview(p) \/ InstallNode(p) \/ TakeLock(p) \/ Refused(p)
           \/ MoveAside(p) \/ Place(p) \/ Undo(p) \/ MoveAway(p) \/ Delete(p)
  BY <1>5 DEF Cached, Preview, InstallNode, TakeLock, Refused, MoveAside, Place, Undo, MoveAway,
              Delete, cache, CacheTyped
<1>6. CASE \/ CheckStarted(p) \/ SaveStart(p) \/ StartFlow(p) \/ Launched(p) \/ SaveStop(p)
           \/ StopFlow(p) \/ ReadStatus(p) \/ ProbeFlow(p) \/ SaveStatus(p)
  BY <1>6 DEF CheckStarted, SaveStart, StartFlow, Launched, SaveStop, StopFlow, ReadStatus, ProbeFlow,
              SaveStatus, cache, CacheTyped
<1> QED BY <1>1, <1>2, <1>3, <1>4, <1>5, <1>6 DEF InstMove

LEMMA PlaceKept ==
  ASSUME InstInv, PlaceTyped, InstNext
  PROVE  PlaceTyped'
<1>0. bundle \in Version \cup {Missing}
  BY DEF InstInv, InstTyped
<1>1. backups' \subseteq backups \cup ({bundle} \ {Missing})
  <2>1. CASE FlowDies
    BY <2>1 DEF FlowDies, store
  <2>2. ASSUME NEW p \in Process, InstMove(p) PROVE backups' \subseteq backups \cup ({bundle} \ {Missing})
    <3>1. CASE MoveAside(p) \/ Undo(p) \/ UndoFails(p)
      BY <3>1 DEF MoveAside, Undo, UndoFails
    <3>2. CASE ~(MoveAside(p) \/ Undo(p) \/ UndoFails(p))
      BY <2>2, <3>2 DEF InstMove, Begin, Cached, BrokenOff, Commit, Preview, InstallNode, Receive,
         TakeLock, Refused, Place, MoveAway, DeleteFails, PlaceFails, Delete, CheckStarted, SaveStart,
         StartFlow, Launched, LaunchFails, SaveStop, StopFlow, Halted, HaltFails, ReadStatus, ProbeFlow,
         SaveStatus, Dies, store
    <3> QED BY <3>1, <3>2
  <2> QED BY <2>1, <2>2 DEF InstNext, InstMove
<1>2. UNCHANGED flow \/ \E st, f : FlowIs(st, f) /\ f \in {flowOf, bundle, Missing}
  <2>1. CASE FlowDies
    BY <2>1 DEF FlowDies
  <2>2. ASSUME NEW p \in Process, InstMove(p)
        PROVE  UNCHANGED flow \/ \E st, f : FlowIs(st, f) /\ f \in {flowOf, bundle, Missing}
    <3>1. CASE CheckStarted(p) \/ SaveStart(p) \/ StartFlow(p) \/ Launched(p) \/ LaunchFails(p)
               \/ SaveStop(p) \/ StopFlow(p) \/ Halted(p) \/ HaltFails(p) \/ SaveStatus(p)
      BY <3>1 DEF CheckStarted, SaveStart, StartFlow, Launched, LaunchFails, SaveStop, StopFlow, Halted,
         HaltFails, SaveStatus
    <3>2. CASE ~(CheckStarted(p) \/ SaveStart(p) \/ StartFlow(p) \/ Launched(p) \/ LaunchFails(p)
               \/ SaveStop(p) \/ StopFlow(p) \/ Halted(p) \/ HaltFails(p) \/ SaveStatus(p))
      BY <2>2, <3>2 DEF InstMove, Begin, Cached, BrokenOff, Commit, Preview, InstallNode, Receive, TakeLock,
         Refused, MoveAside, Place, Undo, UndoFails, MoveAway, DeleteFails, PlaceFails, Delete,
         ReadStatus, ProbeFlow, Dies
    <3> QED BY <3>1, <3>2
  <2> QED BY <2>1, <2>2 DEF InstNext, InstMove
<1>3. flowOf' \in {flowOf, bundle, Missing} /\ lapsed' \in BOOLEAN
  BY <1>2 DEF flow, FlowIs, PlaceTyped
<1> QED BY <1>0, <1>1, <1>3 DEF PlaceTyped

(* The types of the installation, for any number of processes and versions *)
(* and archives of any size: whatever broke off, lied or died, a part never *)
(* grows past its archive (skill_runtime/registry.py:493), and one process *)
(* at most holds the lock of the Skill (skill_runtime/locking.py:18).      *)
THEOREM OneHolder == InstSpec => []InstTypeOK
<1>1. InstInit => CacheTyped /\ PlaceTyped
  <2> SUFFICES ASSUME InstInit PROVE CacheTyped /\ PlaceTyped
    OBVIOUS
  <2>1. FALSE \in BOOLEAN /\ <<>> \in ArchivePart
    BY PartsGrow
  <2>2. archive \in [Version -> BOOLEAN] /\ part \in [Version -> ArchivePart]
    BY <2>1 DEF InstInit
  <2>3. lapsed \in BOOLEAN
    BY DEF InstInit
  <2> QED BY <2>2, <2>3, InstallationAssumption DEF InstInit, CacheTyped, PlaceTyped
<1>2. InstInv /\ CacheTyped /\ PlaceTyped /\ [InstNext]_instVars => (CacheTyped /\ PlaceTyped)'
  <2> SUFFICES ASSUME InstInv, CacheTyped, PlaceTyped, [InstNext]_instVars
               PROVE  (CacheTyped /\ PlaceTyped)'
    OBVIOUS
  <2>1. CASE UNCHANGED instVars
    BY <2>1 DEF instVars, CacheTyped, PlaceTyped
  <2> QED BY <2>1, CacheKept, PlaceKept
<1>3. InstInv /\ CacheTyped /\ PlaceTyped => InstTypeOK
  <2> SUFFICES ASSUME InstInv, CacheTyped, PlaceTyped PROVE InstTypeOK
    OBVIOUS
  <2>1. Cardinality(holder) <= 1
    BY OneCounts DEF InstInv, Locked, AtMostOne
  <2> QED BY <2>1 DEF InstInv, InstTyped, Row, Phase, CacheTyped, PlaceTyped, ArchivePart, InstTypeOK
<1> QED BY <1>1, <1>2, <1>3, InstInvariant, PTL DEF InstSpec

-----------------------------------------------------------------------------
(* Switching.  What serves at each step of a switch, as long as dora        *)
(* stopped what it was told to stop, and what still serves as long as at    *)
(* most one start failed.                                                  *)
SwitchPhase == {"idle", "check", "stop first", "start", "ready", "clean up", "restore", "stop old",
                "undo"}

SwitchShape ==
  /\ live \subseteq Runtime /\ startFaults \in Nat /\ stopFaults \in Nat /\ lostStops \in Nat
  /\ switch = [pc |-> switch.pc, current |-> switch.current, target |-> switch.target]
  /\ switch.pc \in SwitchPhase /\ switch.current \subseteq Runtime
  /\ switch.pc # "idle" => \E t \in Runtime : switch.target = {t}
  /\ switch.pc \in {"stop first", "restore"} => StopFirst
  /\ switch.pc \in {"stop old", "undo"} => ~StopFirst /\ switch.current # {}

NotTwo ==
  stopFaults = 0 =>
    /\ switch.pc # "idle" => AtMostOne(switch.current)
    /\ switch.pc = "idle" => AtMostOne(live)
    /\ switch.pc \in {"check", "stop first"} => live = switch.current
    /\ switch.pc = "start" => live = IF StopFirst THEN {} ELSE switch.current
    /\ switch.pc \in {"ready", "clean up"} =>
         live = IF StopFirst THEN {Wanted} ELSE switch.current \cup {Wanted}
    /\ switch.pc = "restore" => live = {}
    /\ switch.pc = "stop old" => live = switch.current \cup {Wanted}
    /\ switch.pc = "undo" => live \subseteq switch.current \cup {Wanted}

Beside == \E r \in live : r[1] # Wanted[1]

NotNone ==
  /\ switch.pc \in {"clean up", "restore"} => live # {} \/ startFaults >= 1
  /\ switch.pc = "clean up" => startFaults >= 1
  /\ startFaults <= 1 /\ lostStops = 0 =>
       /\ switch.pc \in {"idle", "check", "stop first"} => live # {}
       /\ switch.pc = "start" => StopFirst \/ live # {}
       /\ switch.pc \in {"ready", "clean up"} => Wanted \in live /\ (StopFirst \/ Beside)
       /\ switch.pc \in {"stop old", "undo"} => Wanted \in live /\ Beside

SwitchInv == SwitchShape /\ NotTwo /\ NotNone

LEMMA SwitchStarts == SwitchInit => SwitchInv
<1> SUFFICES ASSUME SwitchInit PROVE SwitchInv
  OBVIOUS
<1>1. PICK r \in Runtime : live = {r}
  BY DEF SwitchInit
<1>2. /\ switch = [pc |-> "idle", current |-> {}, target |-> {}]
      /\ startFaults = 0 /\ stopFaults = 0 /\ lostStops = 0
  BY DEF SwitchInit, NoSwitch
<1>3. SwitchShape
  BY <1>1, <1>2 DEF SwitchShape, SwitchPhase
<1>4. NotTwo /\ NotNone
  BY <1>1, <1>2 DEF NotTwo, NotNone, AtMostOne
<1> QED BY <1>3, <1>4 DEF SwitchInv

LEMMA TheWanted ==
  ASSUME SwitchShape, switch.pc # "idle"
  PROVE  Wanted \in Runtime /\ switch.target = {Wanted}
BY DEF SwitchShape, Wanted

LEMMA TheOld ==
  ASSUME SwitchShape, switch.current # {}
  PROVE  Old \in switch.current /\ Old \in Runtime
BY DEF SwitchShape, Old

(* The step that is next; the rest of the switch stays. *)
LEMMA SwitchGoes ==
  ASSUME SwitchShape, NEW pc, SwitchAt(pc)
  PROVE  /\ switch'.pc = pc /\ switch'.current = switch.current /\ switch'.target = switch.target
         /\ switch' = [pc |-> pc, current |-> switch.current, target |-> switch.target]
         /\ Wanted' = Wanted /\ Old' = Old /\ (StopFirst' <=> StopFirst)
<1>1. /\ switch'.pc = pc /\ switch'.current = switch.current /\ switch'.target = switch.target
      /\ switch' = [pc |-> pc, current |-> switch.current, target |-> switch.target]
  BY DEF SwitchShape, SwitchAt
<1>2. Wanted' = Wanted /\ Old' = Old
  BY <1>1 DEF Wanted, Old
<1> QED BY <1>1, <1>2 DEF StopFirst

LEMMA SwitchOver ==
  ASSUME SwitchShape, Over
  PROVE  /\ switch' = [pc |-> "idle", current |-> {}, target |-> {}]
         /\ switch'.pc = "idle" /\ switch'.current = {}
BY DEF Over, NoSwitch

(* The shape after a step. *)
LEMMA ShapeGoes ==
  ASSUME SwitchShape, NEW pc \in SwitchPhase, SwitchAt(pc), switch.pc # "idle",
         live' \subseteq Runtime, startFaults' \in Nat, stopFaults' \in Nat, lostStops' \in Nat,
         pc \in {"stop first", "restore"} => StopFirst,
         pc \in {"stop old", "undo"} => ~StopFirst /\ switch.current # {}
  PROVE  SwitchShape'
<1>1. \E t \in Runtime : switch'.target = {t}
  BY SwitchGoes DEF SwitchShape
<1> QED BY <1>1, SwitchGoes DEF SwitchShape

LEMMA ShapeOver ==
  ASSUME SwitchShape, Over, live' \subseteq Runtime, startFaults' \in Nat, stopFaults' \in Nat, lostStops' \in Nat
  PROVE  SwitchShape'
BY SwitchOver DEF SwitchShape, SwitchPhase

(* The end of a switch. *)
LEMMA Ending ==
  ASSUME SwitchShape, Over, live' \subseteq Runtime, startFaults' \in Nat, stopFaults' \in Nat, lostStops' \in Nat,
         stopFaults' = 0 => AtMostOne(live'), startFaults' <= 1 /\ lostStops' = 0 => live' # {}
  PROVE  SwitchInv'
<1>1. SwitchShape'
  BY ShapeOver
<1>2. NotTwo' /\ NotNone'
  BY SwitchOver DEF NotTwo, NotNone, AtMostOne
<1> QED BY <1>1, <1>2 DEF SwitchInv

-----------------------------------------------------------------------------
(* What the operations of the manager make of the flows.                    *)
LEMMA StartFacts ==
  ASSUME SwitchShape, NEW s \in Skill, NEW p \in Profile
  PROVE  /\ StartDone(s, p) =>
              /\ live' = live \cup {<<s, p>>} /\ live' \subseteq Runtime
              /\ UNCHANGED <<startFaults, stopFaults, lostStops>>
              /\ \A r \in live : ServesAt[r[1]] # ServesAt[s]
         /\ StartUnready(s, p) =>
              /\ live' = live \cup {<<s, p>>} /\ live' \subseteq Runtime
              /\ UNCHANGED <<stopFaults, lostStops>> /\ startFaults' = startFaults + 1
         /\ StartFailed(s, p) =>
              /\ live' \subseteq Runtime /\ live \subseteq live' /\ lostStops' = lostStops
              /\ \/ live' = live /\ stopFaults' = stopFaults
                 \/ stopFaults' = stopFaults + 1
              /\ \/ live # {} /\ startFaults' = startFaults
                 \/ startFaults' = startFaults + 1
<1>0. live \subseteq Runtime
  BY DEF SwitchShape
<1>1. StartDone(s, p) \/ StartUnready(s, p) \/ LeftBehind(s, p) =>
        live' = live \cup {<<s, p>>} /\ live' \subseteq Runtime
  <2>1. <<s, p>> \in Runtime /\ live \subseteq Runtime
    BY DEF Runtime, SwitchShape
  <2> QED BY <2>1 DEF StartDone, StartUnready, LeftBehind
<1>2. StartDone(s, p) =>
        UNCHANGED <<startFaults, stopFaults, lostStops>> /\ \A r \in live : ServesAt[r[1]] # ServesAt[s]
  BY DEF StartDone, switchFaults, InUse
<1>3. AddressRefused(s) => live' = live /\ UNCHANGED <<startFaults, stopFaults, lostStops>> /\ live # {}
  BY DEF AddressRefused, InUse, switchFaults
<1>4. /\ StartBroken(s, p) => live' = live
      /\ StartBroken(s, p) \/ StartUnready(s, p) =>
           UNCHANGED <<stopFaults, lostStops>> /\ startFaults' = startFaults + 1
  BY DEF StartBroken, StartUnready, StartFault
<1>5. LeftBehind(s, p) =>
        startFaults' = startFaults + 1 /\ stopFaults' = stopFaults + 1 /\ lostStops' = lostStops
  BY DEF LeftBehind
<1>6. StartFailed(s, p) =>
        /\ live' \subseteq Runtime /\ live \subseteq live' /\ lostStops' = lostStops
        /\ \/ live' = live /\ stopFaults' = stopFaults
           \/ stopFaults' = stopFaults + 1
        /\ \/ live # {} /\ startFaults' = startFaults
           \/ startFaults' = startFaults + 1
  <2>1. CASE AddressRefused(s) \/ StartBroken(s, p)
    BY <1>0, <1>3, <1>4, <2>1
  <2>2. CASE LeftBehind(s, p)
    BY <1>1, <1>5, <2>2
  <2> QED BY <2>1, <2>2 DEF StartFailed
<1> QED BY <1>1, <1>2, <1>4, <1>6

LEMMA StopFacts ==
  ASSUME SwitchShape, NEW s, NEW force \in BOOLEAN
  PROVE  /\ StopDone(s, force) =>
              /\ live' = FlowGone(s) /\ live' \subseteq Runtime
              /\ UNCHANGED <<startFaults, stopFaults, lostStops>>
         /\ StopFailed(s, force) =>
              /\ live' \subseteq Runtime /\ startFaults' = startFaults
              /\ \/ live' = live /\ UNCHANGED <<stopFaults, lostStops>>
                 \/ live' = live /\ stopFaults' = stopFaults + 1 /\ lostStops' = lostStops
                 \/ live' = FlowGone(s) /\ stopFaults' = stopFaults /\ lostStops' = lostStops + 1
              /\ force => stopFaults' = stopFaults + 1 \/ live' = FlowGone(s)
<1>1. StopDone(s, force) => live' = FlowGone(s) /\ UNCHANGED <<startFaults, stopFaults, lostStops>>
  BY DEF StopDone, switchFaults
<1>2. FlowGone(s) \subseteq Runtime /\ live \subseteq Runtime
  BY DEF SwitchShape, FlowGone
<1>3. StopFailed(s, force) =>
        /\ startFaults' = startFaults
        /\ \/ live' = live /\ UNCHANGED <<stopFaults, lostStops>> /\ ~force
           \/ live' = live /\ stopFaults' = stopFaults + 1 /\ lostStops' = lostStops
           \/ live' = FlowGone(s) /\ stopFaults' = stopFaults /\ lostStops' = lostStops + 1
  BY DEF StopFailed, StopFault, LostStop, switchFaults
<1> QED BY <1>1, <1>2, <1>3

(* A Runtime that need not make way is of another Skill. *)
LEMMA NoWay ==
  ASSUME ~StopFirst
  PROVE  \A r \in switch.current : r[1] # Wanted[1] /\ ServesAt[r[1]] # ServesAt[Wanted[1]]
BY DEF StopFirst, MakesWay

-----------------------------------------------------------------------------
LEMMA BeginSwitchKeeps ==
  ASSUME SwitchInv, NEW t \in Runtime, BeginSwitch(t)
  PROVE  SwitchInv'
<1>1. /\ SwitchShape /\ NotTwo /\ NotNone /\ switch.pc = "idle" /\ live' = live
      /\ startFaults' = startFaults /\ lostStops' = lostStops
  BY DEF SwitchInv, BeginSwitch, StopFault, switchFaults
<1>2. CASE switch' = switch /\ UNCHANGED switchFaults
  <2>1. stopFaults' = stopFaults
    BY <1>2 DEF switchFaults
  <2> QED BY <1>1, <1>2, <2>1 DEF SwitchInv, SwitchShape, NotTwo, NotNone, AtMostOne
<1>3. ASSUME NEW c \in {live, {}}, switch' = [pc |-> "check", current |-> c, target |-> {t}],
             \/ c = live /\ stopFaults' = stopFaults
             \/ stopFaults' = stopFaults + 1
      PROVE  SwitchInv'
  <2>1. /\ switch'.pc = "check" /\ switch'.current = c /\ switch'.target = {t}
        /\ c \subseteq Runtime /\ stopFaults' \in Nat
    BY <1>1, <1>3 DEF SwitchShape
  <2>2. SwitchShape'
    BY <1>1, <1>3, <2>1 DEF SwitchShape, SwitchPhase
  <2>3. stopFaults' = 0 => stopFaults = 0 /\ c = live
    BY <1>1, <1>3 DEF SwitchShape
  <2>4. NotTwo'
    BY <1>1, <2>1, <2>3 DEF NotTwo, AtMostOne
  <2>5. NotNone'
    BY <1>1, <2>1 DEF NotNone
  <2> QED BY <2>2, <2>4, <2>5 DEF SwitchInv
<1> QED
  BY <1>1, <1>2, <1>3 DEF BeginSwitch, StopFault, switchFaults

LEMMA CheckSlotKeeps ==
  ASSUME SwitchInv, CheckSlot
  PROVE  SwitchInv'
<1>1. /\ SwitchShape /\ NotTwo /\ NotNone /\ switch.pc = "check"
      /\ UNCHANGED <<live, startFaults, stopFaults, lostStops>>
      /\ Over \/ (StopFirst /\ SwitchAt("stop first")) \/ (~StopFirst /\ SwitchAt("start"))
  BY DEF SwitchInv, CheckSlot, switchFaults
<1>2. live \subseteq Runtime /\ startFaults \in Nat /\ stopFaults \in Nat /\ lostStops \in Nat
  BY <1>1 DEF SwitchShape
<1>3. stopFaults = 0 => live = switch.current /\ AtMostOne(live)
  BY <1>1 DEF NotTwo
<1>4. startFaults <= 1 /\ lostStops = 0 => live # {}
  BY <1>1 DEF NotNone
<1>5. CASE Over
  <2>1. stopFaults' = 0 => AtMostOne(live')
    BY <1>1, <1>3 DEF AtMostOne
  <2>2. startFaults' <= 1 /\ lostStops' = 0 => live' # {}
    BY <1>1, <1>4
  <2> QED BY <1>1, <1>2, <1>5, <2>1, <2>2, Ending
<1>6. ASSUME NEW pc \in {"stop first", "start"}, SwitchAt(pc),
             pc = "stop first" <=> StopFirst
      PROVE  SwitchInv'
  <2>1. pc \in SwitchPhase
    BY DEF SwitchPhase
  <2>2. SwitchShape'
    BY <1>1, <1>2, <1>6, <2>1, ShapeGoes
  <2>3. switch'.pc = pc /\ switch'.current = switch.current /\ (StopFirst' <=> StopFirst)
    BY <1>1, <1>6, SwitchGoes
  <2>4. NotTwo'
    BY <1>1, <1>3, <1>6, <2>3 DEF NotTwo, AtMostOne
  <2>5. NotNone'
    BY <1>1, <1>4, <1>6, <2>3 DEF NotNone
  <2> QED BY <2>2, <2>4, <2>5 DEF SwitchInv
<1> QED BY <1>1, <1>5, <1>6

LEMMA StopOldFirstKeeps ==
  ASSUME SwitchInv, StopOldFirst
  PROVE  SwitchInv'
<1>1. SwitchShape /\ NotTwo /\ NotNone /\ switch.pc = "stop first" /\ StopFirst
  BY DEF SwitchInv, StopOldFirst, SwitchShape
<1>2. live \subseteq Runtime /\ startFaults \in Nat /\ stopFaults \in Nat /\ lostStops \in Nat
  BY <1>1 DEF SwitchShape
<1>3. stopFaults = 0 => live = switch.current /\ AtMostOne(live)
  BY <1>1 DEF NotTwo
<1>4. startFaults <= 1 /\ lostStops = 0 => live # {}
  BY <1>1 DEF NotNone
<1>5. Old \in switch.current /\ switch.current \subseteq Runtime
  <2>1. switch.current # {}
    BY <1>1 DEF StopFirst
  <2> QED BY <1>1, <2>1, TheOld DEF SwitchShape
<1>6. CASE StopDone(Old[1], FALSE) /\ SwitchAt("start")
  <2>1. /\ live' = FlowGone(Old[1]) /\ live' \subseteq Runtime
        /\ UNCHANGED <<startFaults, stopFaults, lostStops>>
    BY <1>1, <1>6, StopFacts
  <2>2. "start" \in SwitchPhase
    BY DEF SwitchPhase
  <2>3. SwitchShape'
    BY <1>1, <1>2, <1>6, <2>1, <2>2, ShapeGoes
  <2>4. switch'.pc = "start" /\ switch'.current = switch.current /\ StopFirst'
    BY <1>1, <1>6, SwitchGoes
  <2>5. stopFaults = 0 => live' = {} /\ AtMostOne(switch.current)
    BY <1>3, <1>5, <2>1 DEF AtMostOne, FlowGone
  <2>6. NotTwo'
    BY <2>1, <2>4, <2>5 DEF NotTwo, AtMostOne
  <2>7. NotNone'
    BY <2>4 DEF NotNone
  <2> QED BY <2>3, <2>6, <2>7 DEF SwitchInv
<1>7. CASE StopFailed(Old[1], FALSE) /\ Over
  <2>1. /\ live' \subseteq live /\ startFaults' = startFaults
        /\ stopFaults' \in {stopFaults, stopFaults + 1}
        /\ lostStops' \in {lostStops, lostStops + 1} /\ (lostStops' = lostStops => live' = live)
    <3>1. FlowGone(Old[1]) \subseteq live /\ lostStops + 1 # lostStops
      BY <1>2 DEF FlowGone
    <3> QED BY <1>1, <1>7, <3>1, StopFacts
  <2>2. stopFaults' = 0 => stopFaults = 0
    BY <1>2, <2>1
  <2>3. stopFaults' = 0 => AtMostOne(live')
    BY <1>3, <2>1, <2>2 DEF AtMostOne
  <2>4. startFaults' <= 1 /\ lostStops' = 0 => live' # {}
    BY <1>2, <1>4, <2>1
  <2>5. live' \subseteq Runtime /\ startFaults' \in Nat /\ stopFaults' \in Nat /\ lostStops' \in Nat
    BY <1>2, <2>1
  <2> QED BY <1>1, <1>7, <2>3, <2>4, <2>5, Ending
<1> QED BY <1>6, <1>7 DEF StopOldFirst

LEMMA StartTargetKeeps ==
  ASSUME SwitchInv, StartTarget
  PROVE  SwitchInv'
<1>1. SwitchShape /\ NotTwo /\ NotNone /\ switch.pc = "start"
  BY DEF SwitchInv, StartTarget
<1>2. live \subseteq Runtime /\ startFaults \in Nat /\ stopFaults \in Nat /\ lostStops \in Nat
  BY <1>1 DEF SwitchShape
<1>3. /\ Wanted \in Runtime /\ Wanted[1] \in Skill /\ Wanted[2] \in Profile
      /\ <<Wanted[1], Wanted[2]>> = Wanted
  BY <1>1, TheWanted DEF Runtime
<1>4. stopFaults = 0 =>
        /\ live = IF StopFirst THEN {} ELSE switch.current
        /\ AtMostOne(switch.current)
  BY <1>1 DEF NotTwo
<1>5. startFaults <= 1 /\ lostStops = 0 => StopFirst \/ live # {}
  BY <1>1 DEF NotNone
<1>6. CASE StartDone(Wanted[1], Wanted[2]) /\ SwitchAt("ready")
  <2>1. /\ live' = live \cup {Wanted} /\ live' \subseteq Runtime
        /\ UNCHANGED <<startFaults, stopFaults, lostStops>>
        /\ \A r \in live : ServesAt[r[1]] # ServesAt[Wanted[1]]
    BY <1>1, <1>3, <1>6, StartFacts
  <2>2. "ready" \in SwitchPhase
    BY DEF SwitchPhase
  <2>3. SwitchShape'
    BY <1>1, <1>2, <1>6, <2>1, <2>2, ShapeGoes
  <2>4. /\ switch'.pc = "ready" /\ switch'.current = switch.current /\ (StopFirst' <=> StopFirst)
        /\ Wanted' = Wanted
    BY <1>1, <1>6, SwitchGoes
  <2>5. stopFaults = 0 =>
          live' = IF StopFirst THEN {Wanted} ELSE switch.current \cup {Wanted}
    BY <1>4, <2>1
  <2>6. NotTwo'
    BY <1>4, <2>1, <2>4, <2>5 DEF NotTwo, AtMostOne
  <2>7. startFaults <= 1 /\ lostStops = 0 => StopFirst \/ Beside'
    BY <1>5, <2>1, <2>4 DEF Beside
  <2>8. NotNone'
    BY <2>1, <2>4, <2>7 DEF NotNone
  <2> QED BY <2>3, <2>6, <2>8 DEF SwitchInv
<1>7. CASE StartFailed(Wanted[1], Wanted[2]) /\ AfterTargetFailed
  <2>1. /\ live' \subseteq Runtime /\ live \subseteq live' /\ lostStops' = lostStops
        /\ \/ live' = live /\ stopFaults' = stopFaults
           \/ stopFaults' = stopFaults + 1
        /\ \/ live # {} /\ startFaults' = startFaults
           \/ startFaults' = startFaults + 1
    BY <1>1, <1>3, <1>7, StartFacts
  <2>0. stopFaults' = 0 => stopFaults = 0 /\ live' = live
    BY <1>2, <2>1
  <2>2. startFaults' \in Nat /\ stopFaults' \in Nat /\ lostStops' \in Nat /\ live' \subseteq Runtime
    BY <1>2, <2>1
  <2>3. CASE StopFirst /\ SwitchAt("restore")
    <3>1. "restore" \in SwitchPhase
      BY DEF SwitchPhase
    <3>2. SwitchShape'
      BY <1>1, <2>2, <2>3, <3>1, ShapeGoes
    <3>3. switch'.pc = "restore" /\ switch'.current = switch.current
      BY <1>1, <2>3, SwitchGoes
    <3>4. NotTwo'
      BY <1>4, <2>0, <2>3, <3>3 DEF NotTwo, AtMostOne
    <3>5. live' # {} \/ startFaults' >= 1
      BY <1>2, <2>1
    <3>6. NotNone'
      BY <3>3, <3>5 DEF NotNone
    <3> QED BY <3>2, <3>4, <3>6 DEF SwitchInv
  <2>4. CASE ~StopFirst /\ Over
    <3>1. stopFaults' = 0 => AtMostOne(live')
      BY <1>4, <2>0, <2>4 DEF AtMostOne
    <3>2. startFaults' <= 1 /\ lostStops' = 0 => live' # {}
      BY <1>2, <1>5, <2>1, <2>4
    <3> QED BY <1>1, <2>2, <2>4, <3>1, <3>2, Ending
  <2> QED BY <1>7, <2>3, <2>4 DEF AfterTargetFailed
<1> QED BY <1>6, <1>7 DEF StartTarget

LEMMA TargetReadyKeeps ==
  ASSUME SwitchInv, TargetReady
  PROVE  SwitchInv'
<1>1. SwitchShape /\ NotTwo /\ NotNone /\ switch.pc = "ready" /\ live' = live
  BY DEF SwitchInv, TargetReady
<1>2. live \subseteq Runtime /\ startFaults \in Nat /\ stopFaults \in Nat /\ lostStops \in Nat
  BY <1>1 DEF SwitchShape
<1>3. stopFaults = 0 =>
        /\ live = IF StopFirst THEN {Wanted} ELSE switch.current \cup {Wanted}
        /\ AtMostOne(switch.current)
  BY <1>1 DEF NotTwo
<1>4. startFaults <= 1 /\ lostStops = 0 => Wanted \in live /\ (StopFirst \/ Beside)
  BY <1>1 DEF NotNone
<1>5. CASE Over /\ (switch.current = {} \/ StopFirst) /\ UNCHANGED <<startFaults, stopFaults, lostStops>>
  <2>1. stopFaults' = 0 => AtMostOne(live')
    BY <1>1, <1>3, <1>5 DEF AtMostOne
  <2>2. startFaults' <= 1 /\ lostStops' = 0 => live' # {}
    BY <1>1, <1>4, <1>5
  <2> QED BY <1>1, <1>2, <1>5, <2>1, <2>2, Ending
<1>n. /\ startFaults' = startFaults => startFaults' \in Nat
      /\ startFaults' = startFaults + 1 =>
           startFaults' \in Nat /\ startFaults' >= 1 /\ (startFaults' <= 1 /\ lostStops' = 0 => startFaults <= 1)
      /\ stopFaults' = stopFaults => stopFaults' \in Nat
      /\ lostStops' = lostStops => lostStops' \in Nat
  BY <1>2
<1>6. ASSUME NEW pc \in {"stop old", "clean up"}, SwitchAt(pc), stopFaults' = stopFaults, lostStops' = lostStops,
             \/ /\ pc = "stop old" /\ switch.current # {} /\ ~StopFirst
                /\ startFaults' = startFaults
             \/ pc = "clean up" /\ startFaults' = startFaults + 1
      PROVE  SwitchInv'
  <2>a. startFaults' = startFaults \/ startFaults' = startFaults + 1
    BY <1>6
  <2>b. pc = "clean up" => startFaults' = startFaults + 1
    BY <1>6
  <2>c. startFaults' \in Nat /\ stopFaults' \in Nat /\ lostStops' \in Nat
    BY <1>n, <1>6, <2>a, Zenon
  <2>1. pc \in SwitchPhase /\ startFaults' \in Nat /\ stopFaults' \in Nat /\ lostStops' \in Nat
    BY <2>c DEF SwitchPhase
  <2>2. SwitchShape'
    BY <1>1, <1>2, <1>6, <2>1, ShapeGoes
  <2>3. /\ switch'.pc = pc /\ switch'.current = switch.current /\ (StopFirst' <=> StopFirst)
        /\ Wanted' = Wanted
    BY <1>1, <1>6, SwitchGoes
  <2>4. NotTwo'
    BY <1>1, <1>3, <1>6, <2>3 DEF NotTwo, AtMostOne
  <2>5. Beside' <=> Beside
    BY <1>1, <2>3 DEF Beside
  <2>6. startFaults' <= 1 /\ lostStops' = 0 => startFaults <= 1
    BY <1>n, <2>a, Zenon
  <2>7. pc = "clean up" => startFaults' >= 1
    BY <1>n, <2>b, Zenon
  <2>8. NotNone'
    BY <1>1, <1>4, <1>6, <2>3, <2>5, <2>6, <2>7 DEF NotNone
  <2> QED BY <2>2, <2>4, <2>8 DEF SwitchInv
<1> QED
  BY <1>5, <1>6 DEF TargetReady, StartFault, switchFaults

LEMMA CleanUpKeeps ==
  ASSUME SwitchInv, CleanUpTarget
  PROVE  SwitchInv'
<1>1. SwitchShape /\ NotTwo /\ NotNone /\ switch.pc = "clean up" /\ AfterTargetFailed
  BY DEF SwitchInv, CleanUpTarget
<1>2. live \subseteq Runtime /\ startFaults \in Nat /\ stopFaults \in Nat /\ lostStops \in Nat
  BY <1>1 DEF SwitchShape
<1>3. stopFaults = 0 =>
        /\ live = IF StopFirst THEN {Wanted} ELSE switch.current \cup {Wanted}
        /\ AtMostOne(switch.current)
  BY <1>1 DEF NotTwo
<1>4. startFaults >= 1 /\ (startFaults <= 1 /\ lostStops = 0 => Wanted \in live /\ (StopFirst \/ Beside))
  BY <1>1 DEF NotNone
<1>5. /\ startFaults' = startFaults /\ stopFaults' \in {stopFaults, stopFaults + 1}
      /\ lostStops' \in {lostStops, lostStops + 1}
      /\ \/ live' = FlowGone(Wanted[1]) /\ stopFaults' = stopFaults
         \/ live' = live /\ stopFaults' = stopFaults + 1
  BY <1>1, StopFacts DEF CleanUpTarget
<1>6. live' \subseteq Runtime /\ startFaults' \in Nat /\ stopFaults' \in Nat /\ lostStops' \in Nat
  BY <1>2, <1>5 DEF FlowGone
<1>7. stopFaults' = 0 => stopFaults = 0 /\ live' = FlowGone(Wanted[1])
  BY <1>2, <1>5
<1>8. CASE StopFirst /\ SwitchAt("restore")
  <2>1. "restore" \in SwitchPhase
    BY DEF SwitchPhase
  <2>2. SwitchShape'
    BY <1>1, <1>6, <1>8, <2>1, ShapeGoes
  <2>3. switch'.pc = "restore" /\ switch'.current = switch.current
    BY <1>1, <1>8, SwitchGoes
  <2>4. stopFaults' = 0 => live' = {}
    BY <1>3, <1>7, <1>8 DEF FlowGone
  <2>5. NotTwo'
    BY <1>3, <1>7, <2>3, <2>4 DEF NotTwo, AtMostOne
  <2>6. NotNone'
    BY <1>4, <1>5, <2>3 DEF NotNone
  <2> QED BY <2>2, <2>5, <2>6 DEF SwitchInv
<1>9. CASE ~StopFirst /\ Over
  <2>1. stopFaults' = 0 => AtMostOne(live')
    BY <1>3, <1>7, <1>9 DEF AtMostOne, FlowGone
  <2>2. startFaults' <= 1 /\ lostStops' = 0 => live' # {}
    <3>1. lostStops' = 0 => lostStops = 0
      BY <1>2, <1>5
    <3> QED BY <1>4, <1>5, <1>9, <3>1 DEF Beside, FlowGone
  <2> QED BY <1>1, <1>6, <1>9, <2>1, <2>2, Ending
<1> QED BY <1>1, <1>8, <1>9 DEF AfterTargetFailed

LEMMA RestoreKeeps ==
  ASSUME SwitchInv, RestoreOld
  PROVE  SwitchInv'
<1>1. SwitchShape /\ NotTwo /\ NotNone /\ switch.pc = "restore" /\ StopFirst /\ Over
  BY DEF SwitchInv, RestoreOld, SwitchShape
<1>2. live \subseteq Runtime /\ startFaults \in Nat /\ stopFaults \in Nat /\ lostStops \in Nat
  BY <1>1 DEF SwitchShape
<1>3. stopFaults = 0 => live = {}
  BY <1>1 DEF NotTwo
<1>4. live # {} \/ startFaults >= 1
  BY <1>1 DEF NotNone
<1>5. /\ Old \in Runtime /\ Old[1] \in Skill /\ Old[2] \in Profile
      /\ <<Old[1], Old[2]>> = Old
  <2>1. switch.current # {}
    BY <1>1 DEF StopFirst
  <2> QED BY <1>1, <2>1, TheOld DEF Runtime
<1>6. /\ live' \subseteq Runtime /\ live \subseteq live' /\ lostStops' = lostStops
      /\ \/ live' \subseteq live \cup {Old} /\ stopFaults' = stopFaults
         \/ stopFaults' = stopFaults + 1
      /\ \/ live' # {} /\ startFaults' = startFaults
         \/ startFaults' = startFaults + 1
  <2>1. CASE StartDone(Old[1], Old[2]) \/ StartUnready(Old[1], Old[2])
    BY <1>1, <1>5, <2>1, StartFacts
  <2>2. CASE StartFailed(Old[1], Old[2])
    BY <1>1, <1>5, <2>2, StartFacts
  <2> QED BY <2>1, <2>2 DEF RestoreOld
<1>7. /\ startFaults' \in Nat /\ stopFaults' \in Nat /\ lostStops' \in Nat
      /\ (stopFaults' = 0 => stopFaults = 0 /\ live' \subseteq live \cup {Old})
  BY <1>2, <1>6
<1>8. stopFaults' = 0 => AtMostOne(live')
  BY <1>3, <1>7 DEF AtMostOne
<1>9. startFaults' <= 1 /\ lostStops' = 0 => live' # {}
  BY <1>2, <1>4, <1>6
<1> QED BY <1>1, <1>6, <1>7, <1>8, <1>9, Ending

LEMMA StopOldLastKeeps ==
  ASSUME SwitchInv, StopOldLast
  PROVE  SwitchInv'
<1>1. /\ SwitchShape /\ NotTwo /\ NotNone /\ switch.pc = "stop old"
      /\ ~StopFirst /\ switch.current # {}
  BY DEF SwitchInv, StopOldLast, SwitchShape
<1>2. live \subseteq Runtime /\ startFaults \in Nat /\ stopFaults \in Nat /\ lostStops \in Nat
  BY <1>1 DEF SwitchShape
<1>3. stopFaults = 0 => live = switch.current \cup {Wanted} /\ AtMostOne(switch.current)
  BY <1>1 DEF NotTwo
<1>4. startFaults <= 1 /\ lostStops = 0 => Wanted \in live /\ Beside
  BY <1>1 DEF NotNone
<1>5. Old \in switch.current /\ Old[1] # Wanted[1]
  BY <1>1, TheOld, NoWay
<1>6. CASE StopDone(Old[1], FALSE) /\ Over
  <2>1. /\ live' = FlowGone(Old[1]) /\ live' \subseteq Runtime
        /\ UNCHANGED <<startFaults, stopFaults, lostStops>>
    BY <1>1, <1>6, StopFacts
  <2>2. stopFaults' = 0 => AtMostOne(live')
    BY <1>3, <1>5, <2>1 DEF AtMostOne, FlowGone
  <2>3. startFaults' <= 1 /\ lostStops' = 0 => live' # {}
    BY <1>4, <1>5, <2>1 DEF FlowGone
  <2> QED BY <1>1, <1>2, <1>6, <2>1, <2>2, <2>3, Ending
<1>7. CASE StopFailed(Old[1], FALSE) /\ SwitchAt("undo")
  <2>1. /\ startFaults' = startFaults /\ stopFaults' \in {stopFaults, stopFaults + 1}
        /\ live' \subseteq live
        /\ \/ live' = live /\ lostStops' = lostStops
           \/ lostStops' = lostStops + 1
    <3>1. FlowGone(Old[1]) \subseteq live
      BY DEF FlowGone
    <3> QED BY <1>1, <1>7, <3>1, StopFacts
  <2>2. /\ live' \subseteq Runtime /\ startFaults' \in Nat /\ stopFaults' \in Nat /\ lostStops' \in Nat
        /\ (stopFaults' = 0 => stopFaults = 0)
        /\ (lostStops' = 0 => lostStops = 0 /\ live' = live)
    BY <1>2, <2>1
  <2>3. "undo" \in SwitchPhase
    BY DEF SwitchPhase
  <2>4. SwitchShape'
    BY <1>1, <1>7, <2>2, <2>3, ShapeGoes
  <2>5. /\ switch'.pc = "undo" /\ switch'.current = switch.current /\ Wanted' = Wanted
    BY <1>1, <1>7, SwitchGoes
  <2>6. NotTwo'
    <3>1. stopFaults' = 0 => live' \subseteq switch.current \cup {Wanted} /\ AtMostOne(switch.current)
      BY <1>3, <2>1, <2>2
    <3> QED BY <2>5, <3>1 DEF NotTwo, AtMostOne
  <2>7. live' = live => (Beside' <=> Beside)
    BY <2>5 DEF Beside
  <2>8. NotNone'
    BY <1>4, <2>1, <2>2, <2>5, <2>7 DEF NotNone
  <2> QED BY <2>4, <2>6, <2>8 DEF SwitchInv
<1> QED BY <1>6, <1>7 DEF StopOldLast

LEMMA UndoKeeps ==
  ASSUME SwitchInv, UndoTarget
  PROVE  SwitchInv'
<1>1. /\ SwitchShape /\ NotTwo /\ NotNone /\ switch.pc = "undo" /\ Over
      /\ ~StopFirst /\ switch.current # {}
  BY DEF SwitchInv, UndoTarget, SwitchShape
<1>2. live \subseteq Runtime /\ startFaults \in Nat /\ stopFaults \in Nat /\ lostStops \in Nat
  BY <1>1 DEF SwitchShape
<1>3. stopFaults = 0 => live \subseteq switch.current \cup {Wanted} /\ AtMostOne(switch.current)
  BY <1>1 DEF NotTwo
<1>4. startFaults <= 1 /\ lostStops = 0 => Wanted \in live /\ Beside
  BY <1>1 DEF NotNone
<1>5. /\ startFaults' = startFaults /\ lostStops' \in {lostStops, lostStops + 1}
      /\ \/ live' = FlowGone(Wanted[1]) /\ stopFaults' = stopFaults
         \/ live' = live /\ stopFaults' = stopFaults + 1
  BY <1>1, StopFacts DEF UndoTarget
<1>6. /\ live' \subseteq Runtime /\ startFaults' \in Nat /\ stopFaults' \in Nat /\ lostStops' \in Nat
      /\ (lostStops' = 0 => lostStops = 0)
      /\ (stopFaults' = 0 => stopFaults = 0 /\ live' = FlowGone(Wanted[1]))
  BY <1>2, <1>5 DEF FlowGone
<1>7. stopFaults' = 0 => AtMostOne(live')
  BY <1>3, <1>6 DEF AtMostOne, FlowGone
<1>8. startFaults' <= 1 /\ lostStops' = 0 => live' # {}
  BY <1>4, <1>5, <1>6 DEF Beside, FlowGone
<1> QED BY <1>1, <1>6, <1>7, <1>8, Ending

LEMMA SwitchKeeps ==
  ASSUME SwitchInv, SwitchNext
  PROVE  SwitchInv'
<1>1. ASSUME UNCHANGED <<live, switch, startFaults, stopFaults, lostStops>> PROVE SwitchInv'
  <2>1. Wanted' = Wanted /\ (StopFirst' <=> StopFirst) /\ (Beside' <=> Beside)
    BY <1>1 DEF Wanted, StopFirst, Beside
  <2>2. SwitchShape'
    BY <1>1, <2>1 DEF SwitchInv, SwitchShape
  <2>3. NotTwo'
    BY <1>1, <2>1 DEF SwitchInv, NotTwo, AtMostOne
  <2>4. NotNone'
    BY <1>1, <2>1 DEF SwitchInv, NotNone
  <2> QED BY <2>2, <2>3, <2>4 DEF SwitchInv
<1>2. CASE (\E s \in Skill : BindTask(s)) \/ HoldBinding \/ StoreTask \/ EndTask \/ ReleaseBinding
  <2>1. UNCHANGED <<live, switch, startFaults, stopFaults, lostStops>>
    BY <1>2 DEF BindTask, HoldBinding, StoreTask, EndTask, ReleaseBinding, switchFaults
  <2> QED BY <1>1, <2>1
<1> QED
  BY <1>2, BeginSwitchKeeps, CheckSlotKeeps, StopOldFirstKeeps, StartTargetKeeps, TargetReadyKeeps,
     CleanUpKeeps, RestoreKeeps, StopOldLastKeeps, UndoKeeps DEF SwitchNext

LEMMA SwitchInvariant == SwitchSpec => []SwitchInv
<1>1. ASSUME SwitchInv, UNCHANGED switchVars PROVE SwitchInv'
  <2>1. UNCHANGED <<live, switch, startFaults, stopFaults, lostStops>>
    BY <1>1 DEF switchVars
  <2>2. Wanted' = Wanted /\ (StopFirst' <=> StopFirst) /\ (Beside' <=> Beside)
    BY <2>1 DEF Wanted, StopFirst, Beside
  <2>3. SwitchShape'
    BY <1>1, <2>1, <2>2 DEF SwitchInv, SwitchShape
  <2>4. NotTwo'
    BY <1>1, <2>1, <2>2 DEF SwitchInv, NotTwo, AtMostOne
  <2>5. NotNone'
    BY <1>1, <2>1, <2>2 DEF SwitchInv, NotNone
  <2> QED BY <2>3, <2>4, <2>5 DEF SwitchInv
<1> QED BY <1>1, SwitchStarts, SwitchKeeps, PTL DEF SwitchSpec

(* A switch that is over never leaves two Runtimes, unless dora could not   *)
(* stop one or the discovery missed it, and never none, unless the target   *)
(* and then the previous Runtime failed, or a stop was reported as failed   *)
(* after the flow had stopped: for any Skills, profiles and addresses, and  *)
(* whatever task is bound meanwhile (skill_runtime/integration.py:305).     *)
THEOREM OneRuntimeServes == SwitchSpec => []OneRuntime
<1>1. SwitchInv => OneRuntime
  BY OneCounts DEF SwitchInv, NotTwo, NotNone, OneRuntime
<1> QED BY <1>1, SwitchInvariant, PTL

(* The types of the switch. What the state files record, and the faults so far. *)
FaultsTyped ==
  /\ startFaults \in Nat /\ stopFaults \in Nat /\ lostStops \in Nat
  /\ startFaults + stopFaults + lostStops <= MaxSwitchFaults
Files ==
  /\ recorded \in [Skill -> [status: SwitchStatus, profile: Profile]]
  /\ refs \subseteq Skill
  /\ FaultsTyped
AgentTyped ==
  /\ slot \in Skill \cup {NoRuntime}
  /\ binding \in [pc: {"none", "frozen", "held", "ended"}, skill: Skill \cup {NoRuntime}]
  /\ switches \in 0..MaxSwitches /\ switch.target \subseteq Runtime

LEMMA RecordsTyped ==
  ASSUME Files, NEW s, NEW st \in SwitchStatus, NEW p \in Profile, Records(s, st, p)
  PROVE  recorded' \in [Skill -> [status: SwitchStatus, profile: Profile]]
<1> DEFINE row == [status |-> st, profile |-> p]
<1>1. row \in [status: SwitchStatus, profile: Profile] /\ recorded' = [recorded EXCEPT ![s] = row]
  BY DEF Records
<1> HIDE DEF row
<1> QED BY <1>1 DEF Files

(* What the operations of the manager leave of them. *)
LEMMA ManagerTyped ==
  ASSUME Files, NEW s \in Skill, NEW p \in Profile, NEW force,
         \/ StartDone(s, p) \/ StartFailed(s, p) \/ StartUnready(s, p)
         \/ StopDone(s, force) \/ StopFailed(s, force)
  PROVE  Files'
<1>0. {"none", "running", "stopped", "failed"} = SwitchStatus
  BY DEF SwitchStatus
<1>1. \/ recorded' = recorded
      \/ \E st \in SwitchStatus, q \in {p, recorded[s].profile} : Records(s, st, q)
  <2>1. CASE StartDone(s, p) \/ StartFailed(s, p) \/ StartUnready(s, p)
    BY <1>0, <2>1 DEF StartDone, StartFailed, StartUnready, LeftBehind, AddressRefused, StartBroken
  <2>2. CASE StopDone(s, force) \/ StopFailed(s, force)
    BY <1>0, <2>2 DEF StopDone, StopFailed
  <2> QED BY <2>1, <2>2
<1>2. recorded[s].profile \in Profile
  BY DEF Files
<1>3. recorded' \in [Skill -> [status: SwitchStatus, profile: Profile]]
  <2>1. CASE recorded' = recorded
    BY <2>1 DEF Files
  <2> QED BY <1>1, <1>2, <2>1, RecordsTyped
<1>4. refs' \subseteq refs
  BY DEF StartDone, StartFailed, StartUnready, LeftBehind, AddressRefused, StartBroken, StopDone, StopFailed
<1>5. \/ UNCHANGED switchFaults \/ StartFault \/ StopFault \/ LostStop
      \/ /\ startFaults + stopFaults + lostStops + 2 <= MaxSwitchFaults
         /\ startFaults' = startFaults + 1 /\ stopFaults' = stopFaults + 1 /\ lostStops' = lostStops
  BY DEF StartDone, StartFailed, StartUnready, LeftBehind, AddressRefused, StartBroken, StopDone, StopFailed
<1>6. FaultsTyped'
  BY <1>5, SwitchAssumption DEF Files, FaultsTyped, StartFault, StopFault, LostStop, MayFail, switchFaults
<1> QED BY <1>3, <1>4, <1>6 DEF Files

LEMMA FilesKept ==
  ASSUME SwitchInv, Files, SwitchNext
  PROVE  Files'
<1>1. switch.pc # "idle" => Wanted[1] \in Skill /\ Wanted[2] \in Profile
  BY TheWanted DEF SwitchInv, Runtime
<1>2. switch.current # {} => Old[1] \in Skill /\ Old[2] \in Profile
  BY TheOld DEF SwitchInv, Runtime
<1>3. ASSUME switch.pc \in {"stop first", "restore", "stop old", "undo"} PROVE switch.current # {}
  BY <1>3 DEF SwitchInv, SwitchShape, StopFirst
<1>4. CASE (\E s \in Skill : BindTask(s)) \/ HoldBinding \/ StoreTask \/ EndTask \/ ReleaseBinding
  <2>1. UNCHANGED <<recorded, startFaults, stopFaults, lostStops>>
    BY <1>4 DEF BindTask, HoldBinding, StoreTask, EndTask, ReleaseBinding, switchFaults
  <2>2. refs' \subseteq refs \cup Followed
    BY <1>4 DEF BindTask, HoldBinding, StoreTask, EndTask, ReleaseBinding
  <2> QED BY <2>1, <2>2 DEF Files, FaultsTyped, Followed
<1>5. ASSUME NEW t \in Runtime, BeginSwitch(t) PROVE Files'
  <2>1. PICK seen : Reconcile(seen) /\ refs' = refs
    BY <1>5 DEF BeginSwitch
  <2>2. recorded' \in [Skill -> [status: SwitchStatus, profile: Profile]]
    BY <2>1 DEF Reconcile, Files, SwitchStatus
  <2>3. FaultsTyped'
    BY <1>5, SwitchAssumption DEF Files, FaultsTyped, BeginSwitch, StopFault, MayFail, switchFaults
  <2> QED BY <2>1, <2>2, <2>3 DEF Files
<1>6. CASE CheckSlot
  BY <1>6 DEF CheckSlot, switchFaults, Files, FaultsTyped
<1>7. CASE StopOldFirst \/ RestoreOld \/ StopOldLast
  BY <1>2, <1>3, <1>7, ManagerTyped DEF StopOldFirst, RestoreOld, StopOldLast
<1>8. CASE StartTarget \/ CleanUpTarget \/ UndoTarget
  BY <1>1, <1>8, ManagerTyped DEF StartTarget, CleanUpTarget, UndoTarget
<1>9. CASE TargetReady
  <2>1. CASE UNCHANGED <<recorded, switchFaults>>
    BY <1>9, <2>1 DEF TargetReady, switchFaults, Files, FaultsTyped
  <2>2. CASE StartFault /\ Records(Wanted[1], "failed", Wanted[2])
    <3>1. recorded' \in [Skill -> [status: SwitchStatus, profile: Profile]]
      BY <1>1, <1>9, <2>2, RecordsTyped DEF TargetReady, SwitchStatus
    <3>2. FaultsTyped'
      BY <2>2, SwitchAssumption DEF StartFault, MayFail, Files, FaultsTyped
    <3> QED BY <1>9, <3>1, <3>2 DEF TargetReady, Files
  <2> QED BY <1>9, <2>1, <2>2 DEF TargetReady
<1> QED BY <1>4, <1>5, <1>6, <1>7, <1>8, <1>9 DEF SwitchNext

LEMMA AgentTypesKept ==
  ASSUME SwitchInv, AgentTyped, SwitchNext
  PROVE  AgentTyped'
<1>1. ASSUME switch' = switch \/ (\E pc : SwitchAt(pc)) \/ Over PROVE switch'.target \subseteq Runtime
  BY <1>1, SwitchGoes DEF SwitchInv, AgentTyped, Over, NoSwitch
<1>2. CASE (\E s \in Skill : BindTask(s)) \/ HoldBinding \/ StoreTask \/ EndTask \/ ReleaseBinding
  <2>1. binding' \in [pc: {"none", "frozen", "held", "ended"}, skill: Skill \cup {NoRuntime}]
    BY <1>2 DEF BindTask, HoldBinding, StoreTask, EndTask, ReleaseBinding, AgentTyped
  <2>2. slot' \in {slot, binding.skill, NoRuntime} /\ UNCHANGED <<switch, switches>>
    BY <1>2 DEF BindTask, HoldBinding, StoreTask, EndTask, ReleaseBinding
  <2> QED BY <2>1, <2>2 DEF AgentTyped
<1>3. ASSUME NEW t \in Runtime, BeginSwitch(t) PROVE AgentTyped'
  <2>1. switch' = switch \/ switch'.target = {t}
    BY <1>3 DEF BeginSwitch
  <2>2. switch'.target \subseteq Runtime
    BY <1>1, <2>1
  <2>3. switches' \in 0..MaxSwitches
    BY <1>3, SwitchAssumption DEF BeginSwitch, AgentTyped
  <2> QED BY <1>3, <2>2, <2>3 DEF BeginSwitch, agent, AgentTyped
<1>4. CASE \/ CheckSlot \/ StopOldFirst \/ StartTarget \/ TargetReady \/ CleanUpTarget
           \/ RestoreOld \/ StopOldLast \/ UndoTarget
  <2>1. (\E pc : SwitchAt(pc)) \/ Over
    BY <1>4 DEF CheckSlot, StopOldFirst, StartTarget, TargetReady, CleanUpTarget, RestoreOld,
                StopOldLast, UndoTarget, AfterTargetFailed
  <2>2. UNCHANGED <<agent, switches>>
    BY <1>4 DEF CheckSlot, StopOldFirst, StartTarget, TargetReady, CleanUpTarget, RestoreOld,
                StopOldLast, UndoTarget
  <2> QED BY <1>1, <2>1, <2>2 DEF agent, AgentTyped
<1> QED BY <1>2, <1>3, <1>4 DEF SwitchNext

(* The types of the switch, for any Skills, profiles and addresses:        *)
(* whatever fails, the state files record a status and a profile of each   *)
(* Skill, and references only of Skills (skill_runtime/integration.py:305). *)
THEOREM FilesStayTyped == SwitchSpec => []SwitchTypeOK
<1>1. SwitchInit => Files /\ AgentTyped
  <2> SUFFICES ASSUME SwitchInit PROVE Files /\ AgentTyped
    OBVIOUS
  <2>1. PICK r \in Runtime : recorded = [s \in Skill |->
          [status |-> IF s = r[1] THEN "running" ELSE "none", profile |-> r[2]]]
    BY DEF SwitchInit
  <2>2. recorded \in [Skill -> [status: SwitchStatus, profile: Profile]]
    BY <2>1 DEF Runtime, SwitchStatus
  <2>3. switch.target = {}
    BY DEF SwitchInit, NoSwitch
  <2> QED BY <2>2, <2>3, SwitchAssumption DEF SwitchInit, Files, FaultsTyped, AgentTyped
<1>2. SwitchInv /\ Files /\ AgentTyped /\ [SwitchNext]_switchVars => (Files /\ AgentTyped)'
  <2> SUFFICES ASSUME SwitchInv, Files, AgentTyped, [SwitchNext]_switchVars
               PROVE  (Files /\ AgentTyped)'
    OBVIOUS
  <2>1. CASE UNCHANGED switchVars
    BY <2>1 DEF switchVars, Files, FaultsTyped, AgentTyped
  <2> QED BY <2>1, FilesKept, AgentTypesKept
<1>3. SwitchInv /\ Files /\ AgentTyped => SwitchTypeOK
  BY DEF SwitchInv, SwitchShape, SwitchPhase, Files, FaultsTyped, AgentTyped, SwitchTypeOK
<1> QED BY <1>1, <1>2, <1>3, SwitchInvariant, PTL DEF SwitchSpec

-----------------------------------------------------------------------------
(* Evidence.  The file that is compared at the capture and the file that is *)
(* judged may differ, but one written since the finalization began is not  *)
(* older than its terminal moment, and the window check refuses it.        *)
Holds(c) == c = [images |-> c.images, state |-> c.state]

Shaped(w) ==
  /\ w.pc = "before" => w = [pc |-> "before", held |-> w.held] /\ Holds(w.held)
  /\ w.pc = "after" =>
       /\ w = [pc |-> "after", held |-> w.held, terminal |-> w.terminal, before |-> w.before]
       /\ Holds(w.held)

LaterThan(after, before, terminal) ==
  /\ \A k \in after.state : k >= terminal
  /\ \A s \in required : /\ after.images[s].seq > before.images[s].seq
                         /\ after.images[s].at >= terminal

Comparable(w) ==
  /\ w.pc = "after" =>
       /\ w.terminal \in Nat /\ w.terminal <= updates
       /\ w.before = NoSnapshot \/ w.before = file \/ file.at >= w.terminal
  /\ w.pc = "judge" /\ w.known =>
       /\ w.terminal \in Nat /\ w.terminal <= updates
       /\ LaterThan(w.after, file, w.terminal) \/ file.at >= w.terminal
  /\ w.pc = "verify" =>
       /\ w.bundle.before.at < w.bundle.terminal
       /\ LaterThan(w.bundle.after, w.bundle.before, w.bundle.terminal)

EvidenceInv ==
  /\ updates \in Nat /\ file.at \in Nat
  /\ actor = [a \in Actor |-> actor[a]]
  /\ \A a \in Actor : Shaped(actor[a])
  /\ \A a \in Actor : Comparable(actor[a])

LEMMA EvidenceStarts == EvidenceInit => EvidenceInv
BY DEF EvidenceInit, EvidenceInv, Shaped, Comparable, Free, NoSnapshot

(* An actor whose row, terminal moment and file stay loses nothing by the   *)
(* passing of time.                                                        *)
LEMMA StaysComparable ==
  ASSUME EvidenceInv, NEW a \in Actor, actor'[a] = actor[a], updates' \in Nat, updates' >= updates,
         UNCHANGED required,
         file' = file \/ (file'.at = updates /\ file'.at \in Nat)
  PROVE  Shaped(actor[a])' /\ Comparable(actor[a])'
<1>1. Shaped(actor[a]) /\ Comparable(actor[a])
  BY DEF EvidenceInv
<1>2. Shaped(actor[a])'
  BY <1>1 DEF Shaped, Holds
<1>3. Comparable(actor[a])'
  BY <1>1 DEF EvidenceInv, Comparable, LaterThan
<1> QED BY <1>2, <1>3

(* One actor moves: its own row is what remains to be shown. *)
LEMMA OneMoves ==
  ASSUME EvidenceInv, NEW a \in Actor, NEW w, actor' = [actor EXCEPT ![a] = w],
         updates' \in Nat, updates' >= updates, UNCHANGED required,
         file' = file \/ (file'.at = updates /\ file'.at \in Nat),
         Shaped(w)', Comparable(w)'
  PROVE  EvidenceInv'
<1>1. actor' = [b \in Actor |-> IF b = a THEN w ELSE actor[b]]
  BY DEF EvidenceInv
<1>2. actor' = [b \in Actor |-> actor'[b]]
  BY <1>1
<1>3. ASSUME NEW b \in Actor PROVE Shaped(actor[b])' /\ Comparable(actor[b])'
  <2>1. CASE b = a
    <3>1. actor'[b] = w
      BY <1>1, <2>1
    <3> QED BY <3>1 DEF Shaped, Comparable, LaterThan
  <2>2. CASE b # a
    <3>1. actor'[b] = actor[b]
      BY <1>1, <2>2
    <3> QED BY <3>1, StaysComparable
  <2> QED BY <2>1, <2>2
<1>4. file'.at \in Nat
  BY DEF EvidenceInv
<1> QED BY <1>2, <1>3, <1>4 DEF EvidenceInv

LEMMA EvidenceKeeps ==
  ASSUME EvidenceInv, EvidenceNext
  PROVE  EvidenceInv'
<1>u. updates \in Nat /\ updates + 1 \in Nat /\ updates + 1 >= updates /\ updates >= updates
  BY DEF EvidenceInv
<1>1. CASE (\E s \in Source : NewFrame(s)) \/ RestartGateway
  <2>1. UNCHANGED <<required, updates, file, actor>>
    BY <1>1 DEF NewFrame, RestartGateway, contract, execution, evidenceFiles
  <2>2. \A a \in Actor : Shaped(actor[a])' /\ Comparable(actor[a])'
    BY <2>1, <1>u, StaysComparable
  <2> QED BY <2>1, <2>2 DEF EvidenceInv
<1>2. ASSUME NEW a \in Actor, NEW s \in Source, ReceiveImage(a, s)
      PROVE  EvidenceInv'
  <2> DEFINE held == actor[a].held
             images == [t \in DOMAIN held.images \cup {s} |->
                 IF t = s THEN [seq |-> frame[s], at |-> ReceivedAt(a)] ELSE held.images[t]]
             row == [actor[a] EXCEPT !.held.images = images]
  <2>1. /\ actor' = [actor EXCEPT ![a] = row] /\ UNCHANGED <<required, updates, file>>
        /\ Collecting(a)
    BY <1>2 DEF ReceiveImage, contract, execution, evidenceFiles
  <2>2. Shaped(actor[a]) /\ Comparable(actor[a])
    BY DEF EvidenceInv
  <2> HIDE DEF images
  <2> PICK w : w = row
    OBVIOUS
  <2>3. \/ /\ w.pc = "before" /\ Shaped(w)
        \/ /\ w.pc = "after" /\ Shaped(w) /\ actor[a].pc = "after"
           /\ w.terminal = actor[a].terminal /\ w.before = actor[a].before
    BY <2>1, <2>2 DEF Shaped, Holds, Collecting
  <2> HIDE DEF row
  <2>4. Shaped(w)'
    BY <2>3 DEF Shaped, Holds
  <2>5. Comparable(w)'
    BY <2>1, <2>2, <2>3 DEF Comparable
  <2> QED BY <2>1, <2>4, <2>5, <1>u, OneMoves
<1>3. ASSUME NEW a \in Actor, ReceiveState(a)
      PROVE  EvidenceInv'
  <2> DEFINE state == {ReceivedAt(a)}
             row == [actor[a] EXCEPT !.held.state = state]
  <2>1. /\ actor' = [actor EXCEPT ![a] = row] /\ UNCHANGED <<required, updates, file>>
        /\ Collecting(a)
    BY <1>3 DEF ReceiveState, contract, execution, evidenceFiles
  <2>2. Shaped(actor[a]) /\ Comparable(actor[a])
    BY DEF EvidenceInv
  <2> HIDE DEF state
  <2> PICK w : w = row
    OBVIOUS
  <2>3. \/ /\ w.pc = "before" /\ Shaped(w)
        \/ /\ w.pc = "after" /\ Shaped(w) /\ actor[a].pc = "after"
           /\ w.terminal = actor[a].terminal /\ w.before = actor[a].before
    BY <2>1, <2>2 DEF Shaped, Holds, Collecting
  <2> HIDE DEF row
  <2>4. Shaped(w)'
    BY <2>3 DEF Shaped, Holds
  <2>5. Comparable(w)'
    BY <2>1, <2>2, <2>3 DEF Comparable
  <2> QED BY <2>1, <2>4, <2>5, <1>u, OneMoves
<1>4. ASSUME NEW a \in Actor, StartCapture(a) \/ MissBefore(a) \/ MissAfter(a) \/ TakeVerdict(a)
      PROVE  EvidenceInv'
  <2>1. UNCHANGED <<required, updates, file>>
    BY <1>4 DEF StartCapture, MissBefore, MissAfter, TakeVerdict, contract, execution, evidenceFiles
  <2>2. PICK w \in {[pc |-> "send", ref |-> TRUE], [pc |-> "send", ref |-> FALSE],
                    [pc |-> "before", held |-> Collector], Free} :
          actor' = [actor EXCEPT ![a] = w]
    BY <1>4 DEF StartCapture, MissBefore, MissAfter, TakeVerdict, Follow
  <2>3. Shaped(w)' /\ Comparable(w)'
    BY DEF Shaped, Comparable, Holds, Collector, Free
  <2> QED BY <2>1, <2>2, <2>3, <1>u, OneMoves
<1>5. ASSUME NEW a \in Actor, TakeBefore(a)
      PROVE  EvidenceInv'
  <2>1. file'.at = updates /\ UNCHANGED <<required, updates>>
    BY <1>5 DEF TakeBefore, TakenNow, contract, execution
  <2>2. PICK w : w = [pc |-> "send", ref |-> TRUE] /\ actor' = [actor EXCEPT ![a] = w]
    BY <1>5 DEF TakeBefore, Follow
  <2>3. Shaped(w)' /\ Comparable(w)'
    BY <2>2 DEF Shaped, Comparable
  <2> QED BY <2>1, <2>2, <2>3, <1>u, OneMoves
<1>6. ASSUME NEW a \in Actor, SendAction(a)
      PROVE  EvidenceInv'
  <2>1. updates' = updates + 1 /\ UNCHANGED <<required, file>> /\ actor' = [actor EXCEPT ![a] = Free]
    BY <1>6 DEF SendAction, Follow, contract
  <2>2. Shaped(Free)' /\ Comparable(Free)'
    BY DEF Shaped, Comparable, Free
  <2> QED BY <2>1, <2>2, <1>u, OneMoves
<1>7. CASE EndAction
  <2>1. updates' = updates + 1 /\ UNCHANGED <<required, file, actor>>
    BY <1>7 DEF EndAction, contract, evidenceFiles
  <2>2. \A a \in Actor : Shaped(actor[a])' /\ Comparable(actor[a])'
    BY <2>1, <1>u, StaysComparable
  <2> QED BY <2>1, <2>2, <1>u DEF EvidenceInv
<1>8. ASSUME NEW a \in Actor, BeginFinalize(a)
      PROVE  EvidenceInv'
  <2> PICK w : w = [pc |-> "after", held |-> Collector, terminal |-> updates,
                    before |-> IF beforeRef THEN file ELSE NoSnapshot]
    OBVIOUS
  <2>1. actor' = [actor EXCEPT ![a] = w] /\ UNCHANGED <<required, updates, file>>
    BY <1>8 DEF BeginFinalize, Follow, contract, execution, evidenceFiles
  <2>2. w.before = NoSnapshot \/ w.before = file
    OBVIOUS
  <2>3. Shaped(w)'
    BY DEF Shaped, Holds, Collector
  <2>4. w.pc = "after" /\ w.terminal = updates
    OBVIOUS
  <2>5. Comparable(w)'
    BY <2>1, <2>2, <2>4, <1>u DEF Comparable
  <2> QED BY <2>1, <2>3, <2>5, <1>u, OneMoves
<1>9. ASSUME NEW a \in Actor, TakeAfter(a)
      PROVE  EvidenceInv'
  <2> DEFINE r == actor[a]
             known == r.before # NoSnapshot
             after == TakenNow(IF known THEN NotOlder(r.held, r.terminal) ELSE r.held)
  <2> PICK w : w = [pc |-> "judge", terminal |-> r.terminal, known |-> known, after |-> after]
    OBVIOUS
  <2>1. /\ actor' = [actor EXCEPT ![a] = w] /\ UNCHANGED <<required, updates, file>>
        /\ r.pc = "after"
        /\ known => ReadyAfter(r.held, r.before, r.terminal)
    BY <1>9 DEF TakeAfter, Follow, contract, execution, evidenceFiles
  <2>2. Shaped(r) /\ Comparable(r)
    BY DEF EvidenceInv
  <2>3. known => after.images = r.held.images /\ \A k \in after.state : k >= r.terminal
    BY <2>1, <2>2 DEF Shaped, Holds, TakenNow, NotOlder
  <2>4. known => LaterThan(after, r.before, r.terminal)
    BY <2>1, <2>3 DEF ReadyAfter, LaterThan
  <2>5. w.pc = "judge" /\ w.terminal = r.terminal /\ w.known = known /\ w.after = after
    OBVIOUS
  <2>6. r.terminal \in Nat /\ r.terminal <= updates
        /\ (known => r.before = file \/ file.at >= r.terminal)
    BY <2>1, <2>2 DEF Comparable
  <2>7. known => LaterThan(after, file, r.terminal) \/ file.at >= r.terminal
    BY <2>4, <2>6
  <2>8. w.terminal \in Nat /\ w.terminal <= updates
    BY <2>5, <2>6
  <2>9. w.known => LaterThan(w.after, file, w.terminal) \/ file.at >= w.terminal
    BY <2>5, <2>7
  <2>10. Shaped(w)'
    BY <2>5 DEF Shaped
  <2>11. Comparable(w)'
    BY <2>1, <2>5, <2>8, <2>9 DEF Comparable, LaterThan
  <2> QED BY <2>1, <2>10, <2>11, <1>u, OneMoves
<1>10. ASSUME NEW a \in Actor, JudgeBundle(a)
      PROVE  EvidenceInv'
  <2> DEFINE r == actor[a]
             chosen == [before |-> file, terminal |-> r.terminal, after |-> r.after]
  <2> PICK w : w = IF r.known /\ ValidBundle(chosen) THEN [pc |-> "verify", bundle |-> chosen] ELSE Free
    OBVIOUS
  <2>1. /\ actor' = [actor EXCEPT ![a] = w] /\ UNCHANGED <<required, updates, file>>
        /\ r.pc = "judge"
    BY <1>10 DEF JudgeBundle, Follow, contract, execution, evidenceFiles
  <2>2. CASE r.known /\ ValidBundle(chosen)
    <3>1. file.at < r.terminal
      BY <2>2 DEF ValidBundle, WindowOrdered
    <3>2. file.at \in Nat /\ Comparable(r)
      BY DEF EvidenceInv
    <3>3. LaterThan(r.after, file, r.terminal)
      BY <3>1, <3>2, <2>1, <2>2 DEF Comparable
    <3>4. /\ w.pc = "verify" /\ w.bundle.before = file /\ w.bundle.after = r.after
          /\ w.bundle.terminal = r.terminal
      BY <2>2
    <3> HIDE DEF r, chosen
    <3>5. Shaped(w)'
      BY <3>4 DEF Shaped
    <3>6. Comparable(w)'
      BY <2>1, <3>1, <3>3, <3>4 DEF Comparable, LaterThan
    <3> QED BY <2>1, <3>5, <3>6, <1>u, OneMoves
  <2>3. CASE ~(r.known /\ ValidBundle(chosen))
    <3>1. w = Free
      BY <2>3
    <3>2. Shaped(Free)' /\ Comparable(Free)'
      BY DEF Shaped, Comparable, Free
    <3> QED BY <2>1, <3>1, <3>2, <1>u, OneMoves
  <2> QED BY <2>2, <2>3
<1>11. CASE CrashAgent
  <2>1. actor' = [a \in Actor |-> Free] /\ UNCHANGED <<required, updates, file>>
    BY <1>11 DEF CrashAgent, contract, execution, evidenceFiles
  <2>2. Shaped(Free)' /\ Comparable(Free)'
    BY DEF Shaped, Comparable, Free
  <2>3. \A a \in Actor : actor'[a] = Free
    BY <2>1
  <2>4. \A a \in Actor : Shaped(actor[a])' /\ Comparable(actor[a])'
    BY <2>3 DEF Shaped, Comparable, Free
  <2>5. actor' = [a \in Actor |-> actor'[a]]
    BY <2>1
  <2> QED BY <2>1, <2>4, <2>5 DEF EvidenceInv
<1> QED
  BY <1>1, <1>2, <1>3, <1>4, <1>5, <1>6, <1>7, <1>8, <1>9, <1>10, <1>11 DEF EvidenceNext

LEMMA EvidenceInvariant == EvidenceSpec => []EvidenceInv
<1>1. ASSUME EvidenceInv, UNCHANGED evidenceVars PROVE EvidenceInv'
  <2>1. UNCHANGED <<required, updates, file, actor>>
    BY <1>1 DEF evidenceVars
  <2> QED BY <1>1, <2>1 DEF EvidenceInv, Shaped, Comparable, LaterThan, Holds
<1> QED BY <1>1, EvidenceStarts, EvidenceKeeps, PTL DEF EvidenceSpec

(* What the verifier gets shows the scene before and after, for any number  *)
(* of actors, sources, restarts of the Gateway and crashes, although two    *)
(* actors may write the same files (forge/observation.py:167).             *)
THEOREM EvidenceIsFresh == EvidenceSpec => []AcceptedIsFresh
<1>1. EvidenceInv => AcceptedIsFresh
  BY DEF EvidenceInv, AcceptedIsFresh, Comparable, LaterThan
<1> QED BY <1>1, EvidenceInvariant, PTL

(* The types of the evidence.  Every record is updated twice: when it is    *)
(* sent and when it ends.                                                  *)
Counts ==
  /\ required \in SUBSET Source
  /\ policy \in [kinds: SUBSET {"rgb_image", "robot_state"}, sources: SUBSET Source]
  /\ frame \in [Source -> 0..MaxFrames] /\ actions \in 0..MaxActions
  /\ running \in 0..actions /\ updates = 2 * actions - running
  /\ evidenceFaults \in 0..MaxEvidenceFaults

FileWritten == file = NoSnapshot \/ file \in Snapshot
Held(c) == /\ c.images \in Images
           /\ c.state = {} \/ (\E k \in Moment : c.state = {k})

(* A reference that is about to be stored is to a file that was written. *)
ActorTyped(w) ==
  /\ w.pc \in {"free", "before", "send", "after", "judge", "verify"}
  /\ w.pc \in {"before", "after"} => Held(w.held)
  /\ w.pc = "send" => w.ref \in BOOLEAN /\ (w.ref => file # NoSnapshot)

EvidenceTyped ==
  /\ Counts /\ FileWritten
  /\ beforeRef \in BOOLEAN /\ (beforeRef => file # NoSnapshot)
  /\ \A a \in Actor : ActorTyped(actor[a])

LEMMA UpdatesAreMoments ==
  ASSUME Counts
  PROVE  updates \in Moment /\ 0 \in Moment
BY EvidenceAssumption DEF Counts, Moment

LEMMA CountsKept ==
  ASSUME Counts, EvidenceNext
  PROVE  Counts'
<1>1. CASE (\E s \in Source : NewFrame(s)) \/ RestartGateway
  <2>1. frame' \in [Source -> 0..MaxFrames] /\ evidenceFaults' \in 0..MaxEvidenceFaults
    BY <1>1, EvidenceAssumption DEF NewFrame, RestartGateway, Counts
  <2> QED BY <1>1, <2>1 DEF NewFrame, RestartGateway, Counts, contract, execution
<1>2. CASE \/ \E a \in Actor, s \in Source : ReceiveImage(a, s)
           \/ \E a \in Actor : \/ ReceiveState(a) \/ StartCapture(a) \/ TakeBefore(a) \/ MissBefore(a)
                               \/ BeginFinalize(a) \/ TakeAfter(a) \/ MissAfter(a)
                               \/ JudgeBundle(a) \/ TakeVerdict(a)
  <2>1. UNCHANGED <<required, policy, frame, actions, running, updates, evidenceFaults>>
    BY <1>2 DEF ReceiveImage, ReceiveState, StartCapture, TakeBefore, MissBefore, BeginFinalize,
                TakeAfter, MissAfter, JudgeBundle, TakeVerdict, contract, execution
  <2> QED BY <2>1 DEF Counts
<1>3. CASE (\E a \in Actor : SendAction(a)) \/ EndAction
  <2>1. /\ UNCHANGED <<required, policy, frame, evidenceFaults>>
        /\ actions' \in 0..MaxActions /\ running' \in 0..actions'
        /\ updates' = 2 * actions' - running'
    BY <1>3, EvidenceAssumption DEF SendAction, EndAction, contract, Counts
  <2> QED BY <2>1 DEF Counts
<1>4. CASE CrashAgent
  BY <1>4, EvidenceAssumption DEF CrashAgent, contract, execution, Counts
<1> QED BY <1>1, <1>2, <1>3, <1>4 DEF EvidenceNext

(* An actor is known by its row; the others keep theirs. *)
LEMMA OneActor ==
  ASSUME EvidenceInv, \A b \in Actor : ActorTyped(actor[b]), NEW a \in Actor, NEW w,
         actor' = [actor EXCEPT ![a] = w], ActorTyped(w)', file # NoSnapshot => file' # NoSnapshot
  PROVE  \A b \in Actor : ActorTyped(actor[b])'
<1> TAKE b \in Actor
<1>1. ActorTyped(actor[b])
  OBVIOUS
<1>2. actor'[b] = IF b = a THEN w ELSE actor[b]
  BY DEF EvidenceInv
<1> QED BY <1>1, <1>2 DEF ActorTyped, Held

LEMMA ActorsKept ==
  ASSUME EvidenceInv, EvidenceTyped, EvidenceNext
  PROVE  EvidenceTyped'
<1>c. Counts' /\ updates \in Moment /\ 0 \in Moment
  BY CountsKept, UpdatesAreMoments DEF EvidenceTyped
<1>0. ASSUME UNCHANGED <<file, beforeRef>>, \A a \in Actor : ActorTyped(actor[a])'
      PROVE  EvidenceTyped'
  BY <1>0, <1>c DEF EvidenceTyped, FileWritten
<1>1. CASE (\E s \in Source : NewFrame(s)) \/ RestartGateway \/ EndAction
  <2>1. UNCHANGED <<file, beforeRef, actor>>
    BY <1>1 DEF NewFrame, RestartGateway, EndAction, evidenceFiles
  <2> QED BY <1>0, <2>1 DEF EvidenceTyped, ActorTyped, Held
<1>2. ASSUME NEW a \in Actor, NEW s \in Source, ReceiveImage(a, s)
      PROVE  EvidenceTyped'
  <2> DEFINE held == actor[a].held
             stamp == [seq |-> frame[s], at |-> ReceivedAt(a)]
             images == [t \in DOMAIN held.images \cup {s} |->
                 IF t = s THEN [seq |-> frame[s], at |-> ReceivedAt(a)] ELSE held.images[t]]
             row == [actor[a] EXCEPT !.held.images = images]
  <2>1. /\ actor' = [actor EXCEPT ![a] = row] /\ UNCHANGED <<file, beforeRef>>
        /\ Collecting(a) /\ frame[s] > 0
    BY <1>2 DEF ReceiveImage, evidenceFiles
  <2>2. Shaped(actor[a]) /\ ActorTyped(actor[a]) /\ Held(held)
    BY <2>1 DEF EvidenceInv, EvidenceTyped, ActorTyped, Collecting
  <2>3. stamp \in Image
    BY <2>1, <1>c, EvidenceAssumption DEF EvidenceTyped, Counts, ReceivedAt, Image
  <2>4. PICK h \in SUBSET Source : held.images \in [h -> Image]
    BY <2>2 DEF Held, Images
  <2>5. images \in [h \cup {s} -> Image]
    BY <2>3, <2>4
  <2>6. images \in Images
    BY <2>5 DEF Images
  <2> HIDE DEF images
  <2> PICK w : w = row
    OBVIOUS
  <2>7. w.pc \in {"before", "after"} /\ w.held = [held EXCEPT !.images = images] /\ Holds(held)
    BY <2>1, <2>2 DEF Shaped, Holds, Collecting
  <2> HIDE DEF row, held
  <2>8. w.held.images = images /\ w.held.state = held.state
    BY <2>7 DEF Holds
  <2>9. ActorTyped(w)'
    BY <2>2, <2>6, <2>7, <2>8 DEF ActorTyped, Held
  <2> QED BY <1>0, <2>1, <2>9, OneActor DEF EvidenceTyped
<1>3. ASSUME NEW a \in Actor, ReceiveState(a)
      PROVE  EvidenceTyped'
  <2> DEFINE held == actor[a].held
             state == {ReceivedAt(a)}
             row == [actor[a] EXCEPT !.held.state = state]
  <2>1. actor' = [actor EXCEPT ![a] = row] /\ UNCHANGED <<file, beforeRef>> /\ Collecting(a)
    BY <1>3 DEF ReceiveState, evidenceFiles
  <2>2. Shaped(actor[a]) /\ ActorTyped(actor[a]) /\ Held(held)
    BY <2>1 DEF EvidenceInv, EvidenceTyped, ActorTyped, Collecting
  <2>3. \E k \in Moment : state = {k}
    BY <1>c DEF ReceivedAt
  <2> HIDE DEF state
  <2> PICK w : w = row
    OBVIOUS
  <2>4. w.pc \in {"before", "after"} /\ w.held = [held EXCEPT !.state = state] /\ Holds(held)
    BY <2>1, <2>2 DEF Shaped, Holds, Collecting
  <2> HIDE DEF row, held
  <2>5. w.held.images = held.images /\ w.held.state = state
    BY <2>4 DEF Holds
  <2>6. ActorTyped(w)'
    BY <2>2, <2>3, <2>4, <2>5 DEF ActorTyped, Held
  <2> QED BY <1>0, <2>1, <2>6, OneActor DEF EvidenceTyped
<1>4. ASSUME NEW a \in Actor, StartCapture(a) \/ MissBefore(a) \/ MissAfter(a) \/ TakeVerdict(a)
      PROVE  EvidenceTyped'
  <2>1. UNCHANGED <<file, beforeRef>>
    BY <1>4 DEF StartCapture, MissBefore, MissAfter, TakeVerdict, evidenceFiles
  <2>2. PICK w \in {[pc |-> "send", ref |-> TRUE], [pc |-> "send", ref |-> FALSE],
                    [pc |-> "before", held |-> Collector], Free} :
          /\ actor' = [actor EXCEPT ![a] = w]
          /\ w = [pc |-> "send", ref |-> TRUE] => beforeRef
    BY <1>4 DEF StartCapture, MissBefore, MissAfter, TakeVerdict, Follow, Free
  <2>3. Held(Collector)
    BY DEF Held, Collector, NoImages, Images
  <2>4. \/ w.pc = "send" /\ w.ref \in BOOLEAN /\ (w.ref => beforeRef)
        \/ w.pc = "before" /\ w.held = Collector
        \/ w.pc = "free"
    <3>1. CASE w = [pc |-> "send", ref |-> TRUE]
      BY <2>2, <3>1
    <3>2. CASE w = [pc |-> "send", ref |-> FALSE]
      BY <3>2
    <3>3. CASE w = [pc |-> "before", held |-> Collector]
      BY <3>3
    <3>4. CASE w = Free
      BY <3>4 DEF Free
    <3> QED BY <2>2, <3>1, <3>2, <3>3, <3>4
  <2>5. ActorTyped(w)'
    BY <2>1, <2>3, <2>4 DEF ActorTyped, Held, EvidenceTyped
  <2> QED BY <1>0, <2>1, <2>2, <2>5, OneActor DEF EvidenceTyped
<1>5. ASSUME NEW a \in Actor, TakeBefore(a)
      PROVE  EvidenceTyped'
  <2> PICK w : w = [pc |-> "send", ref |-> TRUE]
    OBVIOUS
  <2> DEFINE held == actor[a].held
  <2>1. /\ actor' = [actor EXCEPT ![a] = w] /\ beforeRef' = beforeRef
        /\ file' = [images |-> held.images, state |-> held.state, at |-> updates]
        /\ actor[a].pc = "before"
    BY <1>5 DEF TakeBefore, Follow, TakenNow
  <2>2. Held(held)
    BY <2>1 DEF EvidenceTyped, ActorTyped
  <2>3. file' \in Snapshot
    BY <1>c, <2>1, <2>2 DEF Snapshot, Held
  <2>4. "missing" \notin DOMAIN file' /\ "missing" \in DOMAIN NoSnapshot
    BY <2>1 DEF NoSnapshot
  <2>5. file' # NoSnapshot
    BY <2>4
  <2>6. ActorTyped(w)'
    BY <2>5 DEF ActorTyped
  <2>7. \A b \in Actor : ActorTyped(actor[b])'
    BY <2>1, <2>5, <2>6, OneActor DEF EvidenceTyped
  <2> QED BY <1>c, <2>1, <2>3, <2>5, <2>7 DEF EvidenceTyped, FileWritten
<1>6. ASSUME NEW a \in Actor, SendAction(a)
      PROVE  EvidenceTyped'
  <2>1. /\ actor' = [actor EXCEPT ![a] = Free] /\ file' = file
        /\ beforeRef' = actor[a].ref /\ actor[a].pc = "send"
    BY <1>6 DEF SendAction, Follow
  <2>2. beforeRef' \in BOOLEAN /\ (beforeRef' => file' # NoSnapshot)
    BY <2>1 DEF EvidenceTyped, ActorTyped
  <2>3. \A b \in Actor : ActorTyped(actor[b])'
    BY <2>1, OneActor DEF EvidenceTyped, ActorTyped, Free
  <2> QED BY <1>c, <2>1, <2>2, <2>3 DEF EvidenceTyped, FileWritten
<1>7. ASSUME NEW a \in Actor, BeginFinalize(a)
      PROVE  EvidenceTyped'
  <2> PICK w : w = [pc |-> "after", held |-> Collector, terminal |-> updates,
                    before |-> IF beforeRef THEN file ELSE NoSnapshot]
    OBVIOUS
  <2>1. actor' = [actor EXCEPT ![a] = w] /\ UNCHANGED <<file, beforeRef>>
    BY <1>7 DEF BeginFinalize, Follow, evidenceFiles
  <2>2. Held(Collector)
    BY DEF Held, Collector, NoImages, Images
  <2>3. w.pc = "after" /\ w.held = Collector
    OBVIOUS
  <2>4. ActorTyped(w)'
    BY <2>2, <2>3 DEF ActorTyped, Held
  <2> QED BY <1>0, <2>1, <2>4, OneActor DEF EvidenceTyped
<1>8. ASSUME NEW a \in Actor, TakeAfter(a) \/ JudgeBundle(a)
      PROVE  EvidenceTyped'
  <2>1. PICK w : /\ actor' = [actor EXCEPT ![a] = w] /\ w.pc \in {"judge", "verify", "free"}
                 /\ UNCHANGED <<file, beforeRef>>
    BY <1>8 DEF TakeAfter, JudgeBundle, Follow, evidenceFiles, Free
  <2>2. ActorTyped(w)'
    BY <2>1 DEF ActorTyped
  <2> QED BY <1>0, <2>1, <2>2, OneActor DEF EvidenceTyped
<1>9. CASE CrashAgent
  <2>1. UNCHANGED <<file, beforeRef>> /\ \A a \in Actor : actor'[a] = Free
    BY <1>9 DEF CrashAgent, evidenceFiles
  <2> QED BY <1>0, <2>1 DEF ActorTyped, Free
<1> QED BY <1>1, <1>2, <1>3, <1>4, <1>5, <1>6, <1>7, <1>8, <1>9 DEF EvidenceNext

(* The types of the evidence, for any sources, coroutines and bounds: what  *)
(* is kept is a well-formed snapshot of moments of this task, a collector   *)
(* holds at most one robot state, and the task refers to a before snapshot  *)
(* only when the file was written (forge/evidence.py:154).                 *)
THEOREM ReferenceHasFile == EvidenceSpec => []EvidenceTypeOK
<1>1. EvidenceInit => EvidenceTyped
  <2> SUFFICES ASSUME EvidenceInit PROVE EvidenceTyped
    OBVIOUS
  <2>1. Counts
    BY EvidenceAssumption DEF EvidenceInit, Counts
  <2> QED BY <2>1 DEF EvidenceInit, EvidenceTyped, FileWritten, ActorTyped, Free
<1>2. ASSUME EvidenceTyped, UNCHANGED evidenceVars PROVE EvidenceTyped'
  BY <1>2 DEF evidenceVars, EvidenceTyped, Counts, FileWritten, ActorTyped, Held
<1>3. EvidenceTyped => EvidenceTypeOK
  <2> SUFFICES ASSUME EvidenceTyped PROVE EvidenceTypeOK
    OBVIOUS
  <2>1. ASSUME NEW a \in Actor, Collecting(a)
        PROVE  /\ actor[a].held.images \in Images
               /\ Cardinality(actor[a].held.state) <= 1
    <3>1. Held(actor[a].held)
      BY <2>1 DEF EvidenceTyped, ActorTyped, Collecting
    <3>2. CASE actor[a].held.state = {}
      BY <3>1, <3>2, FS_EmptySet DEF Held
    <3>3. ASSUME NEW k, actor[a].held.state = {k} PROVE Cardinality(actor[a].held.state) <= 1
      <4>1. Cardinality({k}) = 1
        BY FS_Singleton
      <4> QED BY <3>3, <4>1
    <3> QED BY <3>1, <3>2, <3>3 DEF Held
  <2>2. updates \in Moment
    BY UpdatesAreMoments DEF EvidenceTyped
  <2>3. \A a \in Actor : actor[a].pc \in {"free", "before", "send", "after", "judge", "verify"}
    BY DEF EvidenceTyped, ActorTyped
  <2> QED BY <2>1, <2>2, <2>3 DEF EvidenceTyped, Counts, FileWritten, EvidenceTypeOK
<1> QED BY <1>1, <1>2, <1>3, ActorsKept, EvidenceInvariant, PTL DEF EvidenceSpec

-----------------------------------------------------------------------------
(* Activation.  An instance that is neither recorded as active nor at the   *)
(* address never comes back; while it is one of the two, whatever was read  *)
(* for it was read from it: its part says so now, or did before.            *)
Live(i) == i # NoInstance /\ (active = i \/ gateway = i)
Readings == [1..Tools -> Content]

InstancesInv ==
  /\ started \subseteq Instance
  /\ active \in started \cup {NoInstance} /\ gateway \in started \cup {NoInstance}
  /\ active # NoInstance => gateway \in {active, NoInstance}
  /\ content \in [Part -> Content] /\ former \in [Part -> SUBSET Content] /\ restored \in Nat

(* Part p says v, or did before. *)
Shown(p, v) == v = content[p] \/ v \in former[p]

(* Part p said m at the moment a creation began, and v no later.  While no  *)
(* change brings a content back, v is m, or p does not say v.               *)
Stayed(p, v, m) == v = m \/ (v \in former[p] /\ v # content[p])

Read(c) ==
  /\ c = [instance |-> c.instance, specs |-> c.specs, document |-> c.document,
          manifest |-> c.manifest]
  /\ c.instance \in started /\ c.specs \in Readings
  /\ Shown(Document, c.document) /\ Shown(Manifest, c.manifest)
  /\ Live(c.instance) => \A t \in 1..Tools : Shown(ToolSpec(c.instance, t), c.specs[t])

(* A turn that previews: what it has read so far is of its Runtime.         *)
Previews(w) ==
  /\ w.runtime \in started /\ w.got \in Seq(Content) /\ Len(w.got) <= Tools
  /\ Live(w.runtime) => \A t \in 1..Len(w.got) : Shown(ToolSpec(w.runtime, t), w.got[t])

(* A creation lies between the reading of its candidate and its own.        *)
Between(w) ==
  /\ w.moment = [instance |-> w.runtime, specs |-> w.moment.specs,
                 document |-> w.moment.document, manifest |-> w.moment.manifest]
  /\ w.moment.specs \in Readings /\ w.restored \in Nat /\ w.restored <= restored
  /\ w.restored = restored =>
       /\ Stayed(Document, w.candidate.document, w.moment.document)
       /\ Stayed(Manifest, w.candidate.manifest, w.moment.manifest)
       /\ Live(w.runtime) /\ w.candidate.instance = w.runtime =>
            /\ \A t \in 1..Tools :
                 Stayed(ToolSpec(w.runtime, t), w.candidate.specs[t], w.moment.specs[t])
            /\ \A t \in 1..Len(w.got) :
                 w.candidate.specs[t] = w.got[t] => w.candidate.specs[t] = w.moment.specs[t]

TurnInv(w) ==
  /\ w.pc = "activate" =>
       /\ w = [pc |-> "activate", known |-> w.known, key |-> w.key, told |-> w.told,
               runtime |-> w.runtime, got |-> w.got]
       /\ Previews(w)
  /\ w.pc = "create" =>
       /\ w = [pc |-> "create", known |-> w.known, told |-> w.told, candidate |-> w.candidate,
               runtime |-> w.runtime, got |-> w.got, moment |-> w.moment,
               restored |-> w.restored]
       /\ Previews(w) /\ Between(w) /\ Read(w.candidate)

ActivationInv ==
  /\ InstancesInv
  /\ \A c \in candidates : Read(c)
  /\ skillTurn = [k \in Conversation |-> skillTurn[k]]
  /\ \A k \in Conversation : TurnInv(skillTurn[k])
  /\ BoundToOneMoment

LEMMA ActivationStarts == ActivationInit => ActivationInv
<1> SUFFICES ASSUME ActivationInit PROVE ActivationInv
  OBVIOUS
<1>1. InstancesInv
  <2>1. FirstContent \in Content
    BY ActivationAssumption
  <2>2. content \in [Part -> Content] /\ former \in [Part -> SUBSET Content]
    BY <2>1 DEF ActivationInit
  <2> QED BY <2>2 DEF ActivationInit, InstancesInv
<1>2. \A k \in Conversation : skillTurn[k].pc = "none"
  BY DEF ActivationInit, NoSkillTurn
<1>3. \A k \in Conversation : TurnInv(skillTurn[k])
  BY <1>2 DEF TurnInv
<1>4. BoundToOneMoment
  BY DEF ActivationInit, BoundToOneMoment
<1> QED BY <1>1, <1>3, <1>4 DEF ActivationInit, ActivationInv

(* Time passes: what a part said it has said for ever, what was gone is     *)
(* still gone unless a content is brought back, and no instance returns.    *)
Passes ==
  /\ started \subseteq started' /\ restored <= restored'
  /\ \A i \in started : Live(i)' => Live(i)
  /\ \A p \in Part : \A v :
       /\ Shown(p, v) => Shown(p, v)'
       /\ restored' = restored => \A m : Stayed(p, v, m) => Stayed(p, v, m)'

LEMMA PartsAre ==
  /\ Document \in Part /\ Manifest \in Part
  /\ \A i \in Instance : \A t \in 1..Tools : ToolSpec(i, t) \in Part
<1>1. \A i \in Instance : \A t \in 1..Tools : <<i, t>> \in Instance \X (1..Tools)
  OBVIOUS
<1> QED BY <1>1 DEF Part, ToolSpec

LEMMA StillRead ==
  ASSUME InstancesInv, InstancesInv', Passes, NEW c, Read(c)
  PROVE  Read(c)'
<1>1. c.instance \in Instance
  BY DEF Read, InstancesInv
<1>2. ASSUME Live(c.instance)', NEW t \in 1..Tools
      PROVE  Shown(ToolSpec(c.instance, t), c.specs[t])'
  <2>1. Shown(ToolSpec(c.instance, t), c.specs[t])
    BY <1>2 DEF Read, Passes
  <2> QED BY <1>1, <2>1, PartsAre DEF Passes, ToolSpec
<1>3. Shown(Document, c.document)' /\ Shown(Manifest, c.manifest)'
  BY PartsAre DEF Read, Passes, Document, Manifest
<1> QED BY <1>2, <1>3 DEF Read, Passes

LEMMA StillTurn ==
  ASSUME InstancesInv, InstancesInv', Passes, NEW w, TurnInv(w)
  PROVE  TurnInv(w)'
<1>1. ASSUME Previews(w) PROVE Previews(w)'
  <2>1. ASSUME Live(w.runtime)', NEW t \in 1..Len(w.got)
        PROVE  Shown(ToolSpec(w.runtime, t), w.got[t])'
    <3>1. w.runtime \in Instance /\ t \in 1..Tools
      BY <1>1, <2>1, ActivationAssumption DEF Previews, InstancesInv
    <3>2. Shown(ToolSpec(w.runtime, t), w.got[t])
      BY <1>1, <2>1 DEF Previews, Passes
    <3> QED BY <3>1, <3>2, PartsAre DEF Passes, ToolSpec
  <2> QED BY <1>1, <2>1 DEF Previews, Passes
<1>2. ASSUME w.runtime \in started, Between(w) PROVE Between(w)'
  <2>1. restored \in Nat /\ restored' \in Nat /\ restored <= restored' /\ w.restored \in Nat
        /\ w.restored <= restored
    BY <1>2 DEF Between, InstancesInv, Passes
  <2>2. w.restored <= restored' /\ (w.restored = restored' => restored' = restored)
    BY <2>1
  <2>3. Live(w.runtime)' => Live(w.runtime)
    BY <1>2 DEF Passes
  <2>4. ASSUME w.restored = restored'
        PROVE  /\ Stayed(Document, w.candidate.document, w.moment.document)'
               /\ Stayed(Manifest, w.candidate.manifest, w.moment.manifest)'
    BY <1>2, <2>2, <2>4, PartsAre DEF Between, Passes, Document, Manifest
  <2>5. ASSUME w.restored = restored', Live(w.runtime)', w.candidate.instance = w.runtime,
               NEW t \in 1..Tools
        PROVE  Stayed(ToolSpec(w.runtime, t), w.candidate.specs[t], w.moment.specs[t])'
    <3>1. Stayed(ToolSpec(w.runtime, t), w.candidate.specs[t], w.moment.specs[t])
      BY <1>2, <2>2, <2>3, <2>5 DEF Between
    <3>2. w.runtime \in Instance
      BY <1>2 DEF InstancesInv
    <3> QED BY <2>2, <2>5, <3>1, <3>2, PartsAre DEF Passes, ToolSpec
  <2>6. ASSUME w.restored = restored', Live(w.runtime)', w.candidate.instance = w.runtime,
               NEW t \in 1..Len(w.got), w.candidate.specs[t] = w.got[t]
        PROVE  w.candidate.specs[t] = w.moment.specs[t]
    BY <1>2, <2>2, <2>3, <2>6 DEF Between
  <2> QED BY <1>2, <2>2, <2>4, <2>5, <2>6 DEF Between
<1>3. CASE w.pc = "activate"
  BY <1>1, <1>3 DEF TurnInv
<1>4. CASE w.pc = "create"
  <2>1. Previews(w) /\ Between(w) /\ Read(w.candidate) /\ w.runtime \in started
    BY <1>4 DEF TurnInv, Previews
  <2>2. Read(w.candidate)'
    BY <2>1, StillRead
  <2> QED BY <1>1, <1>2, <2>1, <2>2, <1>4 DEF TurnInv
<1> QED BY <1>3, <1>4 DEF TurnInv

(* A step of the Runtime or of the bundle. *)
LEMMA WorldMoves ==
  ASSUME ActivationInv, InstancesInv', Passes, UNCHANGED <<candidates, skillTurn, bindings>>
  PROVE  ActivationInv'
<1>1. \A c \in candidates' : Read(c)'
  BY StillRead DEF ActivationInv
<1>2. \A k \in Conversation : TurnInv(skillTurn[k])'
  <2> TAKE k \in Conversation
  <2>1. PICK w : w = skillTurn[k]
    OBVIOUS
  <2>2. TurnInv(w)'
    BY <2>1, StillTurn DEF ActivationInv
  <2>3. skillTurn'[k] = w
    BY <2>1
  <2> QED BY <2>2, <2>3 DEF TurnInv, Previews, Between, Read, Live, Shown, Stayed
<1>3. BoundToOneMoment'
  BY DEF ActivationInv, BoundToOneMoment
<1> QED BY <1>1, <1>2, <1>3 DEF ActivationInv

(* A step of one turn. *)
LEMMA TurnMoves ==
  ASSUME ActivationInv, UNCHANGED world, NEW k \in Conversation, NEW w,
         skillTurn' = [skillTurn EXCEPT ![k] = w], TurnInv(w),
         \A c \in candidates' : Read(c), BoundToOneMoment'
  PROVE  ActivationInv'
<1>0. UNCHANGED <<started, active, gateway, content, former, restored>>
  BY DEF world, instances, parts
<1>1. InstancesInv'
  BY <1>0 DEF ActivationInv, InstancesInv
<1>2. \A c : Read(c)' <=> Read(c)
  BY <1>0 DEF Read, Live, Shown
<1>3. skillTurn' = [j \in Conversation |-> IF j = k THEN w ELSE skillTurn[j]]
  BY DEF ActivationInv
<1>4. ASSUME NEW j \in Conversation PROVE TurnInv(skillTurn[j])'
  <2>1. PICK r : r = skillTurn'[j]
    OBVIOUS
  <2>2. r = w \/ r = skillTurn[j]
    BY <2>1, <1>3
  <2>3. TurnInv(r)
    BY <2>2 DEF ActivationInv
  <2>4. TurnInv(r)'
    BY <2>3, <1>0 DEF TurnInv, Previews, Between, Read, Live, Shown, Stayed
  <2> QED BY <2>1, <2>4 DEF TurnInv, Previews, Between, Read, Live, Shown, Stayed
<1>5. skillTurn' = [j \in Conversation |-> skillTurn'[j]]
  BY <1>3
<1>6. \A c \in candidates' : Read(c)'
  BY <1>2
<1> QED BY <1>1, <1>4, <1>5, <1>6 DEF ActivationInv

(* A part that says something else has said what it said before. *)
LEMMA BecomesPasses ==
  ASSUME InstancesInv, UNCHANGED instances, NEW p \in Part, NEW v \in Content, Becomes(p, v)
  PROVE  InstancesInv' /\ Passes
<1>0. UNCHANGED <<started, active, gateway>>
  BY DEF instances
<1>1. /\ content \in [Part -> Content] /\ former \in [Part -> SUBSET Content] /\ restored \in Nat
      /\ v # content[p]
      /\ content' = [content EXCEPT ![p] = v]
      /\ former' = [former EXCEPT ![p] = former[p] \cup {content[p]}]
      /\ restored' = IF v \in former[p] THEN restored + 1 ELSE restored
  BY DEF InstancesInv, Becomes
<1>2. content[p] \in Content /\ former[p] \cup {content[p]} \in SUBSET Content
  BY <1>1
<1>3. /\ content' \in [Part -> Content] /\ former' \in [Part -> SUBSET Content]
      /\ restored' \in Nat /\ restored <= restored'
      /\ restored' = restored => v \notin former[p]
  BY <1>1, <1>2
<1>4. \A q \in Part : /\ content'[q] = IF q = p THEN v ELSE content[q]
                      /\ former'[q] = IF q = p THEN former[p] \cup {content[p]} ELSE former[q]
  BY <1>1
<1>5. InstancesInv'
  BY <1>0, <1>3 DEF InstancesInv
<1>6. \A i \in started : Live(i)' => Live(i)
  BY <1>0 DEF Live
<1>7. ASSUME NEW q \in Part, NEW u
      PROVE  /\ Shown(q, u) => Shown(q, u)'
             /\ restored' = restored => \A m : Stayed(q, u, m) => Stayed(q, u, m)'
  <2>1. Shown(q, u) => Shown(q, u)'
    BY <1>4 DEF Shown
  <2>2. ASSUME restored' = restored, NEW m, Stayed(q, u, m) PROVE Stayed(q, u, m)'
    BY <1>3, <1>4, <2>2 DEF Stayed
  <2> QED BY <2>1, <2>2
<1> QED BY <1>0, <1>3, <1>5, <1>6, <1>7 DEF Passes

LEMMA WorldStep ==
  ASSUME ActivationInv,
         \/ StopInstance \/ GatewayEnds \/ GatewayStarts \/ InstanceStarts
         \/ (\E t \in 1..Tools : SpecChanges(t)) \/ EditBundle
  PROVE  ActivationInv'
<1>i. InstancesInv
  BY DEF ActivationInv
<1>1. CASE StopInstance \/ GatewayEnds \/ InstanceStarts \/ GatewayStarts
  <2>1. UNCHANGED <<content, former, restored, candidates, skillTurn, bindings>>
    BY <1>1 DEF StopInstance, GatewayEnds, InstanceStarts, GatewayStarts, agentState, parts
  <2>2. /\ started \subseteq started' /\ started' \subseteq Instance
        /\ active' \in started' \cup {NoInstance} /\ gateway' \in started' \cup {NoInstance}
        /\ active' # NoInstance => gateway' \in {active', NoInstance}
    BY <1>1, <1>i DEF StopInstance, GatewayEnds, InstanceStarts, GatewayStarts, InstancesInv
  <2>3. \A i \in started : Live(i)' => Live(i)
    BY <1>1, <1>i, ActivationAssumption
    DEF StopInstance, GatewayEnds, InstanceStarts, GatewayStarts, InstancesInv, Live
  <2>4. InstancesInv'
    BY <1>i, <2>1, <2>2 DEF InstancesInv
  <2>5. \A p \in Part : \A v :
          /\ Shown(p, v) => Shown(p, v)'
          /\ restored' = restored => \A m : Stayed(p, v, m) => Stayed(p, v, m)'
    BY <2>1 DEF Shown, Stayed
  <2>6. restored <= restored'
    BY <1>i, <2>1 DEF InstancesInv
  <2>7. Passes
    BY <2>2, <2>3, <2>5, <2>6 DEF Passes
  <2> QED BY <2>1, <2>4, <2>7, WorldMoves
<1>2. ASSUME NEW t \in 1..Tools, SpecChanges(t) PROVE ActivationInv'
  <2>1. UNCHANGED instances /\ UNCHANGED <<candidates, skillTurn, bindings>> /\ gateway # NoInstance
    BY <1>2 DEF SpecChanges, agentState
  <2>2. gateway \in Instance
    BY <1>i, <2>1 DEF InstancesInv
  <2>3. PICK v \in Content : Becomes(ToolSpec(gateway, t), v)
    BY <1>2 DEF SpecChanges
  <2>4. InstancesInv' /\ Passes
    BY <1>i, <2>1, <2>2, <2>3, PartsAre, BecomesPasses
  <2> QED BY <2>1, <2>4, WorldMoves
<1>3. CASE EditBundle
  <2>1. UNCHANGED instances /\ UNCHANGED <<candidates, skillTurn, bindings>>
    BY <1>3 DEF EditBundle, agentState
  <2>2. PICK p \in {Document, Manifest}, v \in Content : Becomes(p, v)
    BY <1>3 DEF EditBundle
  <2>3. InstancesInv' /\ Passes
    BY <1>i, <2>1, <2>2, PartsAre, BecomesPasses
  <2> QED BY <2>1, <2>3, WorldMoves
<1> QED BY <1>1, <1>2, <1>3

(* What a preview that has read all Tools files. *)
LEMMA PreviewIsRead ==
  ASSUME InstancesInv, NEW k, Previews(skillTurn[k]), Len(skillTurn[k].got) = Tools
  PROVE  Read(Previewed(k))
<1> DEFINE w == skillTurn[k]
<1>1. w.got \in Readings
  BY ActivationAssumption DEF Previews, Readings
<1>2. PICK c : c = Previewed(k)
  OBVIOUS
<1>3. /\ c = [instance |-> w.runtime, specs |-> w.got, document |-> content[Document],
               manifest |-> content[Manifest]]
      /\ c.instance = w.runtime /\ c.specs = w.got
      /\ c.document = content[Document] /\ c.manifest = content[Manifest]
  BY <1>2 DEF Previewed
<1>4. Live(w.runtime) => \A t \in 1..Tools : Shown(ToolSpec(w.runtime, t), w.got[t])
  BY DEF Previews
<1>5. Shown(Document, content[Document]) /\ Shown(Manifest, content[Manifest])
  BY DEF Shown
<1>6. Read(c)
  BY <1>1, <1>3, <1>4, <1>5 DEF Read, Previews, InstancesInv
<1> QED BY <1>2, <1>6 DEF Read

LEMMA FiledRead ==
  ASSUME ActivationInv, NEW c, Read(c), candidates' = Filed(c)
  PROVE  \A d \in candidates' : Read(d)
BY DEF ActivationInv, Filed

LEMMA TurnStep ==
  ASSUME ActivationInv, NEW k \in Conversation,
         \/ BeginTurn(k) \/ SetToolContext(k) \/ EndTurn(k) \/ ActivateSkill(k) \/ PreviewTool(k)
         \/ PreviewFails(k) \/ FinishActivation(k) \/ CreateBound(k)
  PROVE  ActivationInv'
<1>i. /\ InstancesInv /\ TurnInv(skillTurn[k]) /\ BoundToOneMoment
      /\ \A c \in candidates : Read(c)
  BY DEF ActivationInv
<1>b. bindings' = bindings => BoundToOneMoment'
  BY <1>i DEF BoundToOneMoment
<1>1. CASE BeginTurn(k) \/ SetToolContext(k) \/ EndTurn(k) \/ PreviewFails(k)
  <2>1. UNCHANGED <<world, candidates, bindings>>
    BY <1>1 DEF BeginTurn, SetToolContext, EndTurn, PreviewFails
  <2>2. PICK w \in {[pc |-> "begun", known |-> {}], [pc |-> "none", known |-> {}],
                    [pc |-> "talk", known |-> skillTurn[k].known]} :
          skillTurn' = [skillTurn EXCEPT ![k] = w]
    BY <1>1 DEF BeginTurn, SetToolContext, EndTurn, PreviewFails, Talks, NoSkillTurn
  <2>3. TurnInv(w)
    BY <2>2 DEF TurnInv
  <2> QED BY <2>1, <2>2, <2>3, <1>i, <1>b, TurnMoves
<1>2. CASE ActivateSkill(k)
  <2>1. UNCHANGED <<world, candidates, bindings>> /\ active # NoInstance
    BY <1>2 DEF ActivateSkill
  <2>2. PICK w : w = [pc |-> "activate", known |-> skillTurn[k].known, key |-> routed,
                      told |-> content[Document], runtime |-> active, got |-> <<>>]
    OBVIOUS
  <2>3. skillTurn' = [skillTurn EXCEPT ![k] = w]
    BY <1>2, <2>2 DEF ActivateSkill
  <2>4. Previews(w)
    BY <2>1, <2>2, <1>i, ActivationAssumption DEF Previews, InstancesInv
  <2>5. TurnInv(w)
    BY <2>2, <2>4 DEF TurnInv
  <2> QED BY <2>1, <2>3, <2>5, <1>i, <1>b, TurnMoves
<1>3. CASE PreviewTool(k)
  <2> DEFINE r == skillTurn[k]
  <2>1. /\ UNCHANGED <<world, candidates, bindings>> /\ gateway # NoInstance
        /\ r.pc \in {"activate", "create"} /\ Len(r.got) < Tools
    BY <1>3 DEF PreviewTool, TurnAt
  <2>2. Previews(r)
    BY <1>i, <2>1 DEF TurnInv
  <2>3. PICK x : x = content[ToolSpec(gateway, Len(r.got) + 1)]
    OBVIOUS
  <2>4. PICK got : got = Append(r.got, x)
    OBVIOUS
  <2>5. x \in Content
    <3>1. gateway \in Instance /\ Len(r.got) + 1 \in 1..Tools
      BY <1>i, <2>1, <2>2, ActivationAssumption DEF InstancesInv, Previews
    <3> QED BY <1>i, <2>3, <3>1, PartsAre DEF InstancesInv
  <2>6. /\ got \in Seq(Content) /\ Len(got) = Len(r.got) + 1 /\ Len(got) <= Tools
        /\ Len(r.got) \in Nat /\ \A t \in 1..Len(r.got) : got[t] = r.got[t]
        /\ got[Len(r.got) + 1] = x
    BY <2>1, <2>2, <2>4, <2>5, ActivationAssumption DEF Previews
  <2>7. Live(r.runtime) => gateway = r.runtime
    BY <1>i, <2>1 DEF Live, InstancesInv
  <2>8. PICK w : w = [r EXCEPT !.got = got]
    OBVIOUS
  <2>9. skillTurn' = [skillTurn EXCEPT ![k] = w]
    BY <1>3, <2>3, <2>4, <2>8 DEF PreviewTool
  <2>10. /\ w.pc = r.pc /\ w.got = got /\ w.runtime = r.runtime
         /\ w.pc = "activate" =>
              w = [pc |-> "activate", known |-> w.known, key |-> w.key, told |-> w.told,
                   runtime |-> w.runtime, got |-> w.got]
         /\ w.pc = "create" =>
              /\ w = [pc |-> "create", known |-> w.known, told |-> w.told, candidate |-> w.candidate,
                      runtime |-> w.runtime, got |-> w.got, moment |-> w.moment,
                      restored |-> w.restored]
              /\ w.candidate = r.candidate /\ w.moment = r.moment /\ w.restored = r.restored
    BY <1>i, <2>1, <2>8 DEF TurnInv
  <2>11. ASSUME Live(w.runtime), NEW t \in 1..Len(got)
         PROVE  Shown(ToolSpec(w.runtime, t), got[t])
    <3>1. CASE t \in 1..Len(r.got)
      BY <2>2, <2>6, <2>10, <2>11, <3>1 DEF Previews
    <3>2. CASE t = Len(r.got) + 1
      BY <2>3, <2>6, <2>7, <2>10, <2>11, <3>2 DEF Shown
    <3>3. t \in 1..Len(r.got) \/ t = Len(r.got) + 1
      BY <2>6
    <3> QED BY <3>1, <3>2, <3>3
  <2>12. Previews(w)
    BY <2>2, <2>6, <2>10, <2>11 DEF Previews
  <2>13. CASE r.pc = "create"
    <3>1. Between(r) /\ Read(r.candidate)
      BY <1>i, <2>13 DEF TurnInv
    <3>2. /\ w.candidate = r.candidate /\ w.moment = r.moment /\ w.restored = r.restored
          /\ w.runtime = r.runtime /\ w.got = got
      BY <2>10, <2>13
    <3>3. ASSUME w.restored = restored, Live(w.runtime), w.candidate.instance = w.runtime,
                 NEW t \in 1..Len(got), w.candidate.specs[t] = got[t]
          PROVE  w.candidate.specs[t] = w.moment.specs[t]
      <4>1. CASE t \in 1..Len(r.got)
        BY <3>1, <3>2, <3>3, <2>6, <4>1 DEF Between
      <4>2. CASE t = Len(r.got) + 1
        <5>1. t \in 1..Tools /\ gateway = r.runtime
          BY <2>1, <2>6, <2>7, <3>2, <3>3, <4>2, ActivationAssumption
        <5>2. Stayed(ToolSpec(r.runtime, t), w.candidate.specs[t], w.moment.specs[t])
          BY <3>1, <3>2, <3>3, <5>1 DEF Between
        <5> QED BY <2>3, <2>6, <3>3, <4>2, <5>1, <5>2 DEF Stayed
      <4>3. t \in 1..Len(r.got) \/ t = Len(r.got) + 1
        BY <2>6, <3>3
      <4> QED BY <4>1, <4>2, <4>3
    <3>4. Between(w)
      BY <3>1, <3>2, <3>3 DEF Between
    <3>5. Read(w.candidate)
      BY <3>1, <3>2
    <3>6. TurnInv(w)
      BY <2>10, <2>12, <2>13, <3>4, <3>5 DEF TurnInv
    <3> QED BY <2>1, <2>9, <3>6, <1>i, <1>b, TurnMoves
  <2>14. CASE r.pc = "activate"
    <3>1. TurnInv(w)
      BY <2>10, <2>12, <2>14 DEF TurnInv
    <3> QED BY <2>1, <2>9, <3>1, <1>i, <1>b, TurnMoves
  <2> QED BY <2>1, <2>13, <2>14
<1>4. CASE FinishActivation(k)
  <2>1. /\ UNCHANGED <<world, bindings>> /\ candidates' = Filed(Previewed(k))
        /\ skillTurn[k].pc = "activate" /\ Len(skillTurn[k].got) = Tools
    BY <1>4 DEF FinishActivation, TurnAt
  <2>2. Previews(skillTurn[k])
    BY <1>i, <2>1 DEF TurnInv
  <2>3. \A c \in candidates' : Read(c)
    BY <1>i, <2>1, <2>2, PreviewIsRead, FiledRead
  <2>4. PICK made : skillTurn' = [skillTurn EXCEPT ![k] = [pc |-> "talk", known |-> made]]
    BY <1>4 DEF FinishActivation
  <2>5. PICK w : w = [pc |-> "talk", known |-> made]
    OBVIOUS
  <2>6. TurnInv(w)
    BY <2>5 DEF TurnInv
  <2> QED BY <2>1, <2>3, <2>4, <2>5, <2>6, <1>b, TurnMoves
<1>5. CASE CreateBound(k)
  <2>1. UNCHANGED <<world, candidates, bindings>> /\ active # NoInstance
    BY <1>5 DEF CreateBound
  <2>2. PICK a, c, moment :
          /\ c \in candidates /\ moment = ThisMoment
          /\ skillTurn' = [skillTurn EXCEPT ![k] =
               [pc |-> "create", known |-> skillTurn[k].known, told |-> a.told,
                candidate |-> c, runtime |-> active, got |-> <<>>, moment |-> moment,
                restored |-> restored]]
    BY <1>5 DEF CreateBound
  <2>3. PICK w : w = [pc |-> "create", known |-> skillTurn[k].known, told |-> a.told,
                      candidate |-> c, runtime |-> active, got |-> <<>>, moment |-> moment,
                      restored |-> restored]
    OBVIOUS
  <2>4. /\ w.candidate = c /\ w.runtime = active /\ w.got = <<>> /\ w.moment = moment
        /\ w.restored = restored
        /\ w = [pc |-> "create", known |-> w.known, told |-> w.told, candidate |-> w.candidate,
                runtime |-> w.runtime, got |-> w.got, moment |-> w.moment,
                restored |-> w.restored]
    BY <2>3
  <2>5. Previews(w)
    BY <2>1, <2>4, <1>i, ActivationAssumption DEF Previews, InstancesInv
  <2>6. Read(c)
    BY <1>i, <2>2
  <2>7. active \in Instance /\ restored \in Nat /\ restored <= restored
    BY <1>i, <2>1 DEF InstancesInv
  <2>8. /\ moment = [instance |-> active, specs |-> moment.specs,
                     document |-> moment.document, manifest |-> moment.manifest]
        /\ moment.specs = [t \in 1..Tools |-> content[ToolSpec(active, t)]]
        /\ moment.document = content[Document] /\ moment.manifest = content[Manifest]
    BY <2>2 DEF ThisMoment
  <2>9. moment.specs \in Readings
    BY <1>i, <2>7, <2>8, PartsAre DEF InstancesInv, Readings
  <2>10. ASSUME NEW p, NEW v, Shown(p, v) PROVE Stayed(p, v, content[p])
    BY <2>10 DEF Shown, Stayed
  <2>11. Stayed(Document, c.document, moment.document) /\ Stayed(Manifest, c.manifest, moment.manifest)
    BY <2>6, <2>8, <2>10 DEF Read
  <2>12. ASSUME Live(active), c.instance = active, NEW t \in 1..Tools
         PROVE  Stayed(ToolSpec(active, t), c.specs[t], moment.specs[t])
    <3>1. Shown(ToolSpec(active, t), c.specs[t])
      BY <2>6, <2>12 DEF Read
    <3> QED BY <2>8, <2>10, <3>1
  <2>13. Between(w)
    BY <2>4, <2>7, <2>8, <2>9, <2>11, <2>12 DEF Between
  <2>14. TurnInv(w)
    BY <2>3, <2>4, <2>5, <2>6, <2>13 DEF TurnInv
  <2> QED BY <2>1, <2>2, <2>3, <2>14, <1>i, <1>b, TurnMoves
<1> QED BY <1>1, <1>2, <1>3, <1>4, <1>5

(* The binding that is frozen is the one of the moment the creation began.  *)
LEMMA FreezeStep ==
  ASSUME ActivationInv, NEW k \in Conversation, FreezeBinding(k)
  PROVE  ActivationInv'
<1> DEFINE t == skillTurn[k]
<1>1. /\ InstancesInv /\ TurnInv(t) /\ BoundToOneMoment
      /\ t.pc = "create" /\ Len(t.got) = Tools
      /\ UNCHANGED world /\ candidates' = Filed(Previewed(k))
  BY DEF ActivationInv, FreezeBinding, TurnAt
<1>2. Previews(t) /\ Between(t) /\ Read(t.candidate)
  BY <1>1 DEF TurnInv
<1>3. \A c \in candidates' : Read(c)
  BY <1>1, <1>2, PreviewIsRead, FiledRead
<1>4. PICK current : current = Previewed(k)
  OBVIOUS
<1>5. current = [instance |-> t.runtime, specs |-> t.got, document |-> content[Document],
                 manifest |-> content[Manifest]]
  BY <1>4 DEF Previewed
<1>6. ASSUME current = t.candidate, active = current.instance, restored = t.restored
      PROVE  current = t.moment
  <2>1. t.candidate.instance = t.runtime /\ t.candidate.specs = t.got
        /\ t.candidate.document = content[Document] /\ t.candidate.manifest = content[Manifest]
    BY <1>5, <1>6
  <2>2. active = t.runtime /\ t.runtime \in Instance
    BY <1>1, <1>2, <1>5, <1>6 DEF Previews, InstancesInv
  <2>3. Live(t.runtime)
    BY <2>2, ActivationAssumption DEF Live
  <2>4. t.moment.document = content[Document] /\ t.moment.manifest = content[Manifest]
    BY <1>2, <1>6, <2>1 DEF Between, Stayed
  <2>5. t.got \in Readings /\ t.moment.specs \in Readings
    BY <1>1, <1>2, <2>1 DEF Read, Between
  <2>6. ASSUME NEW i \in 1..Tools PROVE t.got[i] = t.moment.specs[i]
    BY <1>1, <1>2, <1>6, <2>1, <2>3 DEF Between
  <2>7. t.got = t.moment.specs
    <3>1. PICK f \in Readings, g \in Readings : f = t.got /\ g = t.moment.specs
      BY <2>5
    <3>2. \A i \in 1..Tools : f[i] = g[i]
      BY <2>6, <3>1
    <3>3. f = [i \in 1..Tools |-> f[i]] /\ g = [i \in 1..Tools |-> g[i]]
      BY DEF Readings
    <3>4. [i \in 1..Tools |-> f[i]] = [i \in 1..Tools |-> g[i]]
      BY <3>2
    <3> QED BY <3>1, <3>3, <3>4, Zenon
  <2> QED BY <1>2, <1>5, <2>4, <2>7 DEF Between
<1>7. BoundToOneMoment'
  <2>1. \/ UNCHANGED bindings
        \/ /\ current = t.candidate
           /\ bindings' = {[frozen |-> current, moment |-> t.moment,
                            served |-> active = current.instance,
                            calm |-> restored = t.restored]}
    BY <1>4 DEF FreezeBinding, Unchanged
  <2>2. CASE UNCHANGED bindings
    BY <1>1, <2>2 DEF BoundToOneMoment
  <2>3. ASSUME current = t.candidate, NEW b,
               b = [frozen |-> current, moment |-> t.moment, served |-> active = current.instance,
                    calm |-> restored = t.restored]
        PROVE  b.served /\ b.calm => b.frozen = b.moment
    <3>1. /\ b.frozen = current /\ b.moment = t.moment /\ b.served = (active = current.instance)
          /\ b.calm = (restored = t.restored)
      BY <2>3
    <3> QED BY <3>1, <2>3, <1>6
  <2> QED BY <2>1, <2>2, <2>3 DEF BoundToOneMoment
<1>8. PICK w : w = [pc |-> "talk", known |-> t.known]
  OBVIOUS
<1>9. skillTurn' = [skillTurn EXCEPT ![k] = w]
  BY <1>8 DEF FreezeBinding, Talks
<1>10. TurnInv(w)
  BY <1>8 DEF TurnInv
<1> QED BY <1>1, <1>3, <1>7, <1>9, <1>10, TurnMoves

LEMMA ActivationKeeps ==
  ASSUME ActivationInv, ActivationNext
  PROVE  ActivationInv'
<1>1. CASE TaskEnds
  <2>1. UNCHANGED <<started, active, gateway, content, former, restored, candidates, skillTurn>>
        /\ bindings' = {}
    BY <1>1 DEF TaskEnds, world, instances, parts
  <2>2. InstancesInv' /\ BoundToOneMoment'
    BY <2>1 DEF ActivationInv, InstancesInv, BoundToOneMoment
  <2>3. \A c \in candidates' : Read(c)'
    BY <2>1 DEF ActivationInv, Read, Live, Shown
  <2>4. \A k \in Conversation : TurnInv(skillTurn[k])'
    BY <2>1 DEF ActivationInv, TurnInv, Previews, Between, Read, Live, Shown, Stayed
  <2> QED BY <2>1, <2>2, <2>3, <2>4 DEF ActivationInv
<1> QED
  BY <1>1, WorldStep, TurnStep, FreezeStep DEF ActivationNext

LEMMA ActivationInvariant == ActivationSpec => []ActivationInv
<1>1. ASSUME ActivationInv, UNCHANGED activationVars PROVE ActivationInv'
  <2>1. UNCHANGED <<started, active, gateway, content, former, restored, candidates, skillTurn, bindings>>
    BY <1>1 DEF activationVars
  <2>2. InstancesInv' /\ BoundToOneMoment'
    BY <1>1, <2>1 DEF ActivationInv, InstancesInv, BoundToOneMoment
  <2>3. \A c \in candidates' : Read(c)'
    BY <1>1, <2>1 DEF ActivationInv, Read, Live, Shown
  <2>4. \A k \in Conversation : TurnInv(skillTurn[k])'
    BY <1>1, <2>1 DEF ActivationInv, TurnInv, Previews, Between, Read, Live, Shown, Stayed
  <2> QED BY <1>1, <2>1, <2>2, <2>3, <2>4 DEF ActivationInv
<1> QED BY <1>1, ActivationStarts, ActivationKeeps, PTL DEF ActivationSpec

(* Unless a change brings a content back while the task is created, what it *)
(* is bound to existed, all of it at once, when its creation began: for any *)
(* number of conversations, Runtime instances, Tools and contents, although *)
(* the previews read one Tool after the other and another turn may replace  *)
(* the candidate (forge/binding.py:102, :165).                              *)
THEOREM BoundAtOnce == ActivationSpec => []BoundToOneMoment
<1>1. ActivationInv => BoundToOneMoment
  BY DEF ActivationInv
<1> QED BY <1>1, ActivationInvariant, PTL

(* The types of the activation. *)
Restorations == changes \in 0..MaxChanges /\ restored \in 0..MaxRestored

(* The tools point to a conversation since the first turn that talked. *)
TurnTyped(w) ==
  /\ w.pc \in {"none", "begun", "talk", "activate", "create"} /\ AtMostOne(w.known)
  /\ w.pc \notin {"none", "begun"} => routed \in Conversation
  /\ w.pc = "activate" => w.key \in Conversation
  /\ w.pc \in {"activate", "create"} => \A t \in 1..Len(w.got) : w.got[t] \in Content

Noted(c) ==
  c = [number |-> c.number, made |-> c.made] /\ c.number \in 0..MaxTurns /\ AtMostOne(c.made)

OneOfEachName(S) == S \subseteq Candidate /\ \A c, d \in S : SameId(c, d) => c = d

ActivationTyped ==
  /\ Restorations
  /\ routed \in Conversation \cup {NoConversation}
  /\ OneOfEachName(candidates) /\ AtMostOne(bindings)
  /\ context = [k \in Conversation |-> context[k]]
  /\ \A k \in Conversation : Noted(context[k]) /\ TurnTyped(skillTurn[k])

(* A candidate is filed in the place of the one of its name. *)
LEMMA FiledOnce ==
  ASSUME OneOfEachName(candidates), NEW c \in Candidate
  PROVE  OneOfEachName(Filed(c))
BY DEF OneOfEachName, Filed, SameId

LEMMA PreviewIsCandidate ==
  ASSUME InstancesInv, NEW k, Previews(skillTurn[k]), Len(skillTurn[k].got) = Tools
  PROVE  Previewed(k) \in Candidate
<1>1. skillTurn[k].got \in Specs
  BY ActivationAssumption DEF Previews, Specs
<1>2. content[Document] \in Content /\ content[Manifest] \in Content
  BY PartsAre DEF InstancesInv
<1>3. skillTurn[k].runtime \in Instance
  BY DEF Previews, InstancesInv
<1> QED BY <1>1, <1>2, <1>3 DEF Previewed, Candidate

LEMMA OneTurn ==
  ASSUME ActivationInv, ActivationTyped, NEW k \in Conversation, NEW w,
         skillTurn' = [skillTurn EXCEPT ![k] = w], TurnTyped(w)',
         routed' = routed \/ routed' \in Conversation
  PROVE  \A j \in Conversation : TurnTyped(skillTurn[j])'
<1> TAKE j \in Conversation
<1>1. TurnTyped(skillTurn[j])
  BY DEF ActivationTyped
<1>2. skillTurn'[j] = IF j = k THEN w ELSE skillTurn[j]
  BY DEF ActivationInv
<1> QED BY <1>1, <1>2 DEF TurnTyped, AtMostOne

(* The world moves. *)
LEMMA WorldTyped ==
  ASSUME ActivationInv, ActivationTyped,
         \/ StopInstance \/ GatewayEnds \/ GatewayStarts \/ InstanceStarts
         \/ (\E t \in 1..Tools : SpecChanges(t)) \/ EditBundle
  PROVE  ActivationTyped'
<1>0. UNCHANGED <<routed, context, candidates, skillTurn, bindings>>
  BY DEF StopInstance, GatewayEnds, GatewayStarts, InstanceStarts, SpecChanges, EditBundle,
         agentState
<1>1. changes \in 0..MaxChanges /\ restored \in 0..MaxRestored /\ MaxChanges \in Nat
      /\ MaxRestored \in Nat
  BY ActivationAssumption DEF ActivationTyped, Restorations
<1>2. /\ changes' = changes \/ (changes < MaxChanges /\ changes' = changes + 1)
      /\ restored' = restored \/ (restored < MaxRestored /\ restored' = restored + 1)
  BY DEF StopInstance, GatewayEnds, GatewayStarts, InstanceStarts, SpecChanges, EditBundle,
         Becomes, Change, parts
<1>3. Restorations'
  BY <1>1, <1>2 DEF Restorations
<1> QED BY <1>0, <1>3 DEF ActivationTyped, OneOfEachName, Noted, TurnTyped, AtMostOne

(* The turns move: none changes a part, and a context holds what the    *)
(* first activation of its turn made.                                      *)
LEMMA TurnsTyped ==
  ASSUME ActivationInv, ActivationTyped, NEW k \in Conversation,
         \/ BeginTurn(k) \/ SetToolContext(k) \/ EndTurn(k) \/ ActivateSkill(k) \/ PreviewTool(k)
         \/ PreviewFails(k) \/ FinishActivation(k) \/ CreateBound(k) \/ FreezeBinding(k)
  PROVE  ActivationTyped'
<1> DEFINE r == skillTurn[k]
<1>t. /\ TurnTyped(r) /\ TurnInv(r) /\ InstancesInv /\ Restorations
      /\ OneOfEachName(candidates) /\ AtMostOne(bindings)
      /\ routed \in Conversation \cup {NoConversation}
  BY DEF ActivationInv, ActivationTyped
<1>r. Restorations'
  <2>1. UNCHANGED <<changes, restored>>
    BY DEF BeginTurn, SetToolContext, EndTurn, ActivateSkill, PreviewTool, PreviewFails,
           FinishActivation, CreateBound, FreezeBinding, world, parts
  <2> QED BY <1>t, <2>1 DEF Restorations
<1>c. ASSUME UNCHANGED context
      PROVE  /\ context' = [j \in Conversation |-> context'[j]]
             /\ \A j \in Conversation : Noted(context[j])'
  BY <1>c DEF ActivationTyped, Noted, AtMostOne
<1>k. ASSUME NEW c, Noted(c), NEW j, context' = [context EXCEPT ![j] = c]
      PROVE  /\ context' = [i \in Conversation |-> context'[i]]
             /\ \A i \in Conversation : Noted(context[i])'
  <2>1. context' = [i \in Conversation |-> IF i = j THEN c ELSE context[i]]
    BY <1>k DEF ActivationTyped
  <2>2. \A i \in Conversation : Noted(context'[i])
    BY <1>k, <2>1 DEF ActivationTyped
  <2> QED BY <2>1, <2>2 DEF Noted, AtMostOne
<1>q. ASSUME NEW w, skillTurn' = [skillTurn EXCEPT ![k] = w], TurnTyped(w)',
             routed' \in {routed, k}, OneOfEachName(candidates'), AtMostOne(bindings'),
             context' = [j \in Conversation |-> context'[j]],
             \A j \in Conversation : Noted(context[j])'
      PROVE  ActivationTyped'
  <2>1. \A j \in Conversation : TurnTyped(skillTurn[j])'
    BY <1>q, OneTurn
  <2> QED BY <1>q, <1>r, <1>t, <2>1 DEF ActivationTyped, OneOfEachName, AtMostOne
<1>1. CASE BeginTurn(k)
  <2>1. PICK w : w = [pc |-> "begun", known |-> {}]
    OBVIOUS
  <2>2. PICK c : c = [number |-> context[k].number + 1, made |-> {}]
    OBVIOUS
  <2>3. /\ skillTurn' = [skillTurn EXCEPT ![k] = w] /\ context' = [context EXCEPT ![k] = c]
        /\ context[k].number < MaxTurns /\ UNCHANGED <<routed, candidates, bindings>>
    BY <1>1, <2>1, <2>2 DEF BeginTurn, ActivationTyped
  <2>4. Noted(c)
    BY <2>2, <2>3, ActivationAssumption DEF ActivationTyped, Noted, AtMostOne
  <2>5. TurnTyped(w)'
    BY <2>1 DEF TurnTyped, AtMostOne
  <2> QED BY <1>t, <1>k, <1>q, <2>3, <2>4, <2>5
<1>2. CASE SetToolContext(k) \/ EndTurn(k) \/ PreviewFails(k)
  <2>1. PICK w \in {[pc |-> "none", known |-> {}], [pc |-> "talk", known |-> r.known]} :
          /\ skillTurn' = [skillTurn EXCEPT ![k] = w]
          /\ w.pc = "none" \/ (w.pc = "talk" /\ routed' \in Conversation)
          /\ AtMostOne(w.known)
    <3>1. CASE SetToolContext(k) \/ PreviewFails(k)
      BY <1>t, <3>1 DEF SetToolContext, PreviewFails, Talks, TurnAt, TurnTyped
    <3>2. CASE EndTurn(k)
      BY <3>2 DEF EndTurn, NoSkillTurn, AtMostOne
    <3> QED BY <1>2, <3>1, <3>2
  <2>2. UNCHANGED <<context, candidates, bindings>> /\ routed' \in {routed, k}
    BY <1>2 DEF SetToolContext, EndTurn, PreviewFails
  <2>3. TurnTyped(w)'
    BY <2>1 DEF TurnTyped, AtMostOne
  <2> QED BY <1>t, <1>c, <1>q, <2>1, <2>2, <2>3
<1>3. CASE ActivateSkill(k)
  <2>1. PICK w : w = [pc |-> "activate", known |-> r.known, key |-> routed,
                      told |-> content[Document], runtime |-> active, got |-> <<>>]
    OBVIOUS
  <2>2. /\ skillTurn' = [skillTurn EXCEPT ![k] = w] /\ r.pc = "talk"
        /\ UNCHANGED <<routed, context, candidates, bindings>>
    BY <1>3, <2>1 DEF ActivateSkill, TurnAt
  <2>3. w.pc = "activate" /\ w.known = r.known /\ w.key = routed /\ w.got = <<>>
    BY <2>1
  <2>4. TurnTyped(w)'
    BY <1>t, <2>2, <2>3 DEF TurnTyped, AtMostOne
  <2> QED BY <1>t, <1>c, <1>q, <2>2, <2>4
<1>4. CASE PreviewTool(k)
  <2>1. PICK x : x = content[ToolSpec(gateway, Len(r.got) + 1)]
    OBVIOUS
  <2>2. PICK got : got = Append(r.got, x)
    OBVIOUS
  <2>3. PICK w : w = [r EXCEPT !.got = got]
    OBVIOUS
  <2>4. /\ skillTurn' = [skillTurn EXCEPT ![k] = w] /\ r.pc \in {"activate", "create"}
        /\ Len(r.got) < Tools /\ gateway # NoInstance
        /\ UNCHANGED <<routed, context, candidates, bindings>>
    BY <1>4, <2>1, <2>2, <2>3 DEF PreviewTool, TurnAt
  <2>5. Previews(r) /\ gateway \in Instance
    BY <1>t, <2>4 DEF TurnInv, InstancesInv
  <2>7. x \in Content
    <3>1. Len(r.got) + 1 \in 1..Tools
      BY <2>4, <2>5, ActivationAssumption DEF Previews
    <3> QED BY <1>t, <2>1, <2>5, <3>1, PartsAre DEF InstancesInv
  <2>8. /\ Len(got) = Len(r.got) + 1 /\ got[Len(r.got) + 1] = x /\ Len(r.got) \in Nat
        /\ \A t \in 1..Len(r.got) : got[t] = r.got[t]
    BY <2>2, <2>5, <2>7, ActivationAssumption DEF Previews
  <2>9. \A t \in 1..Len(got) : got[t] \in Content
    <3> TAKE t \in 1..Len(got)
    <3>1. t \in 1..Len(r.got) \/ t = Len(r.got) + 1
      BY <2>8
    <3>2. \A u \in 1..Len(r.got) : r.got[u] \in Content
      BY <1>t, <2>4 DEF TurnTyped
    <3> QED BY <2>7, <2>8, <3>1, <3>2
  <2>10. /\ w.pc = r.pc /\ w.known = r.known /\ w.got = got
         /\ w.pc = "activate" => w.key = r.key
    BY <1>t, <2>3, <2>4 DEF TurnInv
  <2> HIDE DEF r
  <2>11. TurnTyped(w)'
    BY <1>t, <2>4, <2>9, <2>10 DEF TurnTyped, AtMostOne
  <2> QED BY <1>t, <1>c, <1>q, <2>4, <2>11 DEF r
<1>5. CASE FinishActivation(k)
  <2>1. PICK new, made :
          /\ made = IF context[r.key].made = {} THEN {new} ELSE context[r.key].made
          /\ context' = [context EXCEPT ![r.key].made = made]
          /\ skillTurn' = [skillTurn EXCEPT ![k] = [pc |-> "talk", known |-> made]]
    BY <1>5 DEF FinishActivation
  <2>2. /\ r.pc = "activate" /\ Len(r.got) = Tools /\ candidates' = Filed(Previewed(k))
        /\ UNCHANGED <<routed, bindings>>
    BY <1>5 DEF FinishActivation, TurnAt
  <2>3. r.key \in Conversation /\ routed \in Conversation /\ Previews(r)
    BY <1>t, <2>2 DEF TurnTyped, TurnInv
  <2>4. Noted(context[r.key])
    BY <2>3 DEF ActivationTyped
  <2>5. AtMostOne(made)
    BY <2>1, <2>4 DEF Noted, AtMostOne
  <2>6. PICK c : c = [number |-> context[r.key].number, made |-> made]
    OBVIOUS
  <2>7. Noted(c)
    BY <2>4, <2>5, <2>6 DEF Noted
  <2>8. [context[r.key] EXCEPT !.made = made] = c
    BY <2>4, <2>6 DEF Noted
  <2>9. context' = [context EXCEPT ![r.key] = c]
    BY <2>1, <2>8
  <2>10. PICK w : w = [pc |-> "talk", known |-> made]
    OBVIOUS
  <2>11. w.pc = "talk" /\ w.known = made
    BY <2>10
  <2>12. TurnTyped(w)'
    BY <2>2, <2>3, <2>5, <2>11 DEF TurnTyped, AtMostOne
  <2>13. OneOfEachName(candidates')
    BY <1>t, <2>2, <2>3, PreviewIsCandidate, FiledOnce
  <2> QED BY <1>t, <1>k, <1>q, <2>1, <2>2, <2>7, <2>9, <2>10, <2>12, <2>13
<1>6. CASE CreateBound(k)
  <2>1. PICK a, c, moment :
          skillTurn' = [skillTurn EXCEPT ![k] =
            [pc |-> "create", known |-> r.known, told |-> a.told,
             candidate |-> c, runtime |-> active, got |-> <<>>, moment |-> moment,
             restored |-> restored]]
    BY <1>6 DEF CreateBound
  <2>2. PICK w : w = [pc |-> "create", known |-> r.known, told |-> a.told,
             candidate |-> c, runtime |-> active, got |-> <<>>, moment |-> moment,
             restored |-> restored]
    OBVIOUS
  <2>3. r.pc = "talk" /\ UNCHANGED <<routed, context, candidates, bindings>>
    BY <1>6 DEF CreateBound, TurnAt
  <2>4. w.pc = "create" /\ w.known = r.known /\ w.got = <<>>
    BY <2>2
  <2>5. TurnTyped(w)'
    BY <1>t, <2>3, <2>4 DEF TurnTyped, AtMostOne
  <2> QED BY <1>t, <1>c, <1>q, <2>1, <2>2, <2>3, <2>5
<1>7. CASE FreezeBinding(k)
  <2>1. /\ r.pc = "create" /\ Len(r.got) = Tools /\ candidates' = Filed(Previewed(k))
        /\ UNCHANGED <<routed, context>> /\ Talks(k)
        /\ bindings' = bindings \/ \E b : bindings' = {b}
    BY <1>7 DEF FreezeBinding, TurnAt
  <2>2. routed \in Conversation /\ Previews(r)
    BY <1>t, <2>1 DEF TurnTyped, TurnInv
  <2>3. OneOfEachName(candidates')
    BY <1>t, <2>1, <2>2, PreviewIsCandidate, FiledOnce
  <2>4. AtMostOne(bindings')
    BY <1>t, <2>1 DEF AtMostOne
  <2>5. PICK w : w = [pc |-> "talk", known |-> r.known]
    OBVIOUS
  <2>6. w.pc = "talk" /\ w.known = r.known
    BY <2>5
  <2>7. TurnTyped(w)'
    BY <1>t, <2>1, <2>2, <2>6 DEF TurnTyped, AtMostOne
  <2> QED BY <1>c, <1>q, <2>1, <2>3, <2>4, <2>5, <2>7 DEF Talks
<1> QED BY <1>1, <1>2, <1>3, <1>4, <1>5, <1>6, <1>7

(* The types of the activation, for any conversations, instances and Tools: *)
(* one candidate per Runtime and ToolSpecs, one activation per context, and *)
(* one binding of the store, however the turns interleave                  *)
(* (forge/binding.py:102, agent/experience/activation.py:148).              *)
THEOREM OneBinding == ActivationSpec => []ActivationTypeOK
<1>1. ActivationInit => ActivationTyped
  <2> SUFFICES ASSUME ActivationInit PROVE ActivationTyped
    OBVIOUS
  <2>1. Restorations
    BY ActivationAssumption DEF ActivationInit, Restorations
  <2>2. PICK c : c = [number |-> 0, made |-> {}]
    OBVIOUS
  <2>3. Noted(c)
    BY <2>2, ActivationAssumption DEF Noted, AtMostOne
  <2>4. TurnTyped(NoSkillTurn)
    BY DEF TurnTyped, NoSkillTurn, AtMostOne
  <2>5. \A k \in Conversation : context[k] = c /\ skillTurn[k] = NoSkillTurn
    BY <2>2 DEF ActivationInit
  <2>6. context = [k \in Conversation |-> context[k]]
    BY DEF ActivationInit
  <2> QED BY <2>1, <2>3, <2>4, <2>5, <2>6 DEF ActivationInit, ActivationTyped, OneOfEachName, AtMostOne
<1>2. ASSUME ActivationInv, ActivationTyped, [ActivationNext]_activationVars
      PROVE  ActivationTyped'
  <2>1. CASE UNCHANGED activationVars
    BY <1>2, <2>1
    DEF activationVars, ActivationTyped, Restorations, OneOfEachName, Noted, TurnTyped, AtMostOne
  <2>2. CASE TaskEnds
    BY <1>2, <2>2
    DEF TaskEnds, world, parts, ActivationTyped, Restorations, OneOfEachName, Noted,
        TurnTyped, AtMostOne
  <2> QED BY <1>2, <2>1, <2>2, WorldTyped, TurnsTyped DEF ActivationNext
<1>3. ActivationInv /\ ActivationTyped => ActivationTypeOK
  <2> SUFFICES ASSUME ActivationInv, ActivationTyped PROVE ActivationTypeOK
    OBVIOUS
  <2>2. \A k \in Conversation :
          /\ context[k].number \in 0..MaxTurns /\ Cardinality(context[k].made) <= 1
          /\ skillTurn[k].pc \in {"none", "begun", "talk", "activate", "create"}
          /\ Cardinality(skillTurn[k].known) <= 1
    BY OneCounts DEF ActivationTyped, Noted, TurnTyped
  <2>3. Cardinality(bindings) <= 1
    BY OneCounts DEF ActivationTyped
  <2>4. /\ started \subseteq Instance
        /\ active \in started \cup {NoInstance} /\ gateway \in started \cup {NoInstance}
        /\ content \in [Part -> Content] /\ former \in [Part -> SUBSET Content]
    BY DEF ActivationInv, InstancesInv
  <2>5. /\ changes \in 0..MaxChanges /\ restored \in 0..MaxRestored
        /\ routed \in Conversation \cup {NoConversation}
        /\ candidates \subseteq Candidate
    BY DEF ActivationTyped, Restorations, OneOfEachName
  <2>6. \A c, d \in candidates : SameId(c, d) => c = d
    BY DEF ActivationTyped, OneOfEachName
  <2> QED BY <2>2, <2>3, <2>4, <2>5, <2>6 DEF ActivationTypeOK
<1> QED BY <1>1, <1>2, <1>3, ActivationInvariant, PTL DEF ActivationSpec
=============================================================================
