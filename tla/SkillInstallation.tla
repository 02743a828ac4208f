-------------------------- MODULE SkillInstallation --------------------------
(***************************************************************************)
(* Installation of one Skill (src/PhyAgentOS/skill_runtime/installer.py,   *)
(* registry.py, archive.py and the commands of cli/commands.py): the       *)
(* resumable download cache, the staged bundle and its backup, the locked  *)
(* nodes, the removal, and the start, stop and status of the Runtime, by   *)
(* processes that share the directories and may die at each step.          *)
(*                                                                         *)
(* An archive has Size chunks; "good" is the published content.  Moving a  *)
(* directory is one step, and so is each write of the state file, here the *)
(* status of a Runtime with one profile and no references (SkillRuntime    *)
(* has the others).  One process at a time downloads an archive.           *)
(***************************************************************************)
EXTENDS Naturals, Sequences, FiniteSets

CONSTANTS
  Version,      \* published versions of the Skill; each locks one node
  Process,      \* processes of the command line
  Size,         \* chunks of an archive
  Missing,      \* no bundle in place
  MaxOps,       \* bound: operations begun
  MaxInstFaults \* bound: responses that lie, steps that fail, processes that die

ASSUME InstallationAssumption ==
  Size \in Nat \ {0} /\ MaxOps \in Nat /\ MaxInstFaults \in Nat /\ Missing \notin Version

VARIABLES
  archive,   \* cache: archive.tar.gz of each version, TRUE when present
  part,      \* cache: archive.tar.gz.part, the chunks received
  bundle,    \* the Skill's directory: a version or Missing
  whole,     \* its files are all there
  backups,   \* versions under .backups
  nodes,     \* versions whose locked node is installed
  runtime,   \* status of the Runtime in its state file
  flowOf,    \* the version the live flow was started from, or Missing
  lapsed,    \* since that flow came up, the file has said that it is not active
  holder,    \* the process that holds the Skill's operation lock
  proc,      \* what each process does
  ops, instFaults

instVars == <<archive, part, bundle, whole, backups, nodes, runtime, flowOf, lapsed, holder,
              proc, ops, instFaults>>

Chunk == {"good", "bad"}
Good == [i \in 1..Size |-> "good"]
RuntimeStatus == {"none", "starting", "running", "stopping", "stopped", "failed"}
ActiveStatus == {"starting", "running", "stopping"}
Active == runtime \in ActiveStatus
NoProcess == [pc |-> "idle", op |-> "none", v |-> Missing, saved |-> Missing, savedWhole |-> TRUE,
              st |-> "none", busy |-> FALSE]

InstTypeOK ==
  /\ archive \in [Version -> BOOLEAN]
  /\ part \in [Version -> UNION {[1..n -> Chunk] : n \in 0..Size}]
  /\ bundle \in Version \cup {Missing} /\ whole \in BOOLEAN
  /\ backups \subseteq Version /\ nodes \subseteq Version
  /\ runtime \in RuntimeStatus
  /\ flowOf \in Version \cup {Missing} /\ lapsed \in BOOLEAN
  /\ holder \in SUBSET Process /\ Cardinality(holder) <= 1
  /\ proc \in [Process -> [pc: {"idle", "status", "download", "preview", "nodes", "stage", "locked",
                                "place", "undo", "delete", "prepare", "launch", "settle", "halt",
                                "probe", "save"},
                           op: {"none", "install", "remove", "start", "stop", "status"},
                           v: Version \cup {Missing}, saved: Version \cup {Missing}, savedWhole: BOOLEAN,
                           st: RuntimeStatus, busy: BOOLEAN]]
  /\ ops \in 0..MaxOps /\ instFaults \in 0..MaxInstFaults

InstInit ==
  /\ archive = [v \in Version |-> FALSE]
  /\ part = [v \in Version |-> <<>>]
  /\ bundle = Missing /\ whole = TRUE /\ backups = {} /\ nodes = {}
  /\ runtime = "none" /\ flowOf = Missing /\ lapsed = FALSE /\ holder = {}
  /\ proc = [p \in Process |-> NoProcess]
  /\ ops = 0 /\ instFaults = 0

InstFault == instFaults < MaxInstFaults /\ instFaults' = instFaults + 1
ProcessAt(p, pc) == proc[p].pc = pc
GoesTo(p, pc) == proc' = [proc EXCEPT ![p].pc = pc]
Ends(p) == proc' = [proc EXCEPT ![p] = NoProcess]
Release(p) == holder' = holder \ {p}

cache == <<archive, part>>
store == <<bundle, whole, backups, nodes>>
flow == <<runtime, flowOf, lapsed>>

\* A write of the state file, or a change of the flow: a new flow starts a new history.
FlowIs(st, f) ==
  /\ runtime' = st /\ flowOf' = f
  /\ lapsed' = (f # Missing /\ (st \notin ActiveStatus \/ (flowOf # Missing /\ lapsed)))

-----------------------------------------------------------------------------
(* paos skill install, update, remove, start, stop, status *)
Begin(p, op, v) ==
  /\ ProcessAt(p, "idle") /\ ops < MaxOps
  /\ ops' = ops + 1
  /\ v # Missing <=> op = "install"
  /\ proc' = [proc EXCEPT ![p] = [NoProcess EXCEPT !.op = op, !.v = v,
                                  !.pc = CASE op = "install" -> "download"
                                           [] op = "status"  -> "status"
                                           [] OTHER          -> "stage"]]
  /\ UNCHANGED <<cache, store, flow, holder, instFaults>>

(* DownloadCache.download: an archive in place is hashed again.             *)
Cached(p) ==
  /\ ProcessAt(p, "download") /\ archive[proc[p].v]
  /\ GoesTo(p, "preview")
  /\ UNCHANGED <<cache, store, flow, holder, ops, instFaults>>

OnlyDownload(p) == \A q \in Process \ {p} : ProcessAt(q, "download") => proc[q].v # proc[p].v

(* A response appends to the part, or starts it anew when the server        *)
(* ignores the range; it may lie about the content or break off.           *)
Receive(p, fresh, c) ==
  LET v == proc[p].v
      kept == IF fresh THEN <<>> ELSE part[v]
  IN  /\ ProcessAt(p, "download") /\ ~archive[v] /\ OnlyDownload(p) /\ Len(part[v]) < Size
      /\ part' = [part EXCEPT ![v] = Append(kept, c)]
      /\ IF c = "good" THEN UNCHANGED instFaults ELSE InstFault
      /\ UNCHANGED <<archive, store, flow, holder, proc, ops>>

(* The stream breaks, or its headers do not fit: the part is retained. *)
BrokenOff(p) ==
  /\ ProcessAt(p, "download") /\ ~archive[proc[p].v] /\ Len(part[proc[p].v]) < Size
  /\ InstFault /\ Ends(p)
  /\ UNCHANGED <<cache, store, flow, holder, ops>>

(* _commit: the whole part is hashed and renamed, or unlinked. *)
Commit(p) ==
  LET v == proc[p].v
  IN  /\ ProcessAt(p, "download") /\ ~archive[v] /\ OnlyDownload(p) /\ Len(part[v]) = Size
      /\ part' = [part EXCEPT ![v] = <<>>]
      /\ \/ part[v] = Good /\ archive' = [archive EXCEPT ![v] = TRUE] /\ GoesTo(p, "preview")
         \/ part[v] # Good /\ UNCHANGED archive /\ Ends(p)
      /\ UNCHANGED <<store, flow, holder, ops, instFaults>>

(* The archive is installed in a throw-away directory first: what is       *)
(* installed already is left alone (the manifests are compared: a bundle    *)
(* that lost its own counts as not installed, one that lost other files    *)
(* does not); missing nodes come before the Skill.                         *)
Preview(p) ==
  LET v == proc[p].v
  IN  /\ ProcessAt(p, "preview")
      /\ \/ v \notin nodes /\ GoesTo(p, "nodes")
         \/ v \in nodes /\ bundle = v /\ Ends(p)
         \/ v \in nodes /\ ~(bundle = v /\ whole) /\ GoesTo(p, "stage")
      /\ UNCHANGED <<cache, store, flow, holder, ops, instFaults>>

(* NodeInstaller.install: never while a Skill is active; a staged directory *)
(* is renamed into place.                                                  *)
InstallNode(p) ==
  /\ ProcessAt(p, "nodes")
  /\ \/ Active /\ Ends(p) /\ UNCHANGED nodes
     \/ ~Active /\ nodes' = nodes \cup {proc[p].v} /\ GoesTo(p, "preview")
  /\ UNCHANGED <<cache, bundle, whole, backups, flow, holder, ops, instFaults>>

-----------------------------------------------------------------------------
(* SkillOperationLock: busy is an error, there is no waiting. *)
TakeLock(p) ==
  /\ ProcessAt(p, "stage")
  /\ \/ holder # {} /\ Ends(p) /\ UNCHANGED holder
     \/ holder = {} /\ holder' = {p} /\ GoesTo(p, "locked")
  /\ UNCHANGED <<cache, store, flow, ops, instFaults>>

(* The operation is refused under the lock; a start also for want of a node, *)
(* of dora or of its environment, or for a Gateway that answers already.   *)
Refused(p) ==
  /\ ProcessAt(p, "locked") \/ ProcessAt(p, "prepare")
  /\ CASE proc[p].op = "install" -> bundle # Missing /\ Active
       [] proc[p].op = "remove"  -> bundle = Missing \/ Active
       [] proc[p].op = "start"   -> TRUE
       [] proc[p].op = "stop"    -> bundle = Missing \/ ~whole \/ runtime \in {"none", "stopped"}
  /\ Ends(p) /\ Release(p)
  /\ UNCHANGED <<cache, store, flow, ops, instFaults>>

(* Mutant: the bundle in place is deleted first. *)
DeleteAside(p) ==
  /\ ProcessAt(p, "locked") /\ proc[p].op = "install"
  /\ ~(bundle # Missing /\ Active)
  /\ proc' = [proc EXCEPT ![p].pc = "place", ![p].saved = bundle, ![p].savedWhole = whole]
  /\ bundle' = Missing
  /\ UNCHANGED <<cache, whole, backups, nodes, flow, holder, ops, instFaults>>

(* install: the bundle in place, if any, becomes a backup ... *)
MoveAside(p) ==
  /\ ProcessAt(p, "locked") /\ proc[p].op = "install"
  /\ ~(bundle # Missing /\ Active)
  /\ proc' = [proc EXCEPT ![p].pc = "place", ![p].saved = bundle, ![p].savedWhole = whole]
  /\ backups' = backups \cup ({bundle} \ {Missing})
  /\ bundle' = Missing
  /\ UNCHANGED <<cache, whole, nodes, flow, holder, ops, instFaults>>

(* ... and the staged one takes its place. *)
Place(p) ==
  /\ ProcessAt(p, "place")
  /\ bundle' = proc[p].v /\ whole' = TRUE
  /\ Ends(p) /\ Release(p)
  /\ UNCHANGED <<cache, backups, nodes, flow, ops, instFaults>>

(* The move or the reload of the manifest fails: the backup returns. *)
PlaceFails(p) ==
  /\ ProcessAt(p, "place") /\ InstFault
  /\ GoesTo(p, "undo")
  /\ UNCHANGED <<cache, store, flow, holder, ops>>

Undo(p) ==
  /\ ProcessAt(p, "undo")
  /\ bundle' = proc[p].saved /\ whole' = proc[p].savedWhole
  /\ backups' = backups \ {proc[p].saved}
  /\ Ends(p) /\ Release(p)
  /\ UNCHANGED <<cache, nodes, flow, ops, instFaults>>

(* Returning it fails: it is tried once more as the lock is released (here  *)
(* in the same step), and may fail again.                                  *)
UndoFails(p) ==
  /\ ProcessAt(p, "undo") /\ proc[p].saved # Missing /\ InstFault
  /\ \/ /\ bundle' = proc[p].saved /\ whole' = proc[p].savedWhole
        /\ backups' = backups \ {proc[p].saved}
     \/ UNCHANGED <<bundle, whole, backups>>
  /\ Ends(p) /\ Release(p)
  /\ UNCHANGED <<cache, nodes, flow, ops>>

(* Mutant: an active Skill's bundle is removed as well. *)
MoveActiveAway(p) ==
  /\ ProcessAt(p, "locked") /\ proc[p].op = "remove" /\ bundle # Missing
  /\ proc' = [proc EXCEPT ![p].pc = "delete", ![p].saved = bundle]
  /\ bundle' = Missing
  /\ UNCHANGED <<cache, whole, backups, nodes, flow, holder, ops, instFaults>>

(* remove: the directory is moved away, then deleted ... *)
MoveAway(p) ==
  /\ ProcessAt(p, "locked") /\ proc[p].op = "remove" /\ bundle # Missing /\ ~Active
  /\ proc' = [proc EXCEPT ![p].pc = "delete", ![p].saved = bundle]
  /\ bundle' = Missing
  /\ UNCHANGED <<cache, whole, backups, nodes, flow, holder, ops, instFaults>>

Delete(p) ==
  /\ ProcessAt(p, "delete") /\ Ends(p) /\ Release(p)
  /\ UNCHANGED <<cache, store, flow, ops, instFaults>>

(* ... and what is left of it returns when the deletion fails. *)
DeleteFails(p) ==
  /\ ProcessAt(p, "delete") /\ InstFault
  /\ bundle' = proc[p].saved /\ whole' = FALSE
  /\ Ends(p) /\ Release(p)
  /\ UNCHANGED <<cache, backups, nodes, flow, ops>>

-----------------------------------------------------------------------------
(* start: the manifest, the environment and the Gateway are looked at under *)
(* the lock.  One that is recorded as started is probed first, and returned *)
(* when it is ready.                                                       *)
CheckStarted(p) ==
  /\ ProcessAt(p, "locked") /\ proc[p].op = "start" /\ bundle # Missing
  /\ runtime \in {"starting", "running"}
  /\ \/ flowOf # Missing /\ FlowIs("running", flowOf) /\ Ends(p) /\ Release(p)
     \/ /\ FlowIs(IF runtime = "running" THEN "failed" ELSE runtime, flowOf)
        /\ GoesTo(p, "prepare") /\ UNCHANGED holder
  /\ UNCHANGED <<cache, store, ops, instFaults>>

Prepares(p) ==
  /\ proc[p].op = "start"
  /\ ProcessAt(p, "prepare") \/ (ProcessAt(p, "locked") /\ runtime \notin {"starting", "running"})

(* A start that died is repeated, with its flow down or its Gateway silent; *)
(* a bundle that lost files may or may not start.                          *)
SaveStart(p) ==
  /\ Prepares(p) /\ bundle # Missing /\ bundle \in nodes
  /\ FlowIs("starting", flowOf)
  /\ GoesTo(p, "launch")
  /\ UNCHANGED <<cache, store, holder, ops, instFaults>>

\* dora start admits the flow, unless it fails or the flow of this name still runs.
StartFlow(p) ==
  /\ ProcessAt(p, "launch")
  /\ FlowIs(runtime, IF flowOf = Missing THEN bundle ELSE flowOf)
  /\ GoesTo(p, "settle")
  /\ UNCHANGED <<cache, store, holder, ops, instFaults>>

Launched(p) ==
  /\ ProcessAt(p, "settle") /\ flowOf # Missing
  /\ FlowIs("running", flowOf)
  /\ Ends(p) /\ Release(p)
  /\ UNCHANGED <<cache, store, ops, instFaults>>

\* dora stop: of a stop, or of the rollback of a start.
StopFlow(p) ==
  /\ ProcessAt(p, "halt") \/ ProcessAt(p, "settle")
  /\ flowOf # Missing /\ FlowIs(runtime, Missing)
  /\ UNCHANGED <<cache, store, holder, proc, ops, instFaults>>

\* The hook or dora fails, or readiness comes too late.  The rollback does not look at
\* what its dora stop achieved.
LaunchFails(p) ==
  /\ \/ ProcessAt(p, "launch") /\ UNCHANGED instFaults
     \/ ProcessAt(p, "settle") /\ IF flowOf = Missing THEN UNCHANGED instFaults ELSE InstFault
  /\ FlowIs("failed", flowOf)
  /\ Ends(p) /\ Release(p)
  /\ UNCHANGED <<cache, store, ops>>

SaveStop(p) ==
  /\ ProcessAt(p, "locked") /\ proc[p].op = "stop" /\ bundle # Missing
  /\ runtime # "none" /\ (runtime = "stopped" => flowOf # Missing)
  /\ FlowIs("stopping", flowOf) /\ GoesTo(p, "halt")
  /\ UNCHANGED <<cache, store, holder, ops, instFaults>>

\* A dora stop that failed counts as done when dora list fails as well.
Halted(p) ==
  /\ ProcessAt(p, "halt") /\ IF flowOf = Missing THEN UNCHANGED instFaults ELSE InstFault
  /\ FlowIs("stopped", flowOf)
  /\ Ends(p) /\ Release(p)
  /\ UNCHANGED <<cache, store, ops>>

\* dora stop fails, before or after it stopped the flow.
HaltFails(p) ==
  /\ ProcessAt(p, "halt") /\ InstFault
  /\ FlowIs("failed", flowOf)
  /\ Ends(p) /\ Release(p)
  /\ UNCHANGED <<cache, store, ops>>

(* status takes no lock: it reads the file, notes whether a start is under  *)
(* way, probes the flow and the Gateway, and saves what it makes of them.   *)
ReadStatus(p) ==
  /\ ProcessAt(p, "status")
  /\ \/ (bundle = Missing \/ ~whole \/ runtime = "none") /\ Ends(p)
     \/ /\ bundle # Missing /\ runtime # "none"
        /\ proc' = [proc EXCEPT ![p].pc = "probe", ![p].st = runtime, ![p].busy = holder # {}]
  /\ UNCHANGED <<cache, store, flow, holder, ops, instFaults>>

\* What status saves over st; a live flow may not be ready, and dora list may miss it.
Reconciled(st, busy, ready, listed) ==
  CASE ready /\ st \in {"starting", "running", "failed"} -> "running"
    [] st = "stopping" /\ ~listed -> "stopped"
    [] ~ready /\ (st = "running" \/ (st = "starting" /\ ~busy)) -> "failed"
    [] OTHER -> st

ProbeFlow(p) ==
  /\ ProcessAt(p, "probe")
  /\ \E ready, listed \in BOOLEAN :
       LET st == Reconciled(proc[p].st, proc[p].busy, ready, listed)
       IN  /\ ready => listed
           /\ listed => flowOf # Missing
           /\ IF st = proc[p].st THEN Ends(p)
              ELSE proc' = [proc EXCEPT ![p].pc = "save", ![p].st = st]
  /\ UNCHANGED <<cache, store, flow, holder, ops, instFaults>>

SaveStatus(p) ==
  /\ ProcessAt(p, "save")
  /\ FlowIs(proc[p].st, flowOf) /\ Ends(p)
  /\ UNCHANGED <<cache, store, holder, ops, instFaults>>

\* The flow ends by itself.
FlowDies ==
  /\ flowOf # Missing /\ InstFault
  /\ FlowIs(runtime, Missing)
  /\ UNCHANGED <<cache, store, holder, proc, ops>>

(* The process dies, or its rollback raises: the lock is released. *)
Dies(p) ==
  /\ ~ProcessAt(p, "idle") /\ InstFault
  /\ Ends(p) /\ Release(p)
  /\ UNCHANGED <<cache, store, flow, ops>>

InstNext ==
  \/ \E p \in Process :
       \/ \E op \in {"install", "remove", "start", "stop", "status"}, v \in Version \cup {Missing} :
            Begin(p, op, v)
       \/ Cached(p) \/ BrokenOff(p) \/ Commit(p) \/ Preview(p) \/ InstallNode(p)
       \/ \E fresh \in BOOLEAN, c \in Chunk : Receive(p, fresh, c)
       \/ TakeLock(p) \/ Refused(p)
       \/ MoveAside(p) \/ Place(p) \/ PlaceFails(p) \/ Undo(p) \/ UndoFails(p)
       \/ MoveAway(p) \/ Delete(p) \/ DeleteFails(p)
       \/ CheckStarted(p) \/ SaveStart(p) \/ StartFlow(p)
       \/ Launched(p) \/ LaunchFails(p)
       \/ SaveStop(p) \/ StopFlow(p) \/ Halted(p) \/ HaltFails(p)
       \/ ReadStatus(p) \/ ProbeFlow(p) \/ SaveStatus(p)
       \/ Dies(p)
  \/ FlowDies

-----------------------------------------------------------------------------
(* A flow that runs keeps the bundle it was started from and its node,     *)
(* whoever installs, removes, fails or dies, as long as the state file has *)
(* not said since it came up that it is not active: a status that found it *)
(* not ready, or a stop or a rollback that failed, gives the bundle up.    *)
RuntimeKeepsBundle ==
  flowOf # Missing /\ ~lapsed => bundle = flowOf /\ flowOf \in nodes

(* "while retaining a backup": no step of an update, of its failure or of   *)
(* its rollback takes the last copy of an installed version from the       *)
(* machine; only a removal does.                                           *)
Kept == ({bundle} \cup backups) \ {Missing}
UpdateKeepsVersion ==
  [][\A v \in Kept \ Kept' :
       \E p \in Process : proc[p].op = "remove" /\ ProcessAt(p, "locked") /\ bundle = v]_instVars
=============================================================================
