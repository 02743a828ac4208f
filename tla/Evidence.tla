------------------------------ MODULE Evidence -------------------------------
(***************************************************************************)
(* The evidence of one verified AgentTask: the collector that listens to   *)
(* the Gateway before the first Action and after the last one              *)
(* (forge/observation.py), the files it leaves (forge/evidence.py), and    *)
(* the checks a bundle passes before the verifier sees it                  *)
(* (verification/request_builder.py).                                      *)
(*                                                                         *)
(* Any actor starts Actions; one actor at a time finalizes, which the lock *)
(* around a turn sees to for chat turns only.                              *)
(*                                                                         *)
(* Time is the number of record updates so far.  A moment strictly between *)
(* update k and update k+1 is written k, and so is update k itself: what   *)
(* was observed at k is not older than update j iff k >= j, and what was   *)
(* captured at k is not younger than update j iff k < j.                   *)
(***************************************************************************)
EXTENDS Naturals, FiniteSets

CONSTANTS
  Source,           \* image sources of the Gateway
  Actor,            \* coroutines that work on the task
  MaxFrames,        \* bound: frames of one source, in one life of the Gateway
  MaxActions,       \* bound: Actions of the task
  MaxEvidenceFaults \* bound: Gateway restarts, and crashes of the Agent

ASSUME EvidenceAssumption ==
  MaxFrames \in Nat /\ MaxActions \in Nat /\ MaxEvidenceFaults \in Nat

VARIABLES
  required,  \* forge.evidence.requiredImageSources
  policy,    \* the task's evidence policy: [kinds, sources]
  frame,     \* frame[s]: sequence of the newest frame the Gateway holds; 0: none
  actions,   \* Actions sent, and
  running,   \* those of them that have not ended
  updates,   \* updates of execution records
  beforeRef, \* the task has a before_snapshot_ref
  file,      \* before_snapshot.json with its artifacts
  actor,      \* actor[a]: where actor a awaits, and what it holds
  evidenceFaults

evidenceVars == <<required, policy, frame, actions, running, updates, beforeRef, file, actor,
                  evidenceFaults>>

-----------------------------------------------------------------------------
(* A snapshot holds an image of some sources and at most one robot state. *)
Moment == 0..2 * MaxActions
Image == [seq: 1..MaxFrames, at: Moment]
Images == UNION {[held -> Image] : held \in SUBSET Source}
NoImages == [s \in {} |-> 0]
Snapshot == [images: Images, state: SUBSET Moment, at: Moment]
NoSnapshot == [images |-> NoImages, state |-> {}, at |-> 0, missing |-> TRUE]

Collector == [images |-> NoImages, state |-> {}]
Free == [pc |-> "free"]
NeedsState == "robot_state" \in policy.kinds

(* Collecting actors: what they hold so far, the before snapshot they      *)
(* compare with, and the terminal moment of the task.                      *)
Collecting(a) == actor[a].pc \in {"before", "after"}
Finalizing(a) == actor[a].pc \in {"after", "judge", "verify"}
Follow(a, where) == actor' = [actor EXCEPT ![a] = where]

EvidenceTypeOK ==
  /\ required \in SUBSET Source
  /\ policy \in [kinds: SUBSET {"rgb_image", "robot_state"}, sources: SUBSET Source]
  /\ frame \in [Source -> 0..MaxFrames] /\ actions \in 0..MaxActions
  /\ running \in 0..actions /\ updates \in Moment /\ beforeRef \in BOOLEAN
  /\ file = NoSnapshot \/ file \in Snapshot
  /\ \A a \in Actor : actor[a].pc \in {"free", "before", "send", "after", "judge", "verify"}
  /\ \A a \in Actor : Collecting(a) => /\ actor[a].held.images \in Images
                                       /\ Cardinality(actor[a].held.state) <= 1
  /\ beforeRef => file # NoSnapshot
  /\ evidenceFaults \in 0..MaxEvidenceFaults

EvidenceInit ==
  /\ required \in SUBSET Source
  /\ policy \in [kinds: {{"rgb_image"}, {"rgb_image", "robot_state"}}, sources: SUBSET Source]
  /\ frame = [s \in Source |-> 0] /\ actions = 0 /\ running = 0 /\ updates = 0
  /\ beforeRef = FALSE /\ file = NoSnapshot /\ actor = [a \in Actor |-> Free]
  /\ evidenceFaults = 0

contract == <<required, policy>>
execution == <<actions, running, updates>>
evidenceFiles == <<beforeRef, file>>

-----------------------------------------------------------------------------
(* The Gateway: frames of a camera are numbered, from 1 after a restart. *)
NewFrame(s) ==
  /\ frame[s] < MaxFrames
  /\ frame' = [frame EXCEPT ![s] = @ + 1]
  /\ UNCHANGED <<contract, execution, evidenceFiles, actor, evidenceFaults>>

RestartGateway ==
  /\ evidenceFaults < MaxEvidenceFaults /\ evidenceFaults' = evidenceFaults + 1
  /\ frame' = [s \in Source |-> 0]
  /\ UNCHANGED <<contract, execution, evidenceFiles, actor>>

-----------------------------------------------------------------------------
\* Nothing reads when a before image or state was received.
ReceivedAt(a) == IF actor[a].pc = "after" THEN updates ELSE 0

(* The collector keeps the newest frame of each source it was asked for, or *)
(* of every source; a frame may be lost, or sent again on a new connection. *)
ReceiveImage(a, s) ==
  /\ Collecting(a) /\ frame[s] > 0
  /\ required = {} => NeedsState \* otherwise the capture returns without waiting
  /\ required = {} \/ s \in required
  /\ LET held == actor[a].held.images IN
       /\ s \in DOMAIN held => frame[s] > held[s].seq
       /\ actor' = [actor EXCEPT ![a].held.images =
            [t \in DOMAIN held \cup {s} |->
               IF t = s THEN [seq |-> frame[s], at |-> ReceivedAt(a)] ELSE held[t]]]
  /\ UNCHANGED <<contract, frame, execution, evidenceFiles, evidenceFaults>>

ReceiveState(a) ==
  /\ Collecting(a) /\ actor[a].held.state # {ReceivedAt(a)}
  /\ required = {} => NeedsState
  /\ actor' = [actor EXCEPT ![a].held.state = {ReceivedAt(a)}]
  /\ UNCHANGED <<contract, frame, execution, evidenceFiles, evidenceFaults>>

HasAll(held) == required \subseteq DOMAIN held.images /\ (NeedsState => held.state # {})

ReadyAfter(held, before, terminal) ==
  /\ HasAll(held)
  /\ \A s \in required :
       /\ s \in DOMAIN before.images
       /\ held.images[s].seq > before.images[s].seq
       /\ held.images[s].at >= terminal
  /\ NeedsState => \A k \in held.state : k >= terminal

TakenNow(held) == [images |-> held.images, state |-> held.state, at |-> updates]
NotOlder(held, terminal) == [held EXCEPT !.state = {k \in @ : k >= terminal}]

-----------------------------------------------------------------------------
(* start_action: a task without before snapshot captures one first.  *)
StartCapture(a) ==
  /\ actor[a] = Free /\ actions < MaxActions
  /\ Follow(a, IF beforeRef THEN [pc |-> "send", ref |-> TRUE]
                            ELSE [pc |-> "before", held |-> Collector])
  /\ UNCHANGED <<contract, frame, execution, evidenceFiles, evidenceFaults>>

TakeBefore(a) ==
  /\ actor[a].pc = "before" /\ HasAll(actor[a].held)
  /\ file' = TakenNow(actor[a].held)
  /\ Follow(a, [pc |-> "send", ref |-> TRUE])
  /\ UNCHANGED <<contract, frame, execution, beforeRef, evidenceFaults>>

MissBefore(a) ==
  /\ actor[a].pc = "before" /\ (required # {} \/ NeedsState)
  /\ Follow(a, [pc |-> "send", ref |-> FALSE])
  /\ UNCHANGED <<contract, frame, execution, evidenceFiles, evidenceFaults>>

(* The collector closes, the reference is stored, or None, and the Action  *)
(* is recorded and sent all the same.                                      *)
SendAction(a) ==
  /\ actor[a].pc = "send" /\ actions < MaxActions
  /\ beforeRef' = actor[a].ref
  /\ actions' = actions + 1 /\ running' = running + 1 /\ updates' = updates + 1
  /\ Follow(a, Free)
  /\ UNCHANGED <<contract, frame, file, evidenceFaults>>

EndAction ==
  /\ running > 0 /\ running' = running - 1 /\ updates' = updates + 1
  /\ UNCHANGED <<contract, frame, actions, evidenceFiles, actor, evidenceFaults>>

-----------------------------------------------------------------------------
(* finalize_task: nothing runs, so the last update is the terminal moment. *)
BeginFinalize(a) ==
  /\ actor[a] = Free /\ running = 0 /\ actions > 0
  /\ ~\E b \in Actor : Finalizing(b)
  /\ Follow(a, [pc |-> "after", held |-> Collector, terminal |-> updates,
                before |-> IF beforeRef THEN file ELSE NoSnapshot])
  /\ UNCHANGED <<contract, frame, execution, evidenceFiles, evidenceFaults>>

(* Without a before snapshot any snapshot ends the wait.  The actor that    *)
(* finalizes is the only one that writes after_snapshot.json.              *)
TakeAfter(a) ==
  /\ actor[a].pc = "after"
  /\ LET w == actor[a]
         known == w.before # NoSnapshot
     IN /\ IF known THEN ReadyAfter(w.held, w.before, w.terminal) ELSE HasAll(w.held)
        /\ Follow(a, [pc |-> "judge", terminal |-> w.terminal, known |-> known, after |->
                        TakenNow(IF known THEN NotOlder(w.held, w.terminal) ELSE w.held)])
  /\ UNCHANGED <<contract, frame, execution, evidenceFiles, evidenceFaults>>

(* The bundle is written without it, and is incomplete: a verification error. *)
MissAfter(a) ==
  /\ actor[a].pc = "after"
  /\ Follow(a, Free)
  /\ UNCHANGED <<contract, frame, execution, evidenceFiles, evidenceFaults>>

(* The bundle is built from the files of this moment. *)
Complete(snap) ==
  /\ required \subseteq DOMAIN snap.images
  /\ "rgb_image" \in policy.kinds => DOMAIN snap.images # {}
  /\ NeedsState => snap.state # {}

\* For the mutant of WindowOrdered: the before snapshot may be of any time.
WindowAfter(before, terminal, after) == terminal <= after.at

WindowOrdered(before, terminal, after) == before.at < terminal /\ terminal <= after.at

MeetsPolicy(snap) ==
  "rgb_image" \in policy.kinds => policy.sources \subseteq DOMAIN snap.images

ValidBundle(chosen) ==
  /\ Complete(chosen.before) /\ Complete(chosen.after)
  /\ WindowOrdered(chosen.before, chosen.terminal, chosen.after)
  /\ MeetsPolicy(chosen.before) /\ MeetsPolicy(chosen.after)

(* A valid bundle goes to the verifier; any other is a verification error. *)
JudgeBundle(a) ==
  /\ actor[a].pc = "judge"
  /\ LET w == actor[a]
         chosen == [before |-> file, terminal |-> w.terminal, after |-> w.after]
     IN Follow(a, IF w.known /\ ValidBundle(chosen)
                    THEN [pc |-> "verify", bundle |-> chosen] ELSE Free)
  /\ UNCHANGED <<contract, frame, execution, evidenceFiles, evidenceFaults>>

(* Whatever the verdict, the task may go on: a recovery opens a revision. *)
TakeVerdict(a) ==
  /\ actor[a].pc = "verify"
  /\ Follow(a, Free)
  /\ UNCHANGED <<contract, frame, execution, evidenceFiles, evidenceFaults>>

(* The Agent dies; robot, Gateway and files stay. *)
CrashAgent ==
  /\ evidenceFaults < MaxEvidenceFaults /\ evidenceFaults' = evidenceFaults + 1
  /\ actor' = [a \in Actor |-> Free]
  /\ UNCHANGED <<contract, frame, execution, evidenceFiles>>

EvidenceNext ==
  \/ \E s \in Source : NewFrame(s)
  \/ RestartGateway
  \/ \E a \in Actor, s \in Source : ReceiveImage(a, s)
  \/ \E a \in Actor : ReceiveState(a)
  \/ \E a \in Actor : StartCapture(a)
  \/ \E a \in Actor : TakeBefore(a)
  \/ \E a \in Actor : MissBefore(a)
  \/ \E a \in Actor : SendAction(a)
  \/ EndAction
  \/ \E a \in Actor : BeginFinalize(a)
  \/ \E a \in Actor : TakeAfter(a)
  \/ \E a \in Actor : MissAfter(a)
  \/ \E a \in Actor : JudgeBundle(a)
  \/ \E a \in Actor : TakeVerdict(a)
  \/ CrashAgent

-----------------------------------------------------------------------------
(* What the verifier gets shows the scene before and after: of every       *)
(* required source the after image is a later frame than the before image, *)
(* received when every Action had ended that had been sent when the        *)
(* finalization began, and the robot state is not older either; the before *)
(* snapshot precedes that moment.  Two actors that both capture a before   *)
(* snapshot write the same files, so what is compared at the capture and   *)
(* what the bundle holds may differ (forge/observation.py:167,             *)
(* forge/evidence.py:154, verification/request_builder.py:369).            *)
AcceptedIsFresh ==
  \A a \in Actor : actor[a].pc = "verify" =>
    LET chosen == actor[a].bundle IN
      /\ chosen.before.at < chosen.terminal
      /\ \A k \in chosen.after.state : k >= chosen.terminal
      /\ \A s \in required :
           /\ chosen.after.images[s].seq > chosen.before.images[s].seq
           /\ chosen.after.images[s].at >= chosen.terminal
=============================================================================
