----------------------------- MODULE Activation ------------------------------
(***************************************************************************)
(* From activate_skill to the frozen binding of an AgentTask               *)
(* (agent/experience/activation.py, forge/binding.py, create_task of       *)
(* forge/task.py): what a turn is told about a Skill, what its Runtime and *)
(* its bundle were at that time, and what the task is bound to, while the  *)
(* Runtime is replaced, its ToolSpecs change and the bundle is edited      *)
(* between the awaits of the preview.                                      *)
(*                                                                         *)
(* One Skill of one version.  A chat turn and the direct turns of cron and *)
(* heartbeat run at once, and share the session key of the tools.          *)
(***************************************************************************)
EXTENDS Naturals, Sequences, FiniteSets

CONSTANTS
  Conversation,   \* session keys, each with one turn at a time
  NoConversation, \* the session key of the tools before the first turn
  Instance,       \* Runtime instances ever started
  NoInstance,     \* no Runtime, or one of another Skill
  Tools,          \* number of required Tools of the Skill
  Content,        \* what a ToolSpec, SKILL.md or skill.yaml may say: their hashes
  FirstContent,   \* what they say at first
  MaxTurns,       \* bound: turns of one conversation
  MaxChanges,     \* bound: new contents of the ToolSpecs and the bundle, and ends of a Runtime
  MaxRestored     \* bound: contents brought back

ASSUME ActivationAssumption ==
  /\ NoInstance \notin Instance /\ NoConversation \notin Conversation
  /\ FirstContent \in Content
  /\ Tools \in Nat \ {0} /\ MaxTurns \in Nat \ {0} /\ MaxChanges \in Nat
  /\ MaxRestored \in Nat

VARIABLES
  started,    \* instances that were started
  active,     \* the instance ActiveRuntimeRegistry.current returns
  gateway,    \* the instance that answers at the Gateway address of the Skill
  content,    \* content[p]: what part p says now
  former,     \* former[p]: what it said before and was changed (history, for BoundToOneMoment),
  restored,   \* and how many times such a content was brought back
  changes,    \* changes so far
  routed,     \* session_key of activate_skill and forge_task_create
  context,    \* context[k]: its turn number, and the activation made in it
  candidates, \* ForgeSkillBindingResolver._candidates
  skillTurn,       \* skillTurn[k]: where the turn stands
  bindings    \* the binding of the non-terminal task, if there is one

activationVars == <<started, active, gateway, content, former, restored, changes, routed, context,
                    candidates, skillTurn, bindings>>

-----------------------------------------------------------------------------
(* What a binding is made of: the ToolSpecs of an instance, and two files   *)
(* of the installed bundle.                                                 *)
ToolSpec(i, t) == <<i, t>>
Document == <<NoInstance, 1>>
Manifest == <<NoInstance, 2>>
Part == (Instance \X (1..Tools)) \cup {Document, Manifest}
Specs == [1..Tools -> Content]
NoSkillTurn == [pc |-> "none", known |-> {}]

(* A candidate is filed under the Runtime instance and the ToolSpecs only. *)
Candidate == [instance: Instance, specs: Specs, document: Content, manifest: Content]
SameId(c, d) == c.instance = d.instance /\ c.specs = d.specs
\* For the mutant of Filed: the older candidate of that name stays.
FiledBeside(c) == candidates \cup {c}
Filed(c) == {d \in candidates : ~SameId(c, d)} \cup {c}

ActivationTypeOK ==
  /\ started \subseteq Instance
  /\ active \in started \cup {NoInstance} /\ gateway \in started \cup {NoInstance}
  /\ content \in [Part -> Content] /\ former \in [Part -> SUBSET Content]
  /\ changes \in 0..MaxChanges /\ restored \in 0..MaxRestored
  /\ routed \in Conversation \cup {NoConversation}
  /\ candidates \subseteq Candidate
  /\ \A c, d \in candidates : SameId(c, d) => c = d
  /\ \A k \in Conversation :
       /\ context[k].number \in 0..MaxTurns /\ Cardinality(context[k].made) <= 1
       /\ skillTurn[k].pc \in {"none", "begun", "talk", "activate", "create"}
       /\ Cardinality(skillTurn[k].known) <= 1
  /\ Cardinality(bindings) <= 1

ActivationInit ==
  /\ started = {} /\ active = NoInstance /\ gateway = NoInstance
  /\ content = [p \in Part |-> FirstContent] /\ former = [p \in Part |-> {}]
  /\ changes = 0 /\ restored = 0
  /\ routed = NoConversation
  /\ context = [k \in Conversation |-> [number |-> 0, made |-> {}]]
  /\ candidates = {} /\ bindings = {}
  /\ skillTurn = [k \in Conversation |-> NoSkillTurn]

instances == <<started, active, gateway>>
parts == <<content, former, restored>>
world == <<instances, parts, changes>>
agentState == <<routed, context, candidates, skillTurn, bindings>>
TurnAt(k, pc) == skillTurn[k].pc = pc
Talks(k) == skillTurn' = [skillTurn EXCEPT ![k] =
                       [pc |-> "talk", known |-> skillTurn[k].known]]

-----------------------------------------------------------------------------
Change == changes < MaxChanges /\ changes' = changes + 1

(* The part says something else, new or what it said before. *)
Becomes(p, v) ==
  /\ v # content[p]
  /\ content' = [content EXCEPT ![p] = v]
  /\ former' = [former EXCEPT ![p] = former[p] \cup {content[p]}]
  /\ \/ v \notin former[p] /\ Change /\ UNCHANGED restored
     \/ v \in former[p] /\ restored < MaxRestored /\ restored' = restored + 1 /\ UNCHANGED changes

(* The Runtime is stopped by force, or dies, its Gateway with it or later;  *)
(* another instance may answer at the same address before its state file    *)
(* says that it runs.                                                       *)
StopInstance ==
  /\ Change /\ active # NoInstance /\ active' = NoInstance
  /\ gateway' \in {gateway, NoInstance}
  /\ UNCHANGED <<started, parts, agentState>>

GatewayEnds ==
  /\ Change /\ gateway # NoInstance /\ gateway' = NoInstance
  /\ UNCHANGED <<started, active, parts, agentState>>

GatewayStarts ==
  /\ active = NoInstance /\ gateway = NoInstance
  /\ gateway' \in Instance \ started
  /\ started' = started \cup {gateway'}
  /\ UNCHANGED <<active, parts, changes, agentState>>

InstanceStarts ==
  /\ active = NoInstance /\ gateway # NoInstance /\ active' = gateway
  /\ UNCHANGED <<started, gateway, parts, changes, agentState>>

SpecChanges(t) ==
  /\ gateway # NoInstance
  /\ \E v \in Content : Becomes(ToolSpec(gateway, t), v)
  /\ UNCHANGED <<instances, agentState>>

EditBundle ==
  /\ \E p \in {Document, Manifest}, v \in Content : Becomes(p, v)
  /\ UNCHANGED <<instances, agentState>>

-----------------------------------------------------------------------------
(* A turn empties the context of its conversation; the tools are pointed to *)
(* it later, after the memory was consolidated.                             *)
BeginTurn(k) ==
  /\ TurnAt(k, "none") /\ context[k].number < MaxTurns
  /\ context' = [context EXCEPT ![k] = [number |-> @.number + 1, made |-> {}]]
  /\ skillTurn' = [skillTurn EXCEPT ![k] = [pc |-> "begun", known |-> {}]]
  /\ UNCHANGED <<world, routed, candidates, bindings>>

SetToolContext(k) ==
  /\ TurnAt(k, "begun")
  /\ routed' = k
  /\ Talks(k)
  /\ UNCHANGED <<world, context, candidates, bindings>>

EndTurn(k) ==
  /\ TurnAt(k, "talk")
  /\ skillTurn' = [skillTurn EXCEPT ![k] = NoSkillTurn]
  /\ UNCHANGED <<world, routed, context, candidates, bindings>>

(* activate reads SKILL.md, and preview the Runtime of this moment. *)
ActivateSkill(k) ==
  /\ TurnAt(k, "talk") /\ active # NoInstance
  /\ skillTurn' = [skillTurn EXCEPT ![k] =
       [pc |-> "activate", known |-> @.known, key |-> routed,
        told |-> content[Document], runtime |-> active, got |-> <<>>]]
  /\ UNCHANGED <<world, routed, context, candidates, bindings>>

(* One ToolSpec after the other, from whoever answers at the address. *)
PreviewTool(k) ==
  /\ TurnAt(k, "activate") \/ TurnAt(k, "create")
  /\ Len(skillTurn[k].got) < Tools /\ gateway # NoInstance
  /\ skillTurn' = [skillTurn EXCEPT ![k].got = Append(@, content[ToolSpec(gateway, Len(@) + 1)])]
  /\ UNCHANGED <<world, routed, context, candidates, bindings>>

(* No answer, an error, or a Tool that is not ready. *)
PreviewFails(k) ==
  /\ TurnAt(k, "activate") \/ TurnAt(k, "create")
  /\ Talks(k)
  /\ UNCHANGED <<world, routed, context, candidates, bindings>>

Previewed(k) == [instance |-> skillTurn[k].runtime, specs |-> skillTurn[k].got,
                 document |-> content[Document], manifest |-> content[Manifest]]

(* The first activation of a context stays; a repeated one returns it. *)
FinishActivation(k) ==
  /\ TurnAt(k, "activate") /\ Len(skillTurn[k].got) = Tools
  /\ LET key == skillTurn[k].key
         new == [key |-> key, number |-> context[key].number, told |-> skillTurn[k].told,
                 instance |-> skillTurn[k].runtime, specs |-> skillTurn[k].got]
         made == IF context[key].made = {} THEN {new} ELSE context[key].made
     IN /\ context' = [context EXCEPT ![key].made = made]
        /\ skillTurn' = [skillTurn EXCEPT ![k] =
                      [pc |-> "talk", known |-> made]]
  /\ candidates' = Filed(Previewed(k))
  /\ UNCHANGED <<world, routed, bindings>>

-----------------------------------------------------------------------------
(* The Runtime and its bundle, as they are: for BoundToOneMoment. *)
ThisMoment == [instance |-> active,
               specs |-> [t \in 1..Tools |-> content[ToolSpec(active, t)]],
               document |-> content[Document], manifest |-> content[Manifest]]

(* forge_task_create with an activation of the context the tools point to;  *)
(* freeze takes the candidate and previews the Runtime once more.           *)
CreateBound(k) ==
  /\ TurnAt(k, "talk") /\ active # NoInstance
  /\ \E a \in skillTurn[k].known \cap context[routed].made :
       \E c \in candidates :
         /\ c.instance = a.instance /\ c.specs = a.specs
         /\ skillTurn' = [skillTurn EXCEPT ![k] =
              [pc |-> "create", known |-> @.known, told |-> a.told,
               candidate |-> c, runtime |-> active, got |-> <<>>,
               moment |-> ThisMoment, restored |-> restored]]
  /\ UNCHANGED <<world, routed, context, candidates, bindings>>

\* For the mutant of Unchanged: the candidate only says which Skill is meant.
SameRuntime(current, c) == current.instance = c.instance

Unchanged(current, c) == current = c

(* The store takes one non-terminal task. *)
FreezeBinding(k) ==
  /\ TurnAt(k, "create") /\ Len(skillTurn[k].got) = Tools
  /\ LET t == skillTurn[k]
         current == Previewed(k)
     IN bindings' = IF Unchanged(current, t.candidate) /\ t.told = current.document
                       /\ bindings = {}
                      THEN {[frozen |-> current, moment |-> t.moment,
                             served |-> active = current.instance,
                             calm |-> restored = t.restored]}
                      ELSE bindings
  /\ candidates' = Filed(Previewed(k))
  /\ Talks(k)
  /\ UNCHANGED <<world, routed, context>>

TaskEnds ==
  /\ bindings # {} /\ bindings' = {}
  /\ UNCHANGED <<world, routed, context, candidates, skillTurn>>

ActivationNext ==
  \/ StopInstance
  \/ GatewayEnds
  \/ GatewayStarts
  \/ InstanceStarts
  \/ \E t \in 1..Tools : SpecChanges(t)
  \/ EditBundle
  \/ \E k \in Conversation : BeginTurn(k)
  \/ \E k \in Conversation : SetToolContext(k)
  \/ \E k \in Conversation : EndTurn(k)
  \/ \E k \in Conversation : ActivateSkill(k)
  \/ \E k \in Conversation : PreviewTool(k)
  \/ \E k \in Conversation : PreviewFails(k)
  \/ \E k \in Conversation : FinishActivation(k)
  \/ \E k \in Conversation : CreateBound(k)
  \/ \E k \in Conversation : FreezeBinding(k)
  \/ TaskEnds

-----------------------------------------------------------------------------
(* Unless a part of it took back an earlier content while the task was      *)
(* created, what a task is bound to existed, all of it at once: at the      *)
(* moment its creation began, the Runtime, its ToolSpecs, skill.yaml and    *)
(* SKILL.md were what the binding says, although both previews read them    *)
(* one after the other with awaits in between, and another turn may have    *)
(* replaced the candidate that was filed (forge/binding.py:102, :165).  The *)
(* two readings compare hashes of contents (forge/binding.py:133, :169), so *)
(* a change that is undone between them is not seen.  Only a Runtime that   *)
(* was replaced before the creation ended may differ too; the first Tool    *)
(* call finds the other instance and is refused (forge/binding.py:192).     *)
BoundToOneMoment ==
  \A b \in bindings : b.served /\ b.calm => b.frozen = b.moment
=============================================================================
