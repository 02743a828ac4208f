-------------------------- MODULE MCServices_proofs --------------------------
(***************************************************************************)
(* The composition of MCServices, for every value of its constants: a      *)
(* behaviour of the whole is, seen through the variables of one part, a    *)
(* behaviour of that part, so that what Services_proofs,                   *)
(* SkillServices_proofs and Channels_proofs prove of the parts holds of    *)
(* the specification the run checks.                                       *)
(***************************************************************************)
EXTENDS MCServices, Services_proofs, SkillServices_proofs, Channels_proofs

LEMMA ExperiencePart == Spec => ExpSpec
<1>1. Init => ExpInit
  BY DEF Init
<1>2. [Next]_vars => [ExpNext]_expVars
  BY DEF Next, vars, ExperienceStep
<1> QED BY <1>1, <1>2, PTL DEF Spec, ExpSpec

LEMMA InstallationPart == Spec => InstSpec
<1>1. Init => InstInit
  BY DEF Init
<1>2. [Next]_vars => [InstNext]_instVars
  BY DEF Next, vars, InstallationStep
<1> QED BY <1>1, <1>2, PTL DEF Spec, InstSpec

LEMMA SwitchPart == Spec => SwitchSpec
<1>1. Init => SwitchInit
  BY DEF Init
<1>2. [Next]_vars => [SwitchNext]_switchVars
  BY DEF Next, vars, SwitchStep
<1> QED BY <1>1, <1>2, PTL DEF Spec, SwitchSpec

LEMMA ChatsPart == Spec => ChatSpec
<1>1. Init => ChatInit
  BY DEF Init
<1>2. [Next]_vars => [ChatNext]_chatVars
  BY DEF Next, vars, ChatsStep
<1> QED BY <1>1, <1>2, PTL DEF Spec, ChatSpec

LEMMA ProviderPart == Spec => ProviderSpec
<1>1. Init => ProviderInit
  BY DEF Init
<1>2. [Next]_vars => [ProviderNext]_providerVars
  BY DEF Next, vars, ProvidersStep
<1> QED BY <1>1, <1>2, PTL DEF Spec, ProviderSpec

LEMMA EvidencePart == Spec => EvidenceSpec
<1>1. Init => EvidenceInit
  BY DEF Init
<1>2. [Next]_vars => [EvidenceNext]_evidenceVars
  BY DEF Next, vars, EvidenceStep
<1> QED BY <1>1, <1>2, PTL DEF Spec, EvidenceSpec

LEMMA VerifierPart == Spec => VerifierSpec
<1>1. Init => VerifierInit
  BY DEF Init
<1>2. [Next]_vars => [VerifierNext]_verifierVars
  BY DEF Next, vars, VerifierStep
<1> QED BY <1>1, <1>2, PTL DEF Spec, VerifierSpec

LEMMA ActivationPart == Spec => ActivationSpec
<1>1. Init => ActivationInit
  BY DEF Init
<1>2. [Next]_vars => [ActivationNext]_activationVars
  BY DEF Next, vars, ActivationStep
<1> QED BY <1>1, <1>2, PTL DEF Spec, ActivationSpec

LEMMA GatewayPart == Spec => GatewaySpec
<1>1. Init => GatewayInit
  BY DEF Init
<1>2. [Next]_vars => [GatewayNext]_gatewayVars
  BY DEF Next, vars, GatewayStep
<1> QED BY <1>1, <1>2, PTL DEF Spec, GatewaySpec

LEMMA MochatPart == Spec => MochatSpec
<1>1. Init => MochatInit
  BY DEF Init
<1>2. [Next]_vars => [MochatNext]_mochatVars
  BY DEF Next, vars, MochatSessionStep, MochatPanelStep
<1> QED BY <1>1, <1>2, PTL DEF Spec, MochatSpec

(* Whichever part is at work, the values of its variables combine as its    *)
(* code says: for any Skills, Runtimes, tasks, messages, senders, workers,  *)
(* frames and bounds, and whatever fails (skill_runtime/integration.py,     *)
(* forge/observation.py, verification/service.py, agent/experience,         *)
(* channels and providers).                                                *)
THEOREM EveryPartTyped == Spec => []TypeOK
<1>1. Init => component \in Components
  BY DEF Init
<1>2. component \in Components /\ [Next]_vars => (component \in Components)'
  BY DEF Next, vars
<1>3. Spec => [](component \in Components)
  BY <1>1, <1>2, PTL DEF Spec
<1>4. Spec => []ExpTypeOK
  BY ExperiencePart, ExperienceTyped, PTL
<1>5. Spec => []InstTypeOK
  BY InstallationPart, OneHolder, PTL
<1>6. Spec => []SwitchTypeOK
  BY SwitchPart, FilesStayTyped, PTL
<1>7. Spec => []ChatTypeOK
  BY ChatsPart, MemoryBounded, PTL
<1>8. Spec => []ProviderTypeOK
  BY ProviderPart, OneConfigurationTaken, PTL
<1>9. Spec => []EvidenceTypeOK
  BY EvidencePart, ReferenceHasFile, PTL
<1>10. Spec => []VerifierTypeOK
  BY VerifierPart, OneChildListens, PTL
<1>11. Spec => []ActivationTypeOK
  BY ActivationPart, OneBinding, PTL
<1>12. Spec => []GatewayTypeOK
  BY GatewayPart, OpenStacksWereMade, PTL
<1>13. Spec => []MochatTypeOK
  BY MochatPart, SeenBounded, PTL
<1>14. /\ component \in Components
       /\ ExpTypeOK /\ InstTypeOK /\ SwitchTypeOK /\ ChatTypeOK /\ ProviderTypeOK
       /\ EvidenceTypeOK /\ VerifierTypeOK /\ ActivationTypeOK /\ GatewayTypeOK /\ MochatTypeOK
       => TypeOK
  BY DEF Components, TypeOK
<1> QED BY <1>3, <1>4, <1>5, <1>6, <1>7, <1>8, <1>9, <1>10, <1>11, <1>12, <1>13, <1>14, PTL

(* What each part promises holds in the composition, all of it at once:     *)
(* Lessons are earned and Skills are promoted on evidence                   *)
(* (agent/experience/store.py), a running bundle stays and no update loses  *)
(* the version it had (skill_runtime/installer.py), one Runtime serves      *)
(* (skill_runtime/integration.py), the verifier judges fresh evidence       *)
(* (forge/observation.py) for a task bound to one moment                    *)
(* (forge/binding.py), stopping leaves no child (verification/service.py),  *)
(* no message of a chat or a session is repeated, lost or stuck (channels), *)
(* selections hold (providers), and shutdown leaves no connection           *)
(* (cli/commands.py).                                                      *)
THEOREM EveryPromiseKept ==
  Spec => /\ [](/\ LessonEarned /\ RuntimeKeepsBundle /\ OneRuntime /\ AcceptedIsFresh
                /\ BoundToOneMoment /\ StopLeavesNoChild /\ ConversationKept /\ MochatDelivers
                /\ SelectionsHold)
          /\ PromotionEarned /\ UpdateKeepsVersion /\ GatewayConnections
<1>1. Spec => []LessonEarned /\ PromotionEarned
  BY ExperiencePart, LessonsAreEarned, PromotionsAreEarned, PTL
<1>2. Spec => []RuntimeKeepsBundle /\ UpdateKeepsVersion
  BY InstallationPart, BundleStays, OnlyRemovalLoses, PTL
<1>3. Spec => []OneRuntime
  BY SwitchPart, OneRuntimeServes, PTL
<1>4. Spec => []AcceptedIsFresh
  BY EvidencePart, EvidenceIsFresh, PTL
<1>5. Spec => []BoundToOneMoment
  BY ActivationPart, BoundAtOnce, PTL
<1>6. Spec => []StopLeavesNoChild
  BY VerifierPart, NoChildLeft, PTL
<1>7. Spec => []ConversationKept
  BY ChatsPart, KeepsConversation, PTL
<1>8. Spec => []MochatDelivers
  BY MochatPart, MochatHandsOver, PTL
<1>9. Spec => []SelectionsHold
  BY ProviderPart, SelectionsAlwaysHold, PTL
<1>10. Spec => GatewayConnections
  BY GatewayPart, NothingEscapesShutdown, PTL
<1> QED BY <1>1, <1>2, <1>3, <1>4, <1>5, <1>6, <1>7, <1>8, <1>9, <1>10, PTL
==============================================================================
