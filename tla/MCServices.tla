----------------------------- MODULE MCServices ------------------------------
(***************************************************************************)
(* The parts of the program that share no state with each other, checked   *)
(* in one run: the first state chooses a component, and only its variables *)
(* change.  The reachable states are those of the components, one after    *)
(* another, never their product.                                           *)
(*                                                                         *)
(* Values that several components call by different names are the same     *)
(* model values here, so that two symmetries serve all of them: a1 and a2  *)
(* are the tasks of Experience, the command lines of SkillInstallation and *)
(* Providers, the messages of Chats, the actors of Evidence, the workers   *)
(* of Verifier and the conversations of Activation; b1 and b2 the failure  *)
(* patterns, the versions and the Runtime instances.                       *)
(***************************************************************************)
EXTENDS Experience, SkillInstallation, RuntimeSwitch, Mochat, Chats, Providers,
        Evidence, Verifier, Activation, Gateway, TLC

CONSTANTS a1, a2, b1, b2,  \* the values of the two symmetries
          s1, s2, s3,      \* Skills, the first two at one Gateway address
          g1, g2,          \* the addresses
          p1, p2, ma, mb   \* Providers and models: p1 does not route mb

VARIABLE component

Two == {a1, a2}
Other == {b1, b2}
MCServesAt == (s1 :> g1) @@ (s2 :> g1) @@ (s3 :> g2)
MCRoutes == {<<p1, ma>>, <<p2, ma>>, <<p2, mb>>}
MCSymmetry == Permutations(Two) \cup Permutations(Other)

Components ==
  {"experience", "installation", "switch", "mochat session", "mochat panel", "chats",
   "providers", "evidence", "verifier", "activation", "gateway"}

(* A component that is not chosen rests in one of its first states. *)
Init ==
  /\ component \in Components
  /\ ExpInit /\ InstInit /\ ProviderInit /\ VerifierInit /\ ActivationInit
  /\ SwitchInit /\ (component # "switch" => live = {<<s1, "mock">>})
  /\ MochatInit /\ (component # "mochat session" => posted = 0)
  /\ ChatInit /\ (component # "chats" => service = "email" /\ allowed = {})
  /\ EvidenceInit
  /\ component # "evidence" =>
       required = {} /\ policy = [kinds |-> {"rgb_image"}, sources |-> {}]
  /\ GatewayInit /\ (component # "gateway" => platform = WhatsApp /\ CallerAt("heartbeat", "off"))

ExperienceStep == component = "experience" /\ ExpNext
InstallationStep == component = "installation" /\ InstNext
SwitchStep == component = "switch" /\ SwitchNext
MochatSessionStep == component = "mochat session" /\ MochatNext /\ UNCHANGED panel
MochatPanelStep == component = "mochat panel" /\ MochatNext /\ UNCHANGED session
ChatsStep == component = "chats" /\ ChatNext
ProvidersStep == component = "providers" /\ ProviderNext
EvidenceStep == component = "evidence" /\ EvidenceNext
VerifierStep == component = "verifier" /\ VerifierNext
ActivationStep == component = "activation" /\ ActivationNext
GatewayStep == component = "gateway" /\ GatewayNext

Next ==
  /\ \/ ExperienceStep /\ UNCHANGED <<instVars, switchVars, mochatVars, chatVars, providerVars, evidenceVars, verifierVars, activationVars, gatewayVars>>
     \/ InstallationStep /\ UNCHANGED <<expVars, switchVars, mochatVars, chatVars, providerVars, evidenceVars, verifierVars, activationVars, gatewayVars>>
     \/ SwitchStep /\ UNCHANGED <<expVars, instVars, mochatVars, chatVars, providerVars, evidenceVars, verifierVars, activationVars, gatewayVars>>
     \/ MochatSessionStep /\ UNCHANGED <<expVars, instVars, switchVars, chatVars, providerVars, evidenceVars, verifierVars, activationVars, gatewayVars>>
     \/ MochatPanelStep /\ UNCHANGED <<expVars, instVars, switchVars, chatVars, providerVars, evidenceVars, verifierVars, activationVars, gatewayVars>>
     \/ ChatsStep /\ UNCHANGED <<expVars, instVars, switchVars, mochatVars, providerVars, evidenceVars, verifierVars, activationVars, gatewayVars>>
     \/ ProvidersStep /\ UNCHANGED <<expVars, instVars, switchVars, mochatVars, chatVars, evidenceVars, verifierVars, activationVars, gatewayVars>>
     \/ EvidenceStep /\ UNCHANGED <<expVars, instVars, switchVars, mochatVars, chatVars, providerVars, verifierVars, activationVars, gatewayVars>>
     \/ VerifierStep /\ UNCHANGED <<expVars, instVars, switchVars, mochatVars, chatVars, providerVars, evidenceVars, activationVars, gatewayVars>>
     \/ ActivationStep /\ UNCHANGED <<expVars, instVars, switchVars, mochatVars, chatVars, providerVars, evidenceVars, verifierVars, gatewayVars>>
     \/ GatewayStep /\ UNCHANGED <<expVars, instVars, switchVars, mochatVars, chatVars, providerVars, evidenceVars, verifierVars, activationVars>>
  /\ UNCHANGED component

vars == <<component, expVars, instVars, switchVars, mochatVars, chatVars, providerVars,
          evidenceVars, verifierVars, activationVars, gatewayVars>>

Spec == Init /\ [][Next]_vars

(* The type invariant of the component at work: how its values and phases  *)
(* combine, for the operations of every module this one extends.           *)
TypeOK ==
  CASE component = "experience" -> ExpTypeOK
    [] component = "installation" -> InstTypeOK
    [] component = "switch" -> SwitchTypeOK
    [] component \in {"mochat session", "mochat panel"} -> MochatTypeOK
    [] component = "chats" -> ChatTypeOK
    [] component = "providers" -> ProviderTypeOK
    [] component = "evidence" -> EvidenceTypeOK
    [] component = "verifier" -> VerifierTypeOK
    [] component = "activation" -> ActivationTypeOK
    [] component = "gateway" -> GatewayTypeOK
=============================================================================
