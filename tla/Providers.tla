------------------------------ MODULE Providers ------------------------------
(***************************************************************************)
(* LLM providers (src/PhyAgentOS/providers, cli/providers.py): commands    *)
(* in several processes that load config.json, change it and replace it,   *)
(* with no lock; and the turns of a running Agent, whose sessions may      *)
(* select another provider and model while their turns ask and retry.      *)
(*                                                                         *)
(* Credentials are there or not; which provider can route which model is   *)
(* a constant.  The provider's service is external.                        *)
(***************************************************************************)
EXTENDS Naturals, FiniteSets

CONSTANTS
  Provider, Model,
  Routes,      \* <<provider, model>>: routes(spec, model)
  NoProvider,  \* no provider, or no model
  AutoMatch,   \* agents.defaults.provider = "auto"
  Command,     \* processes that run paos provider
  Session,
  Retries,     \* length of _CHAT_RETRY_DELAYS
  MaxCommands, \* bound: commands begun
  MaxSelections \* bound: session commands

ASSUME ProvidersAssumption ==
  /\ Routes \subseteq Provider \X Model
  /\ {NoProvider, AutoMatch} \cap (Provider \cup Model) = {} /\ NoProvider # AutoMatch
  /\ Model # {} /\ Retries \in Nat /\ MaxCommands \in Nat /\ MaxSelections \in Nat

VARIABLES
  stored,    \* config.json: the default, and each provider's default model if enabled
  command,   \* of each process: what it does, with what it loaded
  commands,
  snapshot,  \* ProviderService.config of the Agent, or the empty set
  override,  \* SessionRuntimes._overrides, or startup
  turn,      \* of each session: the selection that began it, the ones asked, attempts
  selections

fileVars == <<stored, command, commands>>
agentVars == <<snapshot, override, turn, selections>>
providerVars == <<fileVars, agentVars>>

Selection == Provider \X Model
Config == [provider: Provider \cup {NoProvider, AutoMatch}, model: Model \cup {NoProvider},
           models: [Provider -> Model \cup {NoProvider}]]
NoCommand == [kind |-> "none", provider |-> NoProvider, loaded |-> {}]
NoTurn == [begun |-> {}, asked |-> {}, attempt |-> 0]

ProviderTypeOK ==
  /\ stored \in Config
  /\ command \in [Command -> [kind: {"none", "configure", "use", "remove"},
                              provider: Provider \cup {NoProvider}, loaded: SUBSET Config]]
  /\ commands \in 0..MaxCommands
  /\ snapshot \in SUBSET Config /\ Cardinality(snapshot) <= 1
  /\ override \in [Session -> SUBSET Selection]
  /\ turn \in [Session -> [begun: SUBSET Selection, asked: SUBSET Selection,
                           attempt: 0..Retries + 1]]
  /\ selections \in 0..MaxSelections

\* ProviderService.configured: enabled, and with its credentials.
Configured(c, p) == c.models[p] # NoProvider
\* get_provider_name: the default; one that auto matches, the last fallback without a route.
CurrentOf(c) ==
  IF c.provider # AutoMatch THEN {p \in {c.provider} \cap Provider : Configured(c, p)}
  ELSE {p \in Provider : Configured(c, p)}
\* ProviderService.selection accepts this.
ValidSelection(c, p, m) == Configured(c, p) /\ <<p, m>> \in Routes

ProviderInit ==
  /\ stored = [provider |-> AutoMatch, model |-> CHOOSE m \in Model : TRUE,
               models |-> [p \in Provider |-> NoProvider]]
  /\ command = [x \in Command |-> NoCommand] /\ commands = 0
  /\ snapshot = {} /\ override = [s \in Session |-> {}] /\ turn = [s \in Session |-> NoTurn]
  /\ selections = 0

-----------------------------------------------------------------------------
(* paos provider configure | use | remove: the last load_config of the      *)
(* command, then its check and save_config, whose os.replace is one step.   *)
LoadConfig(x, kind, p) ==
  /\ command[x] = NoCommand /\ commands < MaxCommands /\ commands' = commands + 1
  /\ command' = [command EXCEPT ![x] = [kind |-> kind, provider |-> p, loaded |-> {stored}]]
  /\ UNCHANGED <<stored, agentVars>>

SaveConfig(x, c) ==
  /\ stored' = c /\ command' = [command EXCEPT ![x] = NoCommand]
  /\ UNCHANGED <<commands, agentVars>>

ConfigureProvider(x, m) ==
  LET p == command[x].provider IN
  /\ command[x].kind = "configure" /\ <<p, m>> \in Routes
  /\ \E c \in command[x].loaded : SaveConfig(x, [c EXCEPT !.models[p] = m])

\* For the mutant of UseProvider: what one load validated is written into another.
UseProviderUnread(x, m) ==
  LET p == command[x].provider IN
  /\ command[x].kind = "use"
  /\ \E c \in command[x].loaded :
       ValidSelection(c, p, m) /\ SaveConfig(x, [stored EXCEPT !.provider = p, !.model = m])

UseProvider(x, m) ==
  LET p == command[x].provider IN
  /\ command[x].kind = "use"
  /\ \E c \in command[x].loaded :
       ValidSelection(c, p, m) /\ SaveConfig(x, [c EXCEPT !.provider = p, !.model = m])

\* The removal of the current provider selects no other, the match of auto included.
Without(c, p) == [c EXCEPT !.models[p] = NoProvider]
Unselected(c) == [c EXCEPT !.provider = NoProvider, !.model = NoProvider]

RemoveProvider(x) ==
  LET p == command[x].provider IN
  /\ command[x].kind = "remove"
  /\ \E c \in command[x].loaded :
       \/ p \in CurrentOf(c) \cup {c.provider} /\ SaveConfig(x, Unselected(Without(c, p)))
       \/ c.provider # p /\ CurrentOf(c) # {p} /\ SaveConfig(x, Without(c, p))

\* A check that fails, a cancelled prompt, a crash: nothing was written.
GiveUpCommand(x) ==
  /\ command[x] # NoCommand /\ command' = [command EXCEPT ![x] = NoCommand]
  /\ UNCHANGED <<stored, commands, agentVars>>

-----------------------------------------------------------------------------
(* The Agent keeps the configuration and the selection it started with.     *)
StartAgent ==
  /\ snapshot = {}
  /\ \E p \in CurrentOf(stored) :
       ValidSelection(stored, p, stored.model) /\ snapshot' = {[stored EXCEPT !.provider = p]}
  /\ UNCHANGED <<fileVars, override, turn, selections>>

SelectionsOf(s) == IF override[s] # {} THEN override[s] ELSE {<<c.provider, c.model>> : c \in snapshot}

\* SessionRuntimes.select resolves before it replaces; reset forgets.  A turn may be running.
SelectModel(s, p, m) ==
  /\ \E c \in snapshot : ValidSelection(c, p, m)
  /\ selections < MaxSelections /\ selections' = selections + 1
  /\ override' = [override EXCEPT ![s] = {<<p, m>>}]
  /\ UNCHANGED <<fileVars, snapshot, turn>>

ResetSelection(s) ==
  /\ override[s] # {} /\ override' = [override EXCEPT ![s] = {}]
  /\ UNCHANGED <<fileVars, snapshot, turn, selections>>

PinTurn(s) ==
  /\ turn[s] = NoTurn
  /\ \E x \in SelectionsOf(s) : turn' = [turn EXCEPT ![s].begun = {x}]
  /\ UNCHANGED <<fileVars, snapshot, override, selections>>

\* For the mutant of AskProvider: the request takes the selection of the session.
AskSelected(s) ==
  /\ turn[s].begun # {} /\ turn[s].attempt <= Retries
  /\ \E x \in SelectionsOf(s) :
       turn' = [turn EXCEPT ![s].asked = @ \cup {x}, ![s].attempt = @ + 1]
  /\ UNCHANGED <<fileVars, snapshot, override, selections>>

\* chat_with_retry: one attempt; a transient error leads to the next, after a delay.
AskProvider(s) ==
  /\ turn[s].begun # {} /\ turn[s].attempt <= Retries
  /\ turn' = [turn EXCEPT ![s].asked = @ \cup turn[s].begun, ![s].attempt = @ + 1]
  /\ UNCHANGED <<fileVars, snapshot, override, selections>>

\* An answer with tool calls leads to the next request, any other ends the turn.
TakeAnswer(s) ==
  /\ turn[s].attempt > 0
  /\ \/ turn' = [turn EXCEPT ![s].attempt = 0]
     \/ turn' = [turn EXCEPT ![s] = NoTurn]
  /\ UNCHANGED <<fileVars, snapshot, override, selections>>

ProviderNext ==
  \/ \E x \in Command :
       \/ \E kind \in {"configure", "use", "remove"}, p \in Provider : LoadConfig(x, kind, p)
       \/ \E m \in Model : ConfigureProvider(x, m) \/ UseProvider(x, m)
       \/ RemoveProvider(x) \/ GiveUpCommand(x)
  \/ StartAgent
  \/ \E s \in Session : \/ \E p \in Provider, m \in Model : SelectModel(s, p, m)
                        \/ ResetSelection(s) \/ PinTurn(s) \/ AskProvider(s) \/ TakeAnswer(s)

-----------------------------------------------------------------------------
(* However the commands of several processes overlap, and whatever of each  *)
(* other's changes they overwrite, a default that names a provider names    *)
(* one that is configured and routes the default model: the next process    *)
(* starts.                                                                  *)
DefaultUsable == stored.provider \in Provider => ValidSelection(stored, stored.provider, stored.model)

(* All requests of a turn, retries and those after tool calls included, go  *)
(* to the one selection it began with, which was valid in the configuration *)
(* of the Agent: a session command changes later turns only.                *)
TurnPinned ==
  \A s \in Session : /\ turn[s].asked \subseteq turn[s].begun
                     /\ \A x \in turn[s].begun : \E c \in snapshot : ValidSelection(c, x[1], x[2])

(* Both halves of a selection that stays usable: the file a process would   *)
(* start with, and the turns of the processes that already run.             *)
SelectionsHold == DefaultUsable /\ TurnPinned

=============================================================================
