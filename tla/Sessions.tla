------------------------------ MODULE Sessions ------------------------------
(***************************************************************************)
(* Conversation sessions (src/PhyAgentOS/session/manager.py) and their     *)
(* consolidation into MEMORY.md and HISTORY.md                             *)
(* (src/PhyAgentOS/agent/memory.py).                                       *)
(*                                                                         *)
(* A session is the sequence of the turns saved in it: _save_turn appends  *)
(* a user message and what follows it, and consolidation cuts at user      *)
(* messages only, so the turn is the unit.  last_consolidated counts the   *)
(* turns that no longer reach the prompt.  The prompt's size is data: any  *)
(* estimate may come out at any time.                                      *)
(***************************************************************************)
EXTENDS Naturals, Sequences

CONSTANTS
  Key,        \* session keys
  MaxTurns,   \* bound: turns of all kinds in one behaviour
  MaxRounds,  \* MemoryConsolidator._MAX_CONSOLIDATION_ROUNDS
  Omits       \* whether a model may call save_memory without a history_entry

ASSUME SessionsAssumption ==
  /\ MaxTurns \in Nat
  /\ MaxRounds \in Nat \ {0}
  /\ Omits \in BOOLEAN

VARIABLES
  cache,    \* cache[k]: the Session object of SessionManager._cache
  disk,     \* disk[k]: sessions/<key>.jsonl
  history,  \* the turns summarised in HISTORY.md
  memory,   \* the turns whose facts MEMORY.md holds
  spoken    \* history variable: every turn saved under a key

files == <<disk, history, memory>>
sessionVars == <<cache, disk, history, memory, spoken>>

Turn == 1..MaxTurns
Session == [open: BOOLEAN, turns: Seq(Turn), lc: Nat]
Closed == [open |-> FALSE, turns |-> <<>>, lc |-> 0]
Elems(s) == {s[i] : i \in DOMAIN s}

SessionsTypeOK ==
  /\ cache \in [Key -> Session]
  /\ disk \in [Key -> Session]
  /\ history \subseteq Turn
  /\ memory \subseteq Turn
  /\ spoken \in [Key -> SUBSET Turn]

SessionsInit ==
  /\ cache = [k \in Key |-> Closed]
  /\ disk = [k \in Key |-> Closed]
  /\ history = {}
  /\ memory = {}
  /\ spoken = [k \in Key |-> {}]

-----------------------------------------------------------------------------
(* The session a turn works on: cached, or loaded from its file *)
GetOrCreate(k) == IF cache[k].open THEN cache[k] ELSE [disk[k] EXCEPT !.open = TRUE]

Unconsolidated(s) == SubSeq(s.turns, s.lc + 1, Len(s.turns))

(* A save writes the whole file and caches the object. *)
Save(k, s) ==
  /\ cache' = [cache EXCEPT ![k] = s]
  /\ disk' = [disk EXCEPT ![k] = [s EXCEPT !.open = FALSE]]

Open(k) ==
  /\ cache' = [cache EXCEPT ![k] = GetOrCreate(k)]
  /\ UNCHANGED <<disk, history, memory, spoken>>

WithTurn(k, t) == [GetOrCreate(k) EXCEPT !.turns = Append(@, t)]

SaveTurn(k, t) ==
  /\ Save(k, WithTurn(k, t))
  /\ spoken' = [spoken EXCEPT ![k] = @ \cup {t}]
  /\ UNCHANGED <<history, memory>>

(* What a consolidation in flight holds: where its chunk ends and MEMORY.md *)
(* as it was read before the model was asked.                               *)
NoPlan == [end |-> 0, read |-> {}, round |-> 0]
Plan == [end: Nat, read: SUBSET Turn, round: 0..MaxRounds]

(* User-turn boundaries pick_consolidation_boundary may return: the last *)
(* turn always stays in the prompt.                                      *)
Boundaries(s) == (s.lc + 1)..(Len(s.turns) - 1)

Plans(s, mem, round) ==
  {[end |-> e, read |-> mem, round |-> round] : e \in Boundaries(s)}
ArchivePlan(k) == [end |-> Len(GetOrCreate(k).turns), read |-> memory, round |-> 0]

Chunk(k, plan) == Elems(SubSeq(GetOrCreate(k).turns, GetOrCreate(k).lc + 1, plan.end))

(* MemoryStore.consolidate after the model's answer: append to HISTORY.md, *)
(* replace MEMORY.md by what the model made of the text it was shown.      *)
WriteArchive(k, plan, entry) ==
  /\ history' = IF entry THEN history \cup Chunk(k, plan) ELSE history
  /\ memory' = plan.read \cup Chunk(k, plan)

Entries == IF Omits THEN BOOLEAN ELSE {TRUE}

(* One round of maybe_consolidate_by_tokens: archive, advance, save. *)
Consolidated(k, plan) == [GetOrCreate(k) EXCEPT !.lc = plan.end]

AdvanceConsolidated(k, plan, entry) ==
  /\ WriteArchive(k, plan, entry)
  /\ Save(k, Consolidated(k, plan))
  /\ UNCHANGED spoken

(* The process dies between the append to HISTORY.md and the save. *)
CrashAfterArchive(k, plan, entry) ==
  /\ WriteArchive(k, plan, entry)
  /\ cache' = [i \in Key |-> Closed]
  /\ UNCHANGED <<disk, spoken>>

(* /new once its archive has succeeded: clear, save, invalidate. *)
ClearSession(k, plan, entry) ==
  /\ IF Unconsolidated(GetOrCreate(k)) = <<>>
       THEN UNCHANGED <<history, memory>>
       ELSE WriteArchive(k, plan, entry)
  /\ disk' = [disk EXCEPT ![k] = Closed]
  /\ cache' = [cache EXCEPT ![k] = Closed]
  /\ UNCHANGED spoken

ForgetCache ==
  /\ cache' = [k \in Key |-> Closed]
  /\ UNCHANGED <<disk, history, memory, spoken>>

-----------------------------------------------------------------------------
(* Nothing is forgotten: a saved turn is still in the prompt of its         *)
(* session, or HISTORY.md has a summary of it, through failed and repeated  *)
(* consolidations, /new and crashes.                                        *)
NothingForgotten ==
  \A k \in Key : spoken[k] \subseteq Elems(Unconsolidated(GetOrCreate(k))) \cup history
=============================================================================
