------------------------------- MODULE Mochat -------------------------------
(***************************************************************************)
(* Inbound side of the Mochat channel (src/PhyAgentOS/channels/mochat.py): *)
(* one session, whose messages have sequence numbers and arrive by the     *)
(* web socket, by the polling worker and by notifications, and one panel   *)
(* whose messages are notified, polled, buffered until someone mentions    *)
(* the Agent or a timer fires, and merged.  A cursor file remembers the    *)
(* session across restarts; nothing remembers the panel.                   *)
(*                                                                         *)
(* A handler that does not wait is one step.  The server is external: it   *)
(* answers any cursor it was given, early or late, and repeats the panel.  *)
(***************************************************************************)
EXTENDS Naturals, Sequences, SequencesExt

CONSTANTS
  MaxPosts,    \* bound: messages posted to the session, and to the panel
  MaxSeen,     \* MAX_SEEN_MESSAGE_IDS
  MaxDeliveries, \* bound: watch payloads, and messages of the panel
  MaxRestarts  \* bound: stops and crashes of the process

ASSUME MochatAssumption ==
  MaxPosts \in Nat /\ MaxSeen \in Nat \ {0} /\ MaxDeliveries \in Nat /\ MaxRestarts \in Nat

VARIABLES
  posted,   \* messages of the session at the server
  notified, \* those the server has pushed as notifications, or never will
  cursor,   \* _session_cursor: empty, or the set of the one cursor
  saved,    \* session_cursors.json, likewise
  saving,   \* _save_cursor_debounced is asleep
  cold,     \* the session is in _cold_sessions
  asked,    \* cursors the server was given and may still answer
  seen,     \* _seen_queue of the session
  handed,   \* how often each message of the session was handed to the Agent
  coldRead,   \* some process has read the session: it has had its first payload
  history,  \* messages dropped as history, those of that first payload
  skipped,  \* messages dropped by a later process that found no cursor
  cursorLost, \* a process ended after that first payload and left no cursor
  excused,  \* messages no record of the process covers any more
  paneled,  \* messages of the panel at the server
  panelSeen,
  entries,  \* DelayState.entries of the panel
  timer,    \* DelayState.timer is asleep
  merged,   \* messages of the panel handed to the Agent since the start
  deliveries, restarts

session == <<posted, notified, cursor, saved, saving, cold, asked, seen, handed, coldRead, history,
             skipped, cursorLost, excused>>
dropped == <<coldRead, history, skipped, cursorLost>>
panel == <<paneled, panelSeen, entries, timer, merged>>
mochatVars == <<session, panel, deliveries, restarts>>

Posts == 1..MaxPosts
Cursors == {{}} \cup {{c} : c \in 0..MaxPosts}
From(c) == IF c = {} THEN 0 ELSE CHOOSE n \in c : TRUE

MochatTypeOK ==
  /\ posted \in 0..MaxPosts /\ notified \subseteq Posts
  /\ cursor \in Cursors /\ saved \in Cursors /\ saving \in BOOLEAN /\ cold \in BOOLEAN
  /\ asked \subseteq 0..MaxPosts
  /\ seen \in Seq(Posts) /\ Len(seen) <= MaxSeen
  /\ handed \in [Posts -> Nat] /\ excused \subseteq Posts
  /\ coldRead \in BOOLEAN /\ cursorLost \in BOOLEAN /\ history \subseteq Posts /\ skipped \subseteq Posts
  /\ paneled \in 0..MaxPosts /\ panelSeen \in Seq(Posts) /\ entries \in Seq(Posts)
  /\ timer \in BOOLEAN /\ merged \subseteq Posts
  /\ deliveries \in 0..MaxDeliveries /\ restarts \in 0..MaxRestarts

\* A configured session; earlier messages may exist, and no cursor file.
MochatInit ==
  /\ posted \in 0..MaxPosts /\ notified = 1..posted
  /\ cursor = {} /\ saved = {} /\ saving = FALSE /\ cold = TRUE /\ asked = {0}
  /\ seen = <<>> /\ handed = [m \in Posts |-> 0] /\ excused = {}
  /\ coldRead = FALSE /\ history = {} /\ skipped = {} /\ cursorLost = FALSE
  /\ paneled = 0 /\ panelSeen = <<>> /\ entries = <<>> /\ timer = FALSE /\ merged = {}
  /\ deliveries = 0 /\ restarts = 0

(* _remember_message_id: a bounded queue of the ids seen.                   *)
Remember(q, m) ==
  LET longer == Append(q, m) IN IF Len(longer) > MaxSeen THEN Tail(longer) ELSE longer
Evicts(q) == IF Len(q) >= MaxSeen THEN {Head(q)} ELSE {}

\* _mark_session_cursor never goes back.
Marked(n) == IF cursor # {} /\ n < From(cursor) THEN cursor ELSE {n}

-----------------------------------------------------------------------------
Post ==
  /\ posted < MaxPosts /\ posted' = posted + 1
  /\ UNCHANGED <<notified, cursor, saved, saving, cold, asked, seen, handed, dropped, excused,
                 panel, deliveries, restarts>>

(* _session_watch_worker and _subscribe_sessions send the cursor they hold. *)
Watch ==
  /\ From(cursor) \notin asked /\ asked' = asked \cup {From(cursor)}
  /\ UNCHANGED <<posted, notified, cursor, saved, saving, cold, seen, handed, dropped, excused,
                 panel, deliveries, restarts>>

\* One message of a payload: its id is remembered and it is handed over, unless it is seen.
HandleOne(s, m) ==
  IF Contains(s.q, m) THEN s
  ELSE [q |-> Remember(s.q, m), new |-> s.new \cup {m}, gone |-> s.gone \cup Evicts(s.q)]

\* The messages after the first, one after the other, each unless it is seen at its turn.
Handle(first, last) ==
  LET after[i \in 0..(last - first)] ==
        IF i = 0 THEN [q |-> seen, new |-> {}, gone |-> {}] ELSE HandleOne(after[i - 1], first + i)
      end == after[last - first]
  IN  /\ seen' = end.q
      /\ handed' = [m \in Posts |-> handed[m] + IF m \in end.new THEN 1 ELSE 0]
      /\ excused' = excused \cup end.gone

(* _handle_watch_payload: the answer to a cursor given earlier.  The first  *)
(* payload a process has of a session it knows no cursor of is dropped and  *)
(* moves the cursor: it is the session's history, unless an earlier process *)
(* has read the session and what it knew is lost.                           *)
Payload(first, last) ==
  /\ first \in asked /\ last \in first..posted
  /\ deliveries < MaxDeliveries /\ deliveries' = deliveries + 1
  /\ cursor' = Marked(last) /\ saving' = TRUE /\ cold' = FALSE
  /\ IF cold
     THEN /\ coldRead' = TRUE
          /\ history' = IF coldRead THEN history ELSE (first + 1)..last
          /\ skipped' = IF coldRead THEN skipped \cup (first + 1)..last ELSE skipped
          /\ UNCHANGED <<seen, handed, cursorLost, excused>>
     ELSE Handle(first, last) /\ UNCHANGED dropped
  /\ UNCHANGED <<posted, notified, saved, asked, panel, restarts>>

\* For the mutant of Notify: a notification moves the cursor as a payload does.
NotifyMarks(m) ==
  /\ m \in 1..posted /\ m \notin notified /\ notified' = notified \cup {m}
  /\ Handle(m - 1, m)
  /\ cursor' = Marked(m) /\ saving' = TRUE
  /\ UNCHANGED <<posted, saved, cold, asked, dropped, panel, deliveries, restarts>>

(* _handle_notify_inbox_append: the same message without a sequence number. *)
Notify(m) ==
  /\ m \in 1..posted /\ m \notin notified /\ notified' = notified \cup {m}
  /\ Handle(m - 1, m)
  /\ UNCHANGED <<posted, cursor, saved, saving, cold, asked, dropped, panel, deliveries, restarts>>

(* _save_cursor_debounced wakes.                                            *)
SaveCursor ==
  /\ saving /\ saving' = FALSE /\ saved' = cursor
  /\ UNCHANGED <<posted, notified, cursor, cold, asked, seen, handed, dropped, excused, panel,
                 deliveries, restarts>>

-----------------------------------------------------------------------------
(* _process_inbound_event for the panel, in reply_delay_mode "non-mention": *)
(* a message waits for a mention or for the timer, which starts anew with   *)
(* each; both flush all that waits, as one turn.  _panel_poll_worker reads  *)
(* the latest messages again and again.                                     *)
PanelPost ==
  /\ paneled < MaxPosts /\ paneled' = paneled + 1
  /\ UNCHANGED <<session, panelSeen, entries, timer, merged, deliveries, restarts>>

PanelMessage(m, mentioned) ==
  /\ m \in 1..paneled /\ ~Contains(panelSeen, m)
  /\ panelSeen' = Remember(panelSeen, m)
  /\ IF mentioned
     THEN merged' = merged \cup Range(entries) \cup {m} /\ entries' = <<>> /\ timer' = FALSE
     ELSE merged' = merged /\ entries' = Append(entries, m) /\ timer' = TRUE
  /\ deliveries < MaxDeliveries /\ deliveries' = deliveries + 1
  /\ UNCHANGED <<session, paneled, restarts>>

Flush ==
  /\ timer /\ timer' = FALSE
  /\ merged' = merged \cup Range(entries) /\ entries' = <<>>
  /\ UNCHANGED <<session, paneled, panelSeen, deliveries, restarts>>

-----------------------------------------------------------------------------
(* stop saves the cursor and drops what is buffered; a crash saves nothing. *)
(* The next start loads the file; a session without a cursor is cold.       *)
Restart(clean) ==
  /\ restarts < MaxRestarts /\ restarts' = restarts + 1
  /\ saved' = IF clean THEN cursor ELSE saved
  /\ cursorLost' = (cursorLost \/ (cursor # {} /\ saved' = {}))
  /\ cursor' = saved' /\ cold' = (saved' = {}) /\ asked' = {From(saved')}
  /\ excused' = excused \cup (From(saved') + 1)..posted
  /\ notified' = 1..posted
  /\ saving' = FALSE /\ seen' = <<>>
  /\ panelSeen' = <<>> /\ entries' = <<>> /\ timer' = FALSE /\ merged' = {}
  /\ UNCHANGED <<posted, handed, coldRead, history, skipped, paneled, deliveries>>

MochatNext ==
  \/ Post \/ Watch \/ SaveCursor \/ PanelPost \/ Flush
  \/ \E first, last \in 0..MaxPosts : Payload(first, last)
  \/ \E m \in Posts : Notify(m)
  \/ \E m \in Posts, mentioned \in BOOLEAN : PanelMessage(m, mentioned)
  \/ \E clean \in BOOLEAN : Restart(clean)

-----------------------------------------------------------------------------
(* Every message of the session up to the cursor, the one in the file too,  *)
(* was handed to the Agent, or was history when the session was first read, *)
(* or was skipped; and messages are skipped only if a process ended between *)
(* the first payload and the first save of the cursor, which comes later    *)
(* (_save_cursor_debounced): with a cursor in the file no payload is taken  *)
(* for history any more.                                                    *)
NoneLost ==
  /\ \A m \in Posts : m <= From(cursor) \/ m <= From(saved) =>
       handed[m] > 0 \/ m \in history \cup skipped
  /\ skipped # {} => cursorLost
  /\ saved # {} => ~cold

(* None was handed over twice, by whichever two of the socket, the polling  *)
(* and the notifications, unless its id fell out of the bounded memory or   *)
(* the process ended before a cursor that covers it was in the file.        *)
NoneTwice == \A m \in Posts : handed[m] > 1 => m \in excused

(* What waits for the panel has a timer that will hand it over, and what    *)
(* the panel's memory holds was handed over or waits.                       *)
NoneStuck == /\ entries # <<>> => timer
             /\ Range(panelSeen) \subseteq merged \cup Range(entries)

(* The Mochat channel hands over each message, and no message twice.        *)
MochatDelivers == NoneLost /\ NoneTwice /\ NoneStuck

=============================================================================
