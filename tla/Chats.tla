-------------------------------- MODULE Chats --------------------------------
(***************************************************************************)
(* The chat adapters under src/PhyAgentOS/channels, but Mochat: one chat   *)
(* of one service, the handler of each message it delivers, the album      *)
(* buffer and typing indicator of the adapter, and the dispatcher that     *)
(* sends the Agent's replies piece by piece.                               *)
(*                                                                         *)
(* A handler is the sequence of its steps; the handlers of some services   *)
(* overlap, and their steps interleave at least as freely as the awaits    *)
(* of the code allow.  The services and the Agent are external: a service  *)
(* may deliver a message again, refuse a piece, or take it and lose the    *)
(* answer; the Agent answers each message once, with progress before.      *)
(***************************************************************************)
EXTENDS Naturals, Sequences, SequencesExt, FiniteSets

CONSTANTS
  Message,
  Parts,         \* messages that are parts of one Telegram album
  MaxRedeliveries, \* bound: messages a service delivers twice
  MaxRemembered, \* bound of _processed_message_ids and _processed_uids
  MaxReplies,    \* bound: outbound messages, and turns that mails begin
  MaxChatFaults  \* bound: pieces refused, answers lost, handlers and polls that raise

ASSUME ChatsAssumption ==
  /\ Parts \subseteq Message /\ MaxRemembered \in Nat \ {0}
  /\ MaxRedeliveries \in Nat /\ MaxReplies \in Nat /\ MaxChatFaults \in Nat

VARIABLES
  service,   \* the adapter, and (email) whether it flags what it read
  allowed,   \* messages whose sender allow_from admits
  doing,     \* step number of the handler of each delivery; 0 before
  memory,    \* _processed_message_ids, oldest first
  forgotten, \* messages evicted from it
  batch,     \* mails the poll under way has read
  published, \* how often each message was put on the bus
  album,     \* _media_group_buffers
  flushing,  \* _media_group_tasks
  typing,    \* the chat has a typing task
  waiting,   \* messages on the bus that the Agent has not answered
  replies,   \* outbound messages so far, which numbers them
  outbound,  \* their queue: [number, progress]
  sending,   \* the reply in send with its piece and attempts, or empty
  delivered, \* pieces that reached the chat
  repeated,  \* pieces whose answer was lost
  missed,    \* [piece, kind] of which every try failed
  chatFaults

chatVars == <<service, allowed, doing, memory, forgotten, batch, published, album, flushing, typing,
              waiting, replies, outbound, sending, delivered, repeated, missed, chatFaults>>

-----------------------------------------------------------------------------
(* The steps of _on_message of each adapter.  Every handler ends in         *)
(* publish, which is BaseChannel._handle_message.                           *)

FeishuSteps == <<"remember", "filter", "fetch", "publish">>
WecomSteps == <<"remember", "fetch", "publish">>
WhatsappSteps == <<"remember", "publish">>
QqSteps == <<"remember", "publish">>
DingtalkSteps == <<"publish">>
SlackSteps == <<"filter", "fetch", "publish">>
DiscordSteps == <<"allow", "filter", "fetch", "type", "publish">>
TelegramSteps == <<"filter", "fetch", "type", "publish">>
\* For the mutant of MatrixSteps: typing starts once the message is on the bus.
MatrixLate == <<"allow", "fetch", "publish", "type">>
MatrixSteps == <<"allow", "fetch", "type", "publish">>

Handler == [feishu |-> FeishuSteps, wecom |-> WecomSteps, whatsapp |-> WhatsappSteps,
            qq |-> QqSteps, dingtalk |-> DingtalkSteps, slack |-> SlackSteps,
            discord |-> DiscordSteps, telegram |-> TelegramSteps, matrix |-> MatrixSteps]
Adapter == DOMAIN Handler
Overlapping == {"feishu", "wecom", "dingtalk", "slack"}
Remembering == {s \in Adapter : Contains(Handler[s], "remember")}

Copies == {1, 2}
Delivery == Message \X Copies
Steps == IF service \in Adapter THEN Handler[service] ELSE <<>>
InHandler(d) == doing[d] \in 1..Len(Steps)
At(d, step) == InHandler(d) /\ Steps[doing[d]] = step
OnWith(d) == doing' = [doing EXCEPT ![d] = @ + 1]
OverWith(d) == doing' = [doing EXCEPT ![d] = Len(Steps) + 1]

\* What send posts one after the other, attachments before the text or after it (bound: two).
PieceKind == {"text", "file", "none"}
Single == {"wecom", "whatsapp", "qq", "email", "email kept unseen"}
TextFirst == {"slack", "dingtalk"}
Forms ==
  {f \in [1..2 -> PieceKind] :
     /\ f[1] # "none" /\ f[2] # (IF service \in TextFirst THEN "text" ELSE "file")
     /\ service \in Single => f[1] = "text"
     /\ service \in Single \cup {"matrix"} /\ f[1] = "text" => f[2] = "none"}

\* Where a piece of that kind, failed for good, ends the message: elsewhere send goes on.
Abandons == {<<"discord", "text">>, <<"matrix", "text">>, <<"slack", "text">>, <<"telegram", "file">>}
\* A message of nothing but an attachment that failed becomes a notice in text.
Notices == {"discord", "matrix"}
Reply == [number: Nat, progress: BOOLEAN]
Send == [number: Nat, progress: BOOLEAN, form: [1..2 -> PieceKind], piece: 1..2, tries: 0..2]
NoSend == [number |-> 0, progress |-> FALSE, form |-> [k \in 1..2 |-> "none"], piece |-> 1, tries |-> 0]
KindNow == sending.form[sending.piece]
\* Telegram's second try is plain text, or a notice for an attachment, as it is DingTalk's.
Tries == CASE service = "discord" -> 3
           [] service = "telegram" -> 2
           [] service = "dingtalk" /\ KindNow = "file" -> 2
           [] OTHER -> 1

ChatTypeOK ==
  /\ service \in Adapter \cup {"email", "email kept unseen"}
  /\ allowed \subseteq Message /\ doing \in [Delivery -> 0..6]
  /\ memory \in Seq(Message) /\ Len(memory) <= MaxRemembered
  /\ forgotten \subseteq Message /\ batch \subseteq Message /\ published \in [Message -> Nat]
  /\ album \subseteq Parts /\ flushing \in BOOLEAN /\ typing \in BOOLEAN
  /\ waiting \in Nat /\ replies \in Nat /\ outbound \in Seq(Reply)
  /\ sending \in Send
  /\ delivered \in Seq(Nat \X (1..2)) /\ repeated \subseteq Nat \X (1..2)
  /\ missed \subseteq (Nat \X (1..2)) \X PieceKind
  /\ chatFaults \in 0..MaxChatFaults

ChatInit ==
  /\ service \in Adapter \cup {"email", "email kept unseen"} /\ allowed \in SUBSET Message
  /\ doing = [d \in Delivery |-> 0] /\ memory = <<>> /\ forgotten = {}
  /\ batch = {} /\ published = [m \in Message |-> 0] /\ album = {} /\ flushing = FALSE /\ typing = FALSE
  /\ waiting = 0 /\ replies = 0 /\ outbound = <<>> /\ sending = NoSend /\ delivered = <<>>
  /\ repeated = {} /\ missed = {} /\ chatFaults = 0

ChatFault == chatFaults < MaxChatFaults /\ chatFaults' = chatFaults + 1
replying == <<replies, outbound, sending, delivered, repeated, missed>>
buffers == <<album, flushing, typing>>
remembered == <<memory, forgotten, batch>>
given == <<service, allowed>>

-----------------------------------------------------------------------------
(* The socket or the poll of the service hands over a message, the next one *)
(* of a sequential adapter when its handler returned.                       *)
Deliver(d) ==
  /\ service \in Adapter /\ doing[d] = 0
  /\ \/ d[2] = 1
     \/ /\ service \in Remembering /\ doing[<<d[1], 1>>] > 0
        /\ Cardinality({m \in Message : doing[<<m, 2>>] > 0}) < MaxRedeliveries
  /\ service \in Overlapping \/ ~\E e \in Delivery : InHandler(e)
  /\ OnWith(d)
  /\ UNCHANGED <<given, remembered, published, buffers, waiting, replying, chatFaults>>

RememberId(m) ==
  LET longer == Append(memory, m)
  IN  IF Len(longer) > MaxRemembered
      THEN memory' = Tail(longer) /\ forgotten' = forgotten \cup {Head(longer)}
      ELSE memory' = longer /\ UNCHANGED forgotten

\* For the mutant of RememberMessage: the id is looked up here and noted elsewhere.
LookUpMessage(d) ==
  /\ At(d, "remember")
  /\ IF Contains(memory, d[1]) THEN OverWith(d) ELSE OnWith(d)
  /\ UNCHANGED <<given, remembered, published, buffers, waiting, replying, chatFaults>>

RememberMessage(d) ==
  /\ At(d, "remember")
  /\ \/ Contains(memory, d[1]) /\ OverWith(d) /\ UNCHANGED <<memory, forgotten>>
     \/ ~Contains(memory, d[1]) /\ OnWith(d) /\ RememberId(d[1])
  /\ UNCHANGED <<given, batch, published, buffers, waiting, replying, chatFaults>>

\* is_allowed, asked before anything else; then the policy for groups, and empty messages.
AllowSender(d) ==
  /\ At(d, "allow") /\ IF d[1] \in allowed THEN OnWith(d) ELSE OverWith(d)
  /\ UNCHANGED <<given, remembered, published, buffers, waiting, replying, chatFaults>>

FilterMessage(d) ==
  /\ At(d, "filter") /\ (OnWith(d) \/ OverWith(d))
  /\ UNCHANGED <<given, remembered, published, buffers, waiting, replying, chatFaults>>

\* Reactions and downloads; what raises out of them ends the handler.
FetchMedia(d) ==
  /\ At(d, "fetch")
  /\ \/ OnWith(d) /\ UNCHANGED chatFaults
     \/ OverWith(d) /\ ChatFault
  /\ UNCHANGED <<given, remembered, published, buffers, waiting, replying>>

\* A part of a Telegram album goes to the buffer instead.
IsPart(d) == service = "telegram" /\ d[1] \in Parts
StartTyping(d) ==
  /\ At(d, "type") /\ ~IsPart(d)
  /\ typing' = TRUE /\ OnWith(d)
  /\ UNCHANGED <<given, remembered, published, album, flushing, waiting, replying, chatFaults>>

BufferPart(d) ==
  /\ At(d, "type") /\ IsPart(d)
  /\ typing' = (typing \/ album = {})
  /\ album' = album \cup {d[1]} /\ flushing' = TRUE /\ OverWith(d)
  /\ UNCHANGED <<given, remembered, published, waiting, replying, chatFaults>>

\* _handle_message: is_allowed, then the bus, whose queue is never full.
HandleMessages(ms) ==
  LET admitted == ms \cap allowed
  IN  /\ published' = [m \in Message |-> published[m] + IF m \in admitted THEN 1 ELSE 0]
      /\ waiting' = waiting + IF admitted # {} THEN 1 ELSE 0

PublishMessage(d) ==
  /\ At(d, "publish") /\ HandleMessages({d[1]}) /\ OnWith(d)
  /\ UNCHANGED <<given, remembered, buffers, replying, chatFaults>>

\* _flush_media_group wakes 0.6 s after the first part, whether or not the others came.
FlushAlbum ==
  /\ flushing /\ flushing' = FALSE
  /\ album' = {} /\ HandleMessages(album)
  /\ UNCHANGED <<given, doing, remembered, typing, replying, chatFaults>>

-----------------------------------------------------------------------------
(* Email: a poll reads the unseen mails one by one, notes the uid and flags *)
(* the mail as seen (mark_seen), and hands them over once it has them all;  *)
(* a poll that raises hands over none, and those it has flagged are lost:   *)
(* all, or all but the last, whose flag failed.  _processed_uids is a set,  *)
(* of which any half stays when it is full.                                 *)
ReadMail(m) ==
  /\ waiting + replies + Cardinality(batch) < MaxReplies
  /\ service \notin Adapter /\ doing[<<m, 1>>] = 0 /\ m \notin batch /\ ~Contains(memory, m)
  /\ LET noted == Append(memory, m)
     IN  IF Len(noted) <= MaxRemembered
         THEN memory' = noted /\ UNCHANGED forgotten
         ELSE \E kept \in [1..(Len(noted) - Len(noted) \div 2) -> Range(noted)] :
                /\ IsInjective(kept) /\ memory' = kept
                /\ forgotten' = forgotten \cup (Range(noted) \ Range(kept))
  /\ batch' = batch \cup {m}
  /\ doing' = IF service = "email" THEN [doing EXCEPT ![<<m, 1>>] = 1] ELSE doing
  /\ UNCHANGED <<given, published, buffers, waiting, replying, chatFaults>>

HandOverMails ==
  /\ batch # {} /\ batch' = {}
  /\ published' = [m \in Message |-> published[m] + IF m \in batch \cap allowed THEN 1 ELSE 0]
  /\ waiting' = waiting + Cardinality(batch \cap allowed)
  /\ UNCHANGED <<given, doing, memory, forgotten, buffers, replying, chatFaults>>

FailPoll ==
  /\ batch # {} /\ batch' = {} /\ ChatFault
  /\ \/ UNCHANGED doing
     \/ \E m \in batch : doing' = [doing EXCEPT ![<<m, 1>>] = 0]
  /\ UNCHANGED <<given, memory, forgotten, published, buffers, waiting, replying>>

-----------------------------------------------------------------------------
(* The Agent, and ChannelManager._dispatch_outbound, which sends one        *)
(* message after the other.                                                 *)
Answers(isProgress) ==
  /\ replies < MaxReplies /\ replies' = replies + 1
  /\ outbound' = Append(outbound, [number |-> replies + 1, progress |-> isProgress])
  /\ UNCHANGED <<given, doing, remembered, published, buffers, sending, delivered, repeated,
                 missed, chatFaults>>

AnswerMessage == waiting > 0 /\ waiting' = waiting - 1 /\ Answers(FALSE)
ReportProgress == waiting > 0 /\ UNCHANGED waiting /\ Answers(TRUE)

\* Telegram stops typing before it sends; a send of Discord or Matrix ends with it.
DispatchReply ==
  /\ sending = NoSend /\ outbound # <<>>
  /\ outbound' = Tail(outbound)
  /\ \E f \in Forms : sending' = [NoSend EXCEPT !.number = Head(outbound).number,
                                                !.progress = Head(outbound).progress, !.form = f]
  /\ typing' = (typing /\ ~(service = "telegram" /\ ~Head(outbound).progress))
  /\ UNCHANGED <<given, doing, remembered, published, album, flushing, waiting, replies, delivered,
                 repeated, missed, chatFaults>>

EndSend ==
  /\ sending' = NoSend
  /\ typing' = (typing /\ ~(\/ service = "discord"
                            \/ service = "matrix" /\ ~sending.progress))
NextPiece(form) ==
  IF sending.piece = 1 /\ form[2] # "none"
  THEN /\ sending' = [sending EXCEPT !.piece = 2, !.tries = 0, !.form = form]
       /\ UNCHANGED typing
  ELSE EndSend

Piece == <<sending.number, sending.piece>>
unsent == <<given, doing, remembered, published, album, flushing, waiting, replies, outbound>>

SendPiece ==
  /\ sending # NoSend /\ delivered' = Append(delivered, Piece) /\ NextPiece(sending.form)
  /\ UNCHANGED <<unsent, repeated, missed, chatFaults>>

\* The service refuses the piece, or takes it and the answer is lost.
PieceRefused ==
  \/ UNCHANGED <<delivered, repeated>>
  \/ delivered' = Append(delivered, Piece) /\ repeated' = repeated \cup {Piece}
TryAgain ==
  /\ sending.tries + 1 < Tries
  /\ sending' = [sending EXCEPT !.tries = @ + 1] /\ UNCHANGED <<typing, missed>>
\* Discord looks for the file before its first try.
LastTry == \/ sending.tries + 1 = Tries
           \/ service = "discord" /\ KindNow = "file" /\ sending.tries = 0 /\ UNCHANGED delivered
FormAfter == IF service \in Notices /\ KindNow = "file" /\ sending.form[2] = "none"
             THEN [sending.form EXCEPT ![2] = "text"] ELSE sending.form

\* For the mutant of FailPiece: a chunk that failed is skipped, whatever the service.
SkipPiece ==
  /\ sending # NoSend /\ ChatFault /\ PieceRefused
  /\ \/ TryAgain
     \/ LastTry /\ missed' = missed \cup {<<Piece, KindNow>>} /\ NextPiece(FormAfter)
  /\ UNCHANGED unsent

FailPiece ==
  /\ sending # NoSend /\ ChatFault /\ PieceRefused
  /\ \/ TryAgain
     \/ /\ LastTry /\ missed' = missed \cup {<<Piece, KindNow>>}
        /\ IF <<service, KindNow>> \in Abandons THEN EndSend ELSE NextPiece(FormAfter)
  /\ UNCHANGED unsent

ChatNext ==
  \/ \E d \in Delivery : \/ Deliver(d) \/ RememberMessage(d) \/ AllowSender(d)
                         \/ FilterMessage(d) \/ FetchMedia(d) \/ StartTyping(d)
                         \/ BufferPart(d) \/ PublishMessage(d)
  \/ FlushAlbum \/ HandOverMails \/ FailPoll \/ \E m \in Message : ReadMail(m)
  \/ AnswerMessage \/ ReportProgress \/ DispatchReply \/ SendPiece \/ FailPiece

-----------------------------------------------------------------------------
(* A service that delivers a message twice, however the two handlers and    *)
(* their downloads overlap, gets at most one turn of the Agent, until the   *)
(* id falls out of the bounded memory, and so does a mail, whatever polls   *)
(* fail (one that a failed poll had flagged gets none); and no part of an   *)
(* album stays behind without a task that will flush it.                    *)
InboundOnce ==
  /\ service \notin Adapter \/ service \in Remembering =>
       \A m \in Message : published[m] > 1 => m \in forgotten
  /\ album # {} => flushing

(* The chat shows "typing" only while something will stop it: a message in  *)
(* its handler, one the Agent has yet to answer, an answer on its way.  A   *)
(* Telegram sender who is not admitted is the exception: nothing answers.   *)
TypingOwed ==
  typing => \/ \E d \in Delivery : At(d, "publish")
            \/ waiting > 0 \/ album # {}
            \/ \E i \in DOMAIN outbound : ~outbound[i].progress
            \/ sending # NoSend /\ (~sending.progress \/ service = "discord")
            \/ service = "telegram" /\ allowed # Message

(* The pieces of all replies reach the chat in order, none twice unless the *)
(* answer of the service was lost; and one follows a gap only where the     *)
(* piece before it failed for good and is of a kind that does not end the   *)
(* message of that service.                                                 *)
Before(p, q) == p[1] < q[1] \/ (p[1] = q[1] /\ p[2] < q[2])
LedUp(n) == \/ Contains(delivered, <<n, 1>>)
            \/ \E kind \in PieceKind : <<<<n, 1>>, kind>> \in missed /\ <<service, kind>> \notin Abandons
RepliesInOrder ==
  /\ \A i, j \in DOMAIN delivered : i < j =>
       Before(delivered[i], delivered[j]) \/ (delivered[i] = delivered[j] /\ delivered[i] \in repeated)
  /\ \A i \in DOMAIN delivered : delivered[i][2] = 2 => LedUp(delivered[i][1])

(* What a user of any of the chat services sees: a message answered once,   *)
(* the pieces of the answers in order, and "typing" while one is coming.    *)
ConversationKept == InboundOnce /\ RepliesInOrder /\ TypingOwed

=============================================================================
