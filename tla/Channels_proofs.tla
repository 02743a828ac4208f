--------------------------- MODULE Channels_proofs ---------------------------
(***************************************************************************)
(* Proofs about the chat adapters and the dispatcher, Chats, and about the *)
(* inbound side of Mochat, for every set of messages, every bound of the   *)
(* memories of ids, and any redeliveries, faults and restarts.             *)
(*                                                                         *)
(* ChatInv has a part for what comes in (a message under way is not        *)
(* published yet, and its id is in memory), one for what goes out (where   *)
(* the queue, the send under way and the pieces delivered stand to each    *)
(* other), and one for what is owed to a chat that shows "typing".         *)
(* MochatInv says why a message handed over cannot come again.             *)
(***************************************************************************)
EXTENDS Chats, Mochat, SequenceTheorems, FiniteSetTheorems, NaturalsInduction,
        WellFoundedInduction, TLAPS

ChatSpec == ChatInit /\ [][ChatNext]_chatVars
MochatSpec == MochatInit /\ [][MochatNext]_mochatVars

-----------------------------------------------------------------------------
(* The handlers, step by step. *)
LEMMA Adapters ==
  Adapter = {"feishu", "wecom", "whatsapp", "qq", "dingtalk", "slack", "discord", "telegram", "matrix"}
BY DEF Adapter, Handler

LEMMA Handlers ==
  /\ Handler["feishu"] = FeishuSteps /\ Handler["wecom"] = WecomSteps
  /\ Handler["whatsapp"] = WhatsappSteps /\ Handler["qq"] = QqSteps
  /\ Handler["dingtalk"] = DingtalkSteps /\ Handler["slack"] = SlackSteps
  /\ Handler["discord"] = DiscordSteps /\ Handler["telegram"] = TelegramSteps
  /\ Handler["matrix"] = MatrixSteps
BY DEF Handler

LEMMA Rememberers == Remembering = {"feishu", "wecom", "whatsapp", "qq"}
<1>1. ASSUME NEW s \in {"feishu", "wecom", "whatsapp", "qq"}
      PROVE  s \in Adapter /\ Contains(Handler[s], "remember")
  <2>1. Len(Handler[s]) >= 1 /\ Handler[s][1] = "remember"
    <3>1. CASE s = "feishu"
      BY <3>1, Handlers DEF FeishuSteps
    <3>2. CASE s = "wecom"
      BY <3>2, Handlers DEF WecomSteps
    <3>3. CASE s = "whatsapp"
      BY <3>3, Handlers DEF WhatsappSteps
    <3>4. CASE s = "qq"
      BY <3>4, Handlers DEF QqSteps
    <3> QED BY <1>1, <3>1, <3>2, <3>3, <3>4
  <2>2. Contains(Handler[s], "remember")
    <3>1. \A n : n >= 1 /\ n \in Int => 1 \in 1..n
      OBVIOUS
    <3>2. Len(Handler[s]) \in Int
      BY <1>1, Handlers DEF FeishuSteps, WecomSteps, WhatsappSteps, QqSteps
    <3> QED BY <2>1, <3>1, <3>2 DEF Contains
  <2> QED BY <1>1, <2>2, Adapters
<1>2. ASSUME NEW s \in {"dingtalk", "slack", "discord", "telegram", "matrix"}
      PROVE  ~Contains(Handler[s], "remember")
  BY <1>2, Handlers DEF Contains, DingtalkSteps, SlackSteps, DiscordSteps, TelegramSteps, MatrixSteps
<1> QED BY <1>1, <1>2, Adapters DEF Remembering

(* Where the steps stand that the argument is about. *)
LEMMA StepsShape ==
  /\ Len(Steps) \in 0..5
  /\ service \in Remembering => \A i \in 1..Len(Steps) : Steps[i] = "remember" <=> i = 1
  /\ service \in Remembering => Len(Steps) >= 1
  /\ \A i \in 1..Len(Steps) : Steps[i] = "publish" <=> i = Len(Steps)
  /\ \A i \in 1..Len(Steps) : Steps[i] = "type" =>
       i + 1 = Len(Steps) /\ service \in {"discord", "telegram", "matrix"}
  /\ service \in {"discord", "matrix"} =>
       /\ \A i \in 1..Len(Steps) : Steps[i] = "allow" <=> i = 1
       /\ Len(Steps) >= 2
  /\ service \notin Adapter => Len(Steps) = 0
<1>1. CASE service \notin Adapter
  BY <1>1, Rememberers, Adapters DEF Steps
<1>2. CASE service = "feishu"
  BY <1>2, Handlers, Adapters, Rememberers DEF Steps, FeishuSteps
<1>3. CASE service = "wecom"
  BY <1>3, Handlers, Adapters, Rememberers DEF Steps, WecomSteps
<1>4. CASE service = "whatsapp"
  BY <1>4, Handlers, Adapters, Rememberers DEF Steps, WhatsappSteps
<1>5. CASE service = "qq"
  BY <1>5, Handlers, Adapters, Rememberers DEF Steps, QqSteps
<1>6. CASE service = "dingtalk"
  BY <1>6, Handlers, Adapters, Rememberers DEF Steps, DingtalkSteps
<1>7. CASE service = "slack"
  BY <1>7, Handlers, Adapters, Rememberers DEF Steps, SlackSteps
<1>8. CASE service = "discord"
  BY <1>8, Handlers, Adapters, Rememberers DEF Steps, DiscordSteps
<1>9. CASE service = "telegram"
  BY <1>9, Handlers, Adapters, Rememberers DEF Steps, TelegramSteps
<1>10. CASE service = "matrix"
  BY <1>10, Handlers, Adapters, Rememberers DEF Steps, MatrixSteps
<1> QED BY <1>1, <1>2, <1>3, <1>4, <1>5, <1>6, <1>7, <1>8, <1>9, <1>10, Adapters

-----------------------------------------------------------------------------
(* Between "remember" and "publish" a message is under way, and so is a     *)
(* mail its poll has read.  Unless its id was evicted, it is under way once *)
(* and not published yet, and the id is in memory from then on.             *)
Way(d) == doing[d] \in 2..Len(Steps)
UnderWay(m) == m \in batch \/ \E c \in Copies : Way(<<m, c>>)
Once(m) ==
  /\ published[m] <= 1
  /\ UnderWay(m) => published[m] = 0
  /\ published[m] = 1 \/ UnderWay(m) => Contains(memory, m)
  /\ ~(Way(<<m, 1>>) /\ Way(<<m, 2>>))
Deduplicates == service \notin Adapter \/ service \in Remembering
OnceInv == Deduplicates => \A m \in Message : m \notin forgotten => Once(m)

Buffered ==
  /\ album # {} => flushing /\ service = "telegram"
  /\ batch # {} => service \notin Adapter
  /\ IsFiniteSet(batch)

InboundInv == ChatTypeOK /\ Buffered /\ OnceInv

(* The handler of one delivery moves on, or ends. *)
Moved(d, i) == doing' = [doing EXCEPT ![d] = i]

LEMMA Apart ==
  ASSUME NEW d \in Delivery, NEW i \in 0..6, ChatTypeOK, Moved(d, i)
  PROVE  /\ doing' \in [Delivery -> 0..6]
         /\ doing'[d] = i /\ \A e \in Delivery : e # d => doing'[e] = doing[e]
         /\ d[1] \in Message /\ d[2] \in Copies /\ d = <<d[1], d[2]>>
<1>1. d[1] \in Message /\ d[2] \in Copies /\ d = <<d[1], d[2]>>
  BY DEF Delivery
<1>2. doing \in [Delivery -> 0..6]
  BY DEF ChatTypeOK
<1>3. /\ doing' \in [Delivery -> 0..6]
      /\ doing'[d] = i /\ \A e \in Delivery : e # d => doing'[e] = doing[e]
  BY <1>2 DEF Moved
<1> QED BY <1>1, <1>3

LEMMA MovedAlong ==
  ASSUME ChatTypeOK, NEW d \in Delivery
  PROVE  /\ Len(Steps) \in 0..5 /\ doing[d] \in 0..6
         /\ OnWith(d) /\ doing[d] \in 0..5 => doing[d] + 1 \in 0..6 /\ Moved(d, doing[d] + 1)
         /\ OverWith(d) => Len(Steps) + 1 \in 0..6 /\ Moved(d, Len(Steps) + 1)
<1>1. Len(Steps) \in 0..5 /\ doing[d] \in 0..6
  BY StepsShape DEF ChatTypeOK
<1>2. ASSUME OnWith(d), doing[d] \in 0..5
      PROVE  doing[d] + 1 \in 0..6 /\ Moved(d, doing[d] + 1)
  BY <1>2 DEF OnWith, Moved
<1>3. ASSUME OverWith(d)
      PROVE  Len(Steps) + 1 \in 0..6 /\ Moved(d, Len(Steps) + 1)
  <2>1. PICK n : n = Len(Steps)
    OBVIOUS
  <2>2. n + 1 \in 0..6
    BY <1>1, <2>1
  <2> QED BY <1>3, <2>1, <2>2 DEF OverWith, Moved
<1> QED BY <1>1, <1>2, <1>3

(* A delivery is not under way for having moved, except over "remember". *)
LEMMA NotByMoving ==
  ASSUME InboundInv, NEW d \in Delivery, NEW i \in 0..6, Moved(d, i),
         i \in 2..Len(Steps) => Way(d),
         UNCHANGED <<given, memory, forgotten, batch, published>>
  PROVE  OnceInv'
<1>1. Steps' = Steps /\ Deduplicates' = Deduplicates
  BY DEF Steps, given, Deduplicates
<1>2. ASSUME NEW m \in Message, NEW c \in Copies, Way(<<m, c>>)'
      PROVE  Way(<<m, c>>)
  <2>1. <<m, c>> \in Delivery
    BY DEF Delivery
  <2>2. CASE <<m, c>> = d
    BY <1>1, <1>2, <2>2, Apart DEF Way, InboundInv
  <2>3. CASE <<m, c>> # d
    BY <1>1, <1>2, <2>1, <2>3, Apart DEF Way, InboundInv
  <2> QED BY <2>2, <2>3
<1>3. ASSUME NEW m \in Message, Once(m) PROVE Once(m)'
  <2>1. UnderWay(m)' => UnderWay(m)
    BY <1>2 DEF UnderWay
  <2>2. 1 \in Copies /\ 2 \in Copies
    BY DEF Copies
  <2> QED BY <1>2, <1>3, <2>1, <2>2 DEF Once
<1> QED BY <1>1, <1>3 DEF OnceInv, InboundInv

LEMMA AtStep ==
  ASSUME ChatTypeOK, NEW d \in Delivery, NEW step, At(d, step)
  PROVE  /\ doing[d] \in 1..Len(Steps) /\ doing[d] \in 0..5 /\ Steps[doing[d]] = step
         /\ Len(Steps) \in 1..5 /\ service \in Adapter
<1>1. doing[d] \in 1..Len(Steps) /\ Steps[doing[d]] = step
  BY DEF At, InHandler
<1>2. Len(Steps) \in 0..5 /\ (service \notin Adapter => Len(Steps) = 0)
  BY StepsShape
<1>3. PICK n : n = Len(Steps)
  OBVIOUS
<1>4. n \in 1..5 /\ doing[d] \in 0..5
  BY <1>1, <1>2, <1>3
<1> QED BY <1>1, <1>2, <1>3, <1>4

(* The steps of a handler before it publishes, "remember" apart. *)
LEMMA StepsBefore ==
  ASSUME InboundInv, NEW d \in Delivery, NEW step, At(d, step), step # "remember",
         OnWith(d) \/ OverWith(d),
         UNCHANGED <<given, memory, forgotten, batch, published>>
  PROVE  OnceInv'
<1>0. ChatTypeOK
  BY DEF InboundInv
<1>1. CASE Deduplicates
  <2>1. Way(d)
    BY <1>0, <1>1, AtStep, StepsShape DEF Way, Deduplicates
  <2>2. CASE OnWith(d)
    BY <1>0, <2>1, <2>2, AtStep, MovedAlong, NotByMoving
  <2>3. CASE OverWith(d)
    BY <1>0, <2>1, <2>3, MovedAlong, NotByMoving
  <2> QED BY <2>2, <2>3
<1>2. CASE ~Deduplicates
  BY <1>2 DEF OnceInv, Deduplicates, given
<1> QED BY <1>1, <1>2

LEMMA DeliverOnce ==
  ASSUME InboundInv, NEW d \in Delivery, Deliver(d)
  PROVE  OnceInv'
<1>1. doing[d] = 0 /\ ChatTypeOK
  BY DEF Deliver, InboundInv
<1>2. Moved(d, 1)
  BY <1>1 DEF Deliver, OnWith, Moved
<1> QED BY <1>2, NotByMoving DEF Deliver, remembered

(* What the bounded memory does: an id that leaves it is evicted. *)
LEMMA HoldsId ==
  ASSUME NEW q \in Seq(Message), NEW m
  PROVE  /\ Contains(q, m) <=> \E i \in 1..Len(q) : q[i] = m
         /\ Contains(q, m) <=> m \in Range(q)
BY DEF Contains, Range

LEMMA RemembersId ==
  ASSUME ChatTypeOK, NEW m \in Message, RememberId(m)
  PROVE  /\ memory' \in Seq(Message) /\ Len(memory') <= MaxRemembered
         /\ forgotten \subseteq forgotten' /\ forgotten' \subseteq Message
         /\ Contains(memory', m)
         /\ \A n \in Message : Contains(memory, n) /\ n \notin forgotten' => Contains(memory', n)
<1>1. memory \in Seq(Message) /\ Len(memory) <= MaxRemembered /\ forgotten \subseteq Message
  BY DEF ChatTypeOK
<1>2. PICK longer : longer = Append(memory, m)
  OBVIOUS
<1>3. /\ longer \in Seq(Message) /\ Len(longer) = Len(memory) + 1 /\ longer[Len(longer)] = m
      /\ \A i \in 1..Len(memory) : longer[i] = memory[i]
  BY <1>1, <1>2
<1>4. MaxRemembered \in Nat \ {0}
  BY ChatsAssumption
<1>5. CASE Len(longer) > MaxRemembered
  <2>1. memory' = Tail(longer) /\ forgotten' = forgotten \cup {Head(longer)}
    BY <1>2, <1>5 DEF RememberId
  <2>2. longer # <<>> /\ Head(longer) = longer[1] /\ Head(longer) \in Message /\ Len(longer) >= 2
    BY <1>1, <1>3, <1>4, <1>5
  <2>3. /\ memory' \in Seq(Message) /\ Len(memory') = Len(longer) - 1
        /\ \A i \in 1..Len(memory') : memory'[i] = longer[i + 1]
    BY <1>3, <2>1, <2>2
  <2>4. memory'[Len(longer) - 1] = m /\ Len(longer) - 1 \in 1..Len(memory')
    BY <1>3, <2>2, <2>3
  <2>5. ASSUME NEW n \in Message, Contains(memory, n), n \notin forgotten'
        PROVE  Contains(memory', n)
    <3>1. PICK i \in 1..Len(memory) : memory[i] = n
      BY <1>1, <2>5, HoldsId
    <3>2. i # 1
      <4>1. longer[i] = n
        BY <1>3, <3>1
      <4>2. longer[1] \in forgotten'
        BY <2>1, <2>2
      <4> QED BY <2>5, <4>1, <4>2
    <3>3. i - 1 \in 1..Len(memory') /\ memory'[i - 1] = n
      <4>1. PICK j : j = i - 1
        OBVIOUS
      <4>2. j \in 1..Len(memory') /\ j + 1 = i
        BY <1>1, <1>3, <2>3, <3>1, <3>2, <4>1
      <4>3. memory'[j] = longer[i] /\ longer[i] = memory[i]
        BY <1>3, <2>3, <3>1, <4>2
      <4> QED BY <3>1, <4>1, <4>2, <4>3
    <3> QED BY <2>3, <3>3, HoldsId
  <2>6. Contains(memory', m)
    BY <2>3, <2>4, HoldsId
  <2> QED BY <1>1, <1>3, <2>1, <2>2, <2>3, <2>5, <2>6
<1>6. CASE ~(Len(longer) > MaxRemembered)
  <2>1. memory' = longer /\ forgotten' = forgotten
    BY <1>2, <1>6 DEF RememberId
  <2>2. Len(longer) <= MaxRemembered
    BY <1>3, <1>4, <1>6
  <2>3. Contains(longer, m)
    <3>1. Len(longer) \in 1..Len(longer)
      BY <1>1, <1>3
    <3> QED BY <1>3, <3>1, HoldsId
  <2>4. ASSUME NEW n \in Message, Contains(memory, n) PROVE Contains(longer, n)
    <3>1. PICK i \in 1..Len(memory) : memory[i] = n
      BY <1>1, <2>4, HoldsId
    <3>2. i \in 1..Len(longer) /\ longer[i] = n
      BY <1>1, <1>3, <3>1
    <3> QED BY <1>3, <3>2, HoldsId
  <2> QED BY <1>1, <1>3, <2>1, <2>2, <2>3, <2>4
<1> QED BY <1>5, <1>6

LEMMA ReadsMail ==
  ASSUME ChatTypeOK, NEW m \in Message, ReadMail(m)
  PROVE  /\ memory' \in Seq(Message) /\ Len(memory') <= MaxRemembered
         /\ forgotten \subseteq forgotten' /\ forgotten' \subseteq Message
         /\ m \notin forgotten' => Contains(memory', m)
         /\ \A n \in Message : Contains(memory, n) /\ n \notin forgotten' => Contains(memory', n)
<1>1. memory \in Seq(Message) /\ Len(memory) <= MaxRemembered /\ forgotten \subseteq Message
  BY DEF ChatTypeOK
<1>2. PICK noted : noted = Append(memory, m)
  OBVIOUS
<1>3. /\ noted \in Seq(Message) /\ Len(noted) = Len(memory) + 1 /\ noted[Len(noted)] = m
      /\ \A i \in 1..Len(memory) : noted[i] = memory[i]
  BY <1>1, <1>2
<1>4. MaxRemembered \in Nat \ {0}
  BY ChatsAssumption
<1>5. Contains(noted, m)
  <2>1. Len(noted) \in 1..Len(noted)
    BY <1>1, <1>3
  <2> QED BY <1>3, <2>1, HoldsId
<1>6. ASSUME NEW n \in Message, Contains(memory, n) PROVE Contains(noted, n)
  <2>1. PICK i \in 1..Len(memory) : memory[i] = n
    BY <1>1, <1>6, HoldsId
  <2>2. i \in 1..Len(noted) /\ noted[i] = n
    BY <1>1, <1>3, <2>1
  <2> QED BY <1>3, <2>2, HoldsId
<1>7. CASE Len(noted) <= MaxRemembered
  <2>1. memory' = noted /\ forgotten' = forgotten
    BY <1>2, <1>7 DEF ReadMail
  <2> QED BY <1>1, <1>3, <1>5, <1>6, <1>7, <2>1
<1>8. CASE ~(Len(noted) <= MaxRemembered)
  <2>1. PICK kept \in [1..(Len(noted) - Len(noted) \div 2) -> Range(noted)] :
          memory' = kept /\ forgotten' = forgotten \cup (Range(noted) \ Range(kept))
    BY <1>2, <1>8 DEF ReadMail
  <2>2. PICK k : k = Len(noted) - Len(noted) \div 2
    OBVIOUS
  <2>3. k \in Nat /\ k <= MaxRemembered
    BY <1>1, <1>3, <1>4, <1>8, <2>2
  <2>4. Range(noted) \subseteq Message
    BY <1>3 DEF Range
  <2>5. kept \in Seq(Message) /\ Len(kept) = k
    <3>1. kept \in [1..k -> Message]
      BY <2>1, <2>2, <2>4
    <3> QED BY <2>3, <3>1
  <2>6. ASSUME NEW n \in Message, Contains(noted, n), n \notin forgotten' PROVE Contains(kept, n)
    BY <1>3, <2>1, <2>5, <2>6, HoldsId
  <2> QED BY <1>1, <1>5, <1>6, <2>1, <2>3, <2>4, <2>5, <2>6
<1> QED BY <1>7, <1>8

LEMMA RememberOnce ==
  ASSUME InboundInv, NEW d \in Delivery, RememberMessage(d)
  PROVE  OnceInv'
<1>0. ChatTypeOK /\ At(d, "remember")
  BY DEF InboundInv, RememberMessage
<1>1. Steps' = Steps /\ Deduplicates' = Deduplicates
  BY DEF Steps, given, Deduplicates, RememberMessage
<1>2. CASE OverWith(d) /\ UNCHANGED <<memory, forgotten>>
  <2>1. Moved(d, Len(Steps) + 1) /\ Len(Steps) + 1 \in 0..6 /\ Len(Steps) \in 0..5
    BY <1>0, <1>2, MovedAlong
  <2>2. ~(Len(Steps) + 1 \in 2..Len(Steps))
    BY <2>1
  <2> QED BY <1>2, <2>1, <2>2, NotByMoving DEF RememberMessage
<1>3. CASE ~Contains(memory, d[1]) /\ OnWith(d) /\ RememberId(d[1])
  <2>1. Moved(d, doing[d] + 1) /\ doing[d] + 1 \in 0..6
    BY <1>0, <1>3, AtStep, MovedAlong
  <2>2. /\ \A e \in Delivery : e # d => doing'[e] = doing[e]
        /\ d[1] \in Message /\ d[2] \in Copies /\ d = <<d[1], d[2]>>
    BY <1>0, <2>1, Apart
  <2>3. /\ forgotten \subseteq forgotten' /\ Contains(memory', d[1])
        /\ \A n \in Message : Contains(memory, n) /\ n \notin forgotten' => Contains(memory', n)
    BY <1>0, <1>3, <2>2, RemembersId
  <2>4. batch' = batch /\ published' = published /\ published \in [Message -> Nat]
    BY <1>0 DEF RememberMessage, ChatTypeOK
  <2>5. SUFFICES ASSUME Deduplicates, NEW m \in Message, m \notin forgotten' PROVE Once(m)'
    BY <1>1 DEF OnceInv
  <2>6. Once(m)
    BY <2>3, <2>5 DEF InboundInv, OnceInv
  <2>7. \A n, c : <<n, c>> \in Delivery <=> n \in Message /\ c \in Copies
    BY DEF Delivery
  <2>8. 1 \in Copies /\ 2 \in Copies /\ \A c \in Copies : c = 1 \/ c = 2
    BY DEF Copies
  <2>9. \A c \in Copies : <<m, c>> # d => (Way(<<m, c>>)' <=> Way(<<m, c>>))
    BY <1>1, <2>2, <2>7 DEF Way
  <2>10. CASE m # d[1]
    <3>1. \A c \in Copies : Way(<<m, c>>)' <=> Way(<<m, c>>)
      BY <2>9, <2>10
    <3>2. UnderWay(m)' <=> UnderWay(m)
      BY <2>4, <3>1 DEF UnderWay
    <3> QED BY <2>3, <2>4, <2>5, <2>6, <2>8, <3>1, <3>2 DEF Once
  <2>11. CASE m = d[1]
    <3>1. published[m] = 0 /\ ~UnderWay(m)
      <4>1. ~Contains(memory, m)
        BY <1>3, <2>11
      <4> QED BY <2>4, <2>6, <4>1 DEF Once
    <3>2. ~Way(<<m, 1>>) /\ ~Way(<<m, 2>>)
      BY <2>8, <3>1 DEF UnderWay
    <3>3. ~(Way(<<m, 1>>)' /\ Way(<<m, 2>>)')
      <4>1. <<m, 1>> # d \/ <<m, 2>> # d
        BY <2>2
      <4> QED BY <2>8, <2>9, <3>2, <4>1
    <3>4. published'[m] = 0 /\ Contains(memory', m)
      BY <2>3, <2>4, <2>11, <3>1
    <3> QED BY <3>3, <3>4 DEF Once
  <2> QED BY <2>10, <2>11
<1> QED BY <1>2, <1>3 DEF RememberMessage

LEMMA Handed ==
  ASSUME ChatTypeOK, NEW ms, HandleMessages(ms)
  PROVE  /\ published' \in [Message -> Nat]
         /\ \A m \in Message : published'[m] = published[m] + IF m \in ms \cap allowed THEN 1 ELSE 0
         /\ waiting' \in Nat /\ waiting' >= waiting
         /\ ms \cap allowed # {} => waiting' > 0
<1>1. published \in [Message -> Nat] /\ waiting \in Nat
  BY DEF ChatTypeOK
<1>2. PICK admitted : admitted = ms \cap allowed
  OBVIOUS
<1>3. /\ published' = [m \in Message |-> published[m] + IF m \in admitted THEN 1 ELSE 0]
      /\ waiting' = waiting + IF admitted # {} THEN 1 ELSE 0
  BY <1>2 DEF HandleMessages
<1>4. \A m \in Message : published[m] + (IF m \in admitted THEN 1 ELSE 0) \in Nat
  BY <1>1
<1>5. waiting' \in Nat /\ waiting' >= waiting /\ (admitted # {} => waiting' > 0)
  <2>1. CASE admitted # {}
    BY <1>1, <1>3, <2>1
  <2>2. CASE admitted = {}
    BY <1>1, <1>3, <2>2
  <2> QED BY <2>1, <2>2
<1> QED BY <1>2, <1>3, <1>4, <1>5

LEMMA PublishOnce ==
  ASSUME InboundInv, NEW d \in Delivery, PublishMessage(d)
  PROVE  OnceInv'
<1>0. ChatTypeOK /\ At(d, "publish") /\ HandleMessages({d[1]}) /\ OnWith(d)
  BY DEF InboundInv, PublishMessage
<1>1. Steps' = Steps /\ Deduplicates' = Deduplicates
  BY DEF Steps, given, Deduplicates, PublishMessage
<1>2. doing[d] = Len(Steps) /\ doing[d] \in 1..Len(Steps) /\ doing[d] \in 0..5
  BY <1>0, AtStep, StepsShape
<1>3. Moved(d, doing[d] + 1) /\ doing[d] + 1 \in 0..6
  BY <1>0, <1>2, MovedAlong
<1>4. /\ doing'[d] = doing[d] + 1 /\ \A e \in Delivery : e # d => doing'[e] = doing[e]
      /\ d[1] \in Message /\ d[2] \in Copies /\ d = <<d[1], d[2]>>
  BY <1>0, <1>3, Apart
<1>5. batch' = batch /\ memory' = memory /\ forgotten' = forgotten
  BY DEF PublishMessage, remembered
<1>6. \A m \in Message : published'[m] = published[m] + IF m \in {d[1]} \cap allowed THEN 1 ELSE 0
  BY <1>0, Handed
<1>7. published \in [Message -> Nat]
  BY <1>0 DEF ChatTypeOK
<1>8. SUFFICES ASSUME Deduplicates, NEW m \in Message, m \notin forgotten PROVE Once(m)'
  BY <1>1, <1>5 DEF OnceInv
<1>9. Once(m)
  BY <1>8 DEF InboundInv, OnceInv
<1>10. \A n, c : <<n, c>> \in Delivery <=> n \in Message /\ c \in Copies
  BY DEF Delivery
<1>11. 1 \in Copies /\ 2 \in Copies /\ \A c \in Copies : c = 1 \/ c = 2
  BY DEF Copies
<1>12. \A c \in Copies : <<m, c>> # d => (Way(<<m, c>>)' <=> Way(<<m, c>>))
  BY <1>1, <1>4, <1>10 DEF Way
<1>13. CASE m # d[1]
  <2>1. \A c \in Copies : Way(<<m, c>>)' <=> Way(<<m, c>>)
    BY <1>12, <1>13
  <2>2. UnderWay(m)' <=> UnderWay(m)
    BY <1>5, <2>1 DEF UnderWay
  <2>3. published'[m] = published[m]
    BY <1>6, <1>7, <1>13
  <2> QED BY <1>5, <1>9, <1>11, <2>1, <2>2, <2>3 DEF Once
<1>14. CASE m = d[1]
  <2>1. Way(d) /\ ~Way(d)'
    <3>1. service \in Remembering
      BY <1>0, <1>8, AtStep DEF Deduplicates
    <3>2. doing[d] # 1
      BY <1>0, <3>1, AtStep, StepsShape
    <3>3. PICK n : n = Len(Steps)
      OBVIOUS
    <3>4. doing[d] \in 2..n /\ ~(doing[d] + 1 \in 2..n)
      BY <1>2, <3>2, <3>3
    <3> QED BY <1>1, <1>4, <3>3, <3>4 DEF Way
  <2>2. UnderWay(m) /\ published[m] = 0 /\ Contains(memory, m)
    BY <1>4, <1>9, <1>14, <2>1 DEF UnderWay, Once
  <2>3. ~Way(<<m, 1>>)' /\ ~Way(<<m, 2>>)'
    <3>1. CASE d = <<m, 1>>
      <4>1. ~Way(<<m, 2>>) /\ <<m, 2>> # d
        BY <1>9, <2>1, <3>1 DEF Once
      <4> QED BY <1>11, <1>12, <2>1, <3>1, <4>1
    <3>2. CASE d = <<m, 2>>
      <4>1. ~Way(<<m, 1>>) /\ <<m, 1>> # d
        BY <1>9, <2>1, <3>2 DEF Once
      <4> QED BY <1>11, <1>12, <2>1, <3>2, <4>1
    <3> QED BY <1>4, <1>11, <1>14, <3>1, <3>2
  <2>4. batch = {}
    BY <1>0, AtStep DEF InboundInv, Buffered
  <2>5. ~UnderWay(m)'
    BY <1>5, <1>11, <2>3, <2>4 DEF UnderWay
  <2>6. published'[m] \in {0, 1}
    BY <1>6, <2>2
  <2>7. published'[m] <= 1
    BY <2>6
  <2> QED BY <1>5, <2>2, <2>3, <2>5, <2>7 DEF Once
<1> QED BY <1>13, <1>14

(* Of the mails none is ever in a handler. *)
LEMMA NoHandler ==
  ASSUME service \notin Adapter, UNCHANGED given
  PROVE  \A e : ~Way(e) /\ ~Way(e)'
<1>1. Len(Steps) = 0 /\ Steps' = Steps
  BY StepsShape DEF Steps, given
<1>2. 2..Len(Steps) = {}
  BY <1>1
<1> QED BY <1>1, <1>2 DEF Way

LEMMA ReadOnce ==
  ASSUME InboundInv, NEW r \in Message, ReadMail(r)
  PROVE  OnceInv'
<1>1. ChatTypeOK /\ service \notin Adapter /\ ~Contains(memory, r) /\ r \notin batch
  BY DEF InboundInv, ReadMail
<1>2. batch' = batch \cup {r} /\ published' = published /\ UNCHANGED given
  BY DEF ReadMail
<1>3. Deduplicates
  BY <1>1 DEF Deduplicates
<1>4. published \in [Message -> Nat]
  BY <1>1 DEF ChatTypeOK
<1>5. ASSUME NEW m \in Message, m \notin forgotten' PROVE Once(m)'
  <2>1. Once(m)
    BY <1>1, <1>3, <1>5, ReadsMail DEF InboundInv, OnceInv
  <2>2. ~Way(<<m, 1>>)' /\ ~Way(<<m, 2>>)'
    BY <1>1, <1>2, NoHandler
  <2>3. CASE m = r
    <3>1. published[m] = 0
      BY <1>1, <1>4, <2>1, <2>3 DEF Once
    <3>2. Contains(memory', m)
      BY <1>1, <1>5, <2>3, ReadsMail
    <3> QED BY <1>2, <2>2, <3>1, <3>2 DEF Once
  <2>4. CASE m # r
    <3>1. UnderWay(m)' <=> UnderWay(m)
      BY <1>1, <1>2, <2>4, NoHandler DEF UnderWay
    <3>2. Contains(memory, m) => Contains(memory', m)
      BY <1>1, <1>5, ReadsMail
    <3> QED BY <1>2, <2>1, <2>2, <3>1, <3>2 DEF Once
  <2> QED BY <2>3, <2>4
<1> QED BY <1>5 DEF OnceInv

LEMMA HandOverOnce ==
  ASSUME InboundInv, HandOverMails
  PROVE  OnceInv'
<1>1. ChatTypeOK /\ service \notin Adapter
  BY DEF InboundInv, Buffered, HandOverMails
<1>2. batch' = {} /\ memory' = memory /\ forgotten' = forgotten /\ UNCHANGED given
  BY DEF HandOverMails
<1>3. Deduplicates
  BY <1>1 DEF Deduplicates
<1>4. published \in [Message -> Nat]
  BY <1>1 DEF ChatTypeOK
<1>5. \A m \in Message : published'[m] = published[m] + IF m \in batch \cap allowed THEN 1 ELSE 0
  BY DEF HandOverMails
<1>6. ASSUME NEW m \in Message, m \notin forgotten PROVE Once(m)'
  <2>1. Once(m)
    BY <1>3, <1>6 DEF InboundInv, OnceInv
  <2>2. ~Way(<<m, 1>>)' /\ ~Way(<<m, 2>>)' /\ ~UnderWay(m)'
    BY <1>1, <1>2, NoHandler DEF UnderWay
  <2>3. CASE m \in batch
    <3>1. published[m] = 0 /\ Contains(memory, m)
      BY <2>1, <2>3 DEF UnderWay, Once
    <3>2. published'[m] \in {0, 1}
      BY <1>5, <3>1
    <3>3. published'[m] <= 1
      BY <3>2
    <3> QED BY <1>2, <2>2, <3>1, <3>3 DEF Once
  <2>4. CASE m \notin batch
    <3>1. published'[m] = published[m]
      BY <1>4, <1>5, <2>4
    <3> QED BY <1>2, <2>1, <2>2, <3>1 DEF Once
  <2> QED BY <2>3, <2>4
<1> QED BY <1>2, <1>6 DEF OnceInv

LEMMA FailPollOnce ==
  ASSUME InboundInv, FailPoll
  PROVE  OnceInv'
<1>1. ChatTypeOK /\ service \notin Adapter
  BY DEF InboundInv, Buffered, FailPoll
<1>2. batch' = {} /\ memory' = memory /\ forgotten' = forgotten /\ published' = published /\ UNCHANGED given
  BY DEF FailPoll
<1>3. ASSUME NEW m \in Message, Once(m) PROVE Once(m)'
  <2>1. ~Way(<<m, 1>>)' /\ ~Way(<<m, 2>>)' /\ ~UnderWay(m)'
    BY <1>1, <1>2, NoHandler DEF UnderWay
  <2> QED BY <1>2, <1>3, <2>1 DEF Once
<1>4. Deduplicates
  BY <1>1 DEF Deduplicates
<1> QED BY <1>2, <1>3, <1>4 DEF OnceInv, InboundInv

LEMMA FlushOnce ==
  ASSUME InboundInv, FlushAlbum
  PROVE  OnceInv'
<1>1. ChatTypeOK /\ HandleMessages(album) /\ UNCHANGED <<given, doing, remembered>>
  BY DEF InboundInv, FlushAlbum
<1>2. published \in [Message -> Nat] /\ published' \in [Message -> Nat]
  BY <1>1, Handed DEF ChatTypeOK
<1>3. Steps' = Steps /\ Deduplicates' = Deduplicates
  BY <1>1 DEF Steps, given, Deduplicates
<1>4. CASE Deduplicates
  <2>1. album = {}
    BY <1>4, Rememberers, Adapters DEF InboundInv, Buffered, Deduplicates
  <2>2. published' = published
    BY <1>1, <1>2, <2>1, Handed
  <2>3. ASSUME NEW m \in Message, Once(m) PROVE Once(m)'
    BY <1>1, <1>3, <2>2, <2>3 DEF Once, UnderWay, Way, remembered
  <2> QED BY <1>1, <1>4, <2>3 DEF OnceInv, InboundInv, remembered
<1> QED BY <1>3, <1>4 DEF OnceInv

(* The Agent and the dispatcher do not touch what came in. *)
LEMMA OutboundOnce ==
  ASSUME InboundInv, UNCHANGED <<given, doing, remembered, published>>
  PROVE  OnceInv'
<1>1. Steps' = Steps /\ Deduplicates' = Deduplicates
  BY DEF Steps, given, Deduplicates
<1>2. ASSUME NEW m \in Message, Once(m) PROVE Once(m)'
  BY <1>1, <1>2 DEF Once, UnderWay, Way, remembered
<1> QED BY <1>1, <1>2 DEF OnceInv, InboundInv, remembered

-----------------------------------------------------------------------------
(* Types. *)
InTyped ==
  /\ service \in Adapter \cup {"email", "email kept unseen"}
  /\ allowed \subseteq Message /\ doing \in [Delivery -> 0..6]
  /\ memory \in Seq(Message) /\ Len(memory) <= MaxRemembered
  /\ forgotten \subseteq Message /\ batch \subseteq Message /\ published \in [Message -> Nat]
  /\ album \subseteq Parts /\ flushing \in BOOLEAN
OutTyped ==
  /\ replies \in Nat /\ outbound \in Seq(Reply)
  /\ sending \in Send
  /\ delivered \in Seq(Nat \X (1..2)) /\ repeated \subseteq Nat \X (1..2)
  /\ missed \subseteq (Nat \X (1..2)) \X PieceKind

LEMMA Typed ==
  ChatTypeOK <=> /\ InTyped /\ OutTyped
                 /\ typing \in BOOLEAN /\ waiting \in Nat /\ chatFaults \in 0..MaxChatFaults
BY DEF ChatTypeOK, InTyped, OutTyped

LEMMA FaultCounted ==
  ASSUME chatFaults \in 0..MaxChatFaults, ChatFault
  PROVE  chatFaults' \in 0..MaxChatFaults
BY ChatsAssumption DEF ChatFault

LEMMA HandlerTyped ==
  ASSUME InboundInv, NEW d \in Delivery,
         \/ Deliver(d) \/ RememberMessage(d) \/ AllowSender(d)
         \/ FilterMessage(d) \/ FetchMedia(d) \/ StartTyping(d)
         \/ BufferPart(d) \/ PublishMessage(d)
  PROVE  ChatTypeOK' /\ Buffered'
<1>0. ChatTypeOK /\ Buffered
  BY DEF InboundInv
<1>1. InTyped /\ OutTyped /\ typing \in BOOLEAN /\ waiting \in Nat /\ chatFaults \in 0..MaxChatFaults
  BY <1>0, Typed
<1>2. OutTyped'
  BY <1>1 DEF OutTyped, Deliver, RememberMessage, AllowSender, FilterMessage, FetchMedia, StartTyping,
              BufferPart, PublishMessage, replying
<1>3. UNCHANGED given /\ batch' = batch
  BY DEF Deliver, RememberMessage, AllowSender, FilterMessage, FetchMedia, StartTyping,
         BufferPart, PublishMessage, remembered
<1>4. doing' \in [Delivery -> 0..6]
  <2>1. OnWith(d) => doing[d] \in 0..5
    <3>1. CASE Deliver(d)
      BY <3>1 DEF Deliver
    <3>2. CASE ~Deliver(d)
      <4>1. \E step : At(d, step)
        BY <3>2 DEF RememberMessage, AllowSender, FilterMessage, FetchMedia, StartTyping,
                    BufferPart, PublishMessage
      <4> QED BY <1>0, <4>1, AtStep
    <3> QED BY <3>1, <3>2
  <2>2. OnWith(d) \/ OverWith(d)
    BY DEF Deliver, RememberMessage, AllowSender, FilterMessage, FetchMedia, StartTyping,
           BufferPart, PublishMessage
  <2>3. PICK i \in 0..6 : Moved(d, i)
    BY <1>0, <2>1, <2>2, MovedAlong
  <2> QED BY <1>0, <2>3, Apart
<1>5. memory' \in Seq(Message) /\ Len(memory') <= MaxRemembered /\ forgotten' \subseteq Message
  <2>1. CASE RememberMessage(d)
    <3>1. d[1] \in Message
      BY DEF Delivery
    <3>2. CASE RememberId(d[1])
      BY <1>0, <3>1, <3>2, RemembersId
    <3>3. CASE UNCHANGED <<memory, forgotten>>
      BY <1>1, <3>3 DEF InTyped
    <3> QED BY <2>1, <3>2, <3>3 DEF RememberMessage
  <2>2. CASE ~RememberMessage(d)
    <3>1. memory' = memory /\ forgotten' = forgotten
      BY <2>2 DEF Deliver, AllowSender, FilterMessage, FetchMedia, StartTyping,
                  BufferPart, PublishMessage, remembered
    <3> QED BY <1>1, <3>1 DEF InTyped
  <2> QED BY <2>1, <2>2
<1>6. published' \in [Message -> Nat] /\ waiting' \in Nat
  <2>1. CASE PublishMessage(d)
    BY <1>0, <2>1, Handed DEF PublishMessage
  <2>2. CASE ~PublishMessage(d)
    BY <1>1, <2>2 DEF InTyped, Deliver, RememberMessage, AllowSender, FilterMessage, FetchMedia,
                      StartTyping, BufferPart
  <2> QED BY <2>1, <2>2
<1>7. chatFaults' \in 0..MaxChatFaults
  BY <1>1, FaultCounted DEF Deliver, RememberMessage, AllowSender, FilterMessage, FetchMedia,
                            StartTyping, BufferPart, PublishMessage
<1>8. CASE BufferPart(d)
  <2>1. album' = album \cup {d[1]} /\ flushing' = TRUE /\ service = "telegram" /\ d[1] \in Parts
    BY <1>8 DEF BufferPart, IsPart
  <2>2. typing' \in BOOLEAN
    <3>1. (typing \/ album = {}) \in BOOLEAN
      OBVIOUS
    <3> QED BY <1>8, <3>1, Zenon DEF BufferPart
  <2>3. InTyped'
    BY <1>1, <1>3, <1>4, <1>5, <1>6, <2>1 DEF InTyped, given
  <2>4. Buffered'
    BY <1>0, <1>3, <2>1 DEF Buffered, given
  <2> QED BY <1>2, <1>6, <1>7, <2>2, <2>3, <2>4 DEF ChatTypeOK, InTyped, OutTyped
<1>9. CASE ~BufferPart(d)
  <2>1. album' = album /\ flushing' = flushing /\ typing' \in BOOLEAN
    BY <1>1, <1>9 DEF Deliver, RememberMessage, AllowSender, FilterMessage, FetchMedia, StartTyping,
                      PublishMessage, buffers
  <2>2. InTyped'
    BY <1>1, <1>3, <1>4, <1>5, <1>6, <2>1 DEF InTyped, given
  <2>3. Buffered'
    BY <1>0, <1>3, <2>1 DEF Buffered, given
  <2> QED BY <1>2, <1>6, <1>7, <2>1, <2>2, <2>3 DEF ChatTypeOK, InTyped, OutTyped
<1> QED BY <1>8, <1>9

LEMMA MailTyped ==
  ASSUME InboundInv, HandOverMails \/ FailPoll \/ \E m \in Message : ReadMail(m)
  PROVE  ChatTypeOK' /\ Buffered'
<1>0. ChatTypeOK /\ Buffered
  BY DEF InboundInv
<1>1. InTyped /\ OutTyped /\ typing \in BOOLEAN /\ waiting \in Nat /\ chatFaults \in 0..MaxChatFaults
  BY <1>0, Typed
<1>2. OutTyped' /\ typing' = typing /\ album' = album /\ flushing' = flushing /\ UNCHANGED given
  BY <1>1 DEF OutTyped, HandOverMails, FailPoll, ReadMail, replying, buffers
<1>3. ASSUME NEW m \in Message, ReadMail(m) PROVE ChatTypeOK' /\ Buffered'
  <2>1. /\ batch' = batch \cup {m} /\ service \notin Adapter
        /\ UNCHANGED <<published, waiting, chatFaults>>
    BY <1>3 DEF ReadMail
  <2>2. doing' \in [Delivery -> 0..6]
    <3>1. CASE service = "email"
      <4>1. doing' = [doing EXCEPT ![<<m, 1>>] = 1]
        BY <1>3, <3>1 DEF ReadMail
      <4>2. doing \in [Delivery -> 0..6]
        BY <1>1 DEF InTyped
      <4>3. <<m, 1>> \in Delivery /\ 1 \in 0..6
        BY DEF Delivery, Copies
      <4> QED BY <1>0, <4>1, <4>3, Apart DEF Moved
    <3>2. CASE service # "email"
      BY <1>1, <1>3, <3>2 DEF ReadMail, InTyped
    <3> QED BY <3>1, <3>2
  <2>3. memory' \in Seq(Message) /\ Len(memory') <= MaxRemembered /\ forgotten' \subseteq Message
    BY <1>0, <1>3, ReadsMail
  <2>4. IsFiniteSet(batch')
    BY <1>0, <2>1, FS_AddElement DEF Buffered
  <2>5. InTyped'
    BY <1>1, <1>2, <2>1, <2>2, <2>3 DEF InTyped, given
  <2>6. Buffered'
    BY <1>0, <1>2, <2>1, <2>4 DEF Buffered, given
  <2> QED BY <1>1, <1>2, <2>1, <2>5, <2>6 DEF ChatTypeOK, InTyped, OutTyped
<1>4. CASE HandOverMails
  <2>1. published' \in [Message -> Nat]
    <3>0. PICK admitted : admitted = batch \cap allowed
      OBVIOUS
    <3>1. published' = [m \in Message |-> published[m] + IF m \in admitted THEN 1 ELSE 0]
      BY <1>4, <3>0 DEF HandOverMails
    <3>2. published \in [Message -> Nat]
      BY <1>1 DEF InTyped
    <3>3. ASSUME NEW m \in Message PROVE published'[m] \in Nat
      BY <3>1, <3>2
    <3>4. published' = [m \in Message |-> published'[m]]
      BY <3>1
    <3> QED BY <3>3, <3>4
  <2>2. waiting' \in Nat
    <3>1. Cardinality(batch \cap allowed) \in Nat
      <4>1. batch \cap allowed \subseteq batch
        OBVIOUS
      <4> QED BY <1>0, <4>1, FS_Subset, FS_CardinalityType DEF Buffered
    <3> QED BY <1>1, <1>4, <3>1 DEF HandOverMails
  <2>3. batch' = {} /\ UNCHANGED <<doing, memory, forgotten, chatFaults>>
    BY <1>4 DEF HandOverMails
  <2>4. InTyped'
    BY <1>1, <1>2, <2>1, <2>3 DEF InTyped, given
  <2>5. Buffered'
    BY <1>0, <1>2, <2>3, FS_EmptySet DEF Buffered, given
  <2> QED BY <1>1, <1>2, <2>2, <2>3, <2>4, <2>5 DEF ChatTypeOK, InTyped, OutTyped
<1>5. CASE FailPoll
  <2>1. batch' = {} /\ UNCHANGED <<memory, forgotten, published, waiting>>
    BY <1>5 DEF FailPoll
  <2>5. doing' \in [Delivery -> 0..6]
    <3>1. ASSUME NEW m \in batch, doing' = [doing EXCEPT ![<<m, 1>>] = 0] PROVE doing' \in [Delivery -> 0..6]
      <4>1. m \in Message
        BY <1>1 DEF InTyped
      <4>2. <<m, 1>> \in Delivery /\ 0 \in 0..6
        BY <4>1 DEF Delivery, Copies
      <4> QED BY <1>0, <3>1, <4>2, Apart DEF Moved
    <3> QED BY <1>1, <1>5, <3>1 DEF FailPoll, InTyped
  <2>2. chatFaults' \in 0..MaxChatFaults
    BY <1>1, <1>5, FaultCounted DEF FailPoll
  <2>3. InTyped'
    BY <1>1, <1>2, <2>1, <2>5 DEF InTyped, given
  <2>4. Buffered'
    BY <1>0, <1>2, <2>1, FS_EmptySet DEF Buffered, given
  <2> QED BY <1>1, <1>2, <2>1, <2>2, <2>3, <2>4 DEF ChatTypeOK, InTyped, OutTyped
<1> QED BY <1>3, <1>4, <1>5

LEMMA FlushTyped ==
  ASSUME InboundInv, FlushAlbum
  PROVE  ChatTypeOK' /\ Buffered'
<1>0. ChatTypeOK /\ Buffered
  BY DEF InboundInv
<1>1. InTyped /\ OutTyped /\ typing \in BOOLEAN /\ waiting \in Nat /\ chatFaults \in 0..MaxChatFaults
  BY <1>0, Typed
<1>2. published' \in [Message -> Nat] /\ waiting' \in Nat
  BY <1>0, Handed DEF FlushAlbum
<1>3. OutTyped' /\ typing' = typing /\ chatFaults' = chatFaults
  BY <1>1 DEF OutTyped, FlushAlbum, replying
<1>4. InTyped'
  BY <1>1, <1>2 DEF InTyped, FlushAlbum, given, remembered
<1>5. Buffered'
  BY <1>0 DEF Buffered, FlushAlbum, given, remembered
<1> QED BY <1>1, <1>2, <1>3, <1>4, <1>5 DEF ChatTypeOK, InTyped, OutTyped

(* Outbound.  What is in send is a reply with a number. *)
LEMMA NoSendTyped ==
  /\ NoSend \in Send
  /\ NoSend.number = 0 /\ NoSend.piece = 1 /\ NoSend.tries = 0 /\ NoSend.progress = FALSE
<1>1. FALSE \in BOOLEAN /\ 1 \in 1..2 /\ 0 \in 0..2 /\ 0 \in Nat
  OBVIOUS
<1>2. [k \in 1..2 |-> "none"] \in [1..2 -> PieceKind]
  BY DEF PieceKind
<1> QED BY <1>1, <1>2 DEF NoSend, Send

LEMMA TriesAre == Tries \in 1..3
BY DEF Tries

(* The form a failed piece leaves is a form. *)
LEMMA FormTypes ==
  ASSUME sending \in Send
  PROVE  sending.form \in [1..2 -> PieceKind] /\ FormAfter \in [1..2 -> PieceKind] /\ KindNow \in PieceKind
<1>1. sending.form \in [1..2 -> PieceKind] /\ sending.piece \in 1..2
  BY DEF Send
<1>2. "text" \in PieceKind
  BY DEF PieceKind
<1>3. [sending.form EXCEPT ![2] = "text"] \in [1..2 -> PieceKind]
  BY <1>1, <1>2
<1> QED BY <1>1, <1>3 DEF FormAfter, KindNow

(* EndSend and NextPiece, as what they make of the send under way. *)
LEMMA EndTypes ==
  ASSUME EndSend, typing \in BOOLEAN
  PROVE  sending' = NoSend /\ typing' \in BOOLEAN
<1>1. PICK s : s = (typing /\ ~(service = "discord" \/ (service = "matrix" /\ ~sending.progress)))
  OBVIOUS
<1>2. s \in BOOLEAN
  BY <1>1
<1> QED BY <1>1, <1>2 DEF EndSend

LEMMA NextTypes ==
  ASSUME NEW f \in [1..2 -> PieceKind], NextPiece(f), typing \in BOOLEAN
  PROVE  /\ typing' \in BOOLEAN
         /\ \/ EndSend /\ sending' = NoSend
            \/ /\ sending' = [sending EXCEPT !.piece = 2, !.tries = 0, !.form = f] /\ sending.piece = 1
               /\ typing' = typing
<1>1. CASE sending.piece = 1 /\ f[2] # "none"
  BY <1>1 DEF NextPiece
<1>2. CASE ~(sending.piece = 1 /\ f[2] # "none")
  BY <1>2, EndTypes DEF NextPiece
<1> QED BY <1>1, <1>2

-----------------------------------------------------------------------------
(* Replies.  Numbers grow from what was delivered over what is in send to   *)
(* what waits in the queue.                                                 *)
Numbered ==
  /\ \A i, j \in 1..Len(outbound) : i < j => outbound[i].number < outbound[j].number
  /\ \A i \in 1..Len(outbound) : outbound[i].number > sending.number /\ outbound[i].number <= replies
  /\ sending.number <= replies
  /\ sending # NoSend => sending.number > 0
Behind(p) ==
  /\ \A k \in 1..Len(outbound) : p[1] < outbound[k].number
  /\ p[1] <= replies
  /\ sending # NoSend => Before(p, Piece) \/ (p = Piece /\ p \in repeated)
HeadCame(p) == p[2] = 2 => LedUp(p[1])
Ordered ==
  \A i, j \in 1..Len(delivered) : i < j =>
    \/ Before(delivered[i], delivered[j])
    \/ delivered[i] = delivered[j] /\ delivered[i] \in repeated

RepliesInv ==
  /\ OutTyped /\ Numbered /\ Ordered
  /\ \A i \in 1..Len(delivered) : Behind(delivered[i]) /\ HeadCame(delivered[i])
  /\ sending # NoSend => HeadCame(Piece)

LEMMA RepliesHold == RepliesInv => RepliesInOrder
<1> SUFFICES ASSUME RepliesInv PROVE RepliesInOrder
  OBVIOUS
<1>1. DOMAIN delivered = 1..Len(delivered)
  BY DEF RepliesInv, OutTyped
<1> QED BY <1>1 DEF RepliesInv, RepliesInOrder, Ordered, HeadCame

LEMMA Quiet ==
  ASSUME RepliesInv, UNCHANGED <<service, replying>>
  PROVE  RepliesInv'
<1>1. /\ replies' = replies /\ outbound' = outbound /\ sending' = sending /\ delivered' = delivered
      /\ repeated' = repeated /\ missed' = missed /\ service' = service
  BY DEF replying
<1>2. Piece' = Piece
  BY <1>1 DEF Piece
<1>3. Abandons' = Abandons /\ \A p : Behind(p)' <=> Behind(p)
  BY <1>1, <1>2 DEF Behind, Abandons
<1>4. \A p : HeadCame(p)' <=> HeadCame(p)
  BY <1>1, <1>3 DEF HeadCame, LedUp
<1>5. Numbered' /\ Ordered' /\ OutTyped'
  BY <1>1 DEF RepliesInv, Numbered, Ordered, OutTyped
<1> QED BY <1>1, <1>2, <1>3, <1>4, <1>5 DEF RepliesInv

LEMMA AnswersKeep ==
  ASSUME RepliesInv, NEW b \in BOOLEAN, Answers(b)
  PROVE  RepliesInv'
<1>1. /\ replies' = replies + 1 /\ service' = service
      /\ sending' = sending /\ delivered' = delivered /\ repeated' = repeated /\ missed' = missed
      /\ outbound' = Append(outbound, [number |-> replies + 1, progress |-> b])
  BY DEF Answers, given
<1>2. replies \in Nat /\ outbound \in Seq(Reply) /\ delivered \in Seq(Nat \X (1..2))
  BY DEF RepliesInv, OutTyped
<1>3. PICK r : r = [number |-> replies + 1, progress |-> b]
  OBVIOUS
<1>4. r \in Reply /\ r.number = replies + 1
  BY <1>2, <1>3 DEF Reply
<1>5. /\ outbound' \in Seq(Reply) /\ Len(outbound') = Len(outbound) + 1
      /\ \A i \in 1..Len(outbound) : outbound'[i] = outbound[i]
      /\ outbound'[Len(outbound) + 1] = r
  BY <1>1, <1>2, <1>3, <1>4
<1>6. OutTyped'
  <2>1. OutTyped
    BY DEF RepliesInv
  <2>2. replies' \in Nat /\ outbound' \in Seq(Reply)
    BY <1>1, <1>2, <1>5
  <2>3. sending' = sending /\ delivered' = delivered /\ repeated' = repeated /\ missed' = missed
    BY <1>1
  <2> QED BY <2>1, <2>2, <2>3 DEF OutTyped
<1>7. \A i \in 1..Len(outbound') : i \in 1..Len(outbound) \/ i = Len(outbound) + 1
  BY <1>2, <1>5
<1>8. ASSUME NEW i \in 1..Len(outbound)
      PROVE  outbound[i].number <= replies /\ outbound[i].number \in Nat
  <2>1. outbound[i] \in Reply
    BY <1>2
  <2>2. outbound[i].number <= replies
    BY DEF RepliesInv, Numbered
  <2> QED BY <2>1, <2>2 DEF Reply
<1>9. sending.number \in Nat /\ sending.number <= replies
  BY DEF RepliesInv, OutTyped, Numbered, Send
<1>10. Numbered'
  <2>1. ASSUME NEW i \in 1..Len(outbound'), NEW j \in 1..Len(outbound'), i < j
        PROVE  outbound'[i].number < outbound'[j].number
    <3>1. i \in 1..Len(outbound)
      BY <1>2, <1>5, <2>1
    <3>2. CASE j \in 1..Len(outbound)
      BY <1>5, <2>1, <3>1, <3>2 DEF RepliesInv, Numbered
    <3>3. CASE j = Len(outbound) + 1
      <4>1. outbound'[i] = outbound[i] /\ outbound'[j] = r
        BY <1>5, <3>1, <3>3
      <4>2. outbound[i].number <= replies /\ outbound[i].number \in Nat
        BY <1>8, <3>1
      <4>3. outbound[i].number < replies + 1
        BY <1>2, <4>2
      <4> QED BY <1>4, <4>1, <4>3
    <3> QED BY <1>7, <3>2, <3>3
  <2>2. ASSUME NEW i \in 1..Len(outbound')
        PROVE  outbound'[i].number > sending.number /\ outbound'[i].number <= replies + 1
    <3>1. CASE i \in 1..Len(outbound)
      BY <1>2, <1>5, <1>8, <3>1 DEF RepliesInv, Numbered
    <3>2. CASE i = Len(outbound) + 1
      BY <1>2, <1>4, <1>5, <1>9, <3>2
    <3> QED BY <1>7, <3>1, <3>2
  <2>3. sending.number <= replies + 1 /\ (sending # NoSend => sending.number > 0)
    BY <1>2, <1>9 DEF RepliesInv, Numbered
  <2> QED BY <1>1, <2>1, <2>2, <2>3 DEF Numbered
<1>11. Piece' = Piece /\ Abandons' = Abandons
  BY <1>1 DEF Piece, Abandons
<1>12. \A p : HeadCame(p)' <=> HeadCame(p)
  BY <1>1, <1>11 DEF HeadCame, LedUp
<1>13. ASSUME NEW i \in 1..Len(delivered) PROVE Behind(delivered[i])'
  <2>1. PICK p : p = delivered[i]
    OBVIOUS
  <2>2. Behind(p) /\ p[1] \in Nat
    BY <1>2, <2>1 DEF RepliesInv
  <2>3. ASSUME NEW k \in 1..Len(outbound') PROVE p[1] < outbound'[k].number
    <3>1. CASE k \in 1..Len(outbound)
      BY <1>5, <2>2, <3>1 DEF Behind
    <3>2. CASE k = Len(outbound) + 1
      <4>1. p[1] <= replies
        BY <2>2 DEF Behind
      <4> QED BY <1>2, <1>4, <1>5, <2>2, <3>2, <4>1
    <3> QED BY <1>7, <3>1, <3>2
  <2>4. p[1] <= replies'
    BY <1>1, <1>2, <2>2 DEF Behind
  <2>5. sending' # NoSend => Before(p, Piece') \/ (p = Piece' /\ p \in repeated')
    BY <1>1, <1>11, <2>2 DEF Behind
  <2>6. Behind(p)'
    BY <2>3, <2>4, <2>5 DEF Behind
  <2> QED BY <1>1, <2>1, <2>6
<1>14. Ordered'
  BY <1>1 DEF Ordered, RepliesInv
<1> QED BY <1>1, <1>6, <1>10, <1>11, <1>12, <1>13, <1>14 DEF RepliesInv

LEMMA DispatchKeeps ==
  ASSUME RepliesInv, DispatchReply
  PROVE  RepliesInv'
<1>0. PICK f \in Forms : sending' = [NoSend EXCEPT !.number = Head(outbound).number,
                                                !.progress = Head(outbound).progress, !.form = f]
  BY DEF DispatchReply
<1>1. /\ sending = NoSend /\ outbound # <<>> /\ outbound' = Tail(outbound)
      /\ service' = service /\ replies' = replies /\ delivered' = delivered /\ repeated' = repeated
      /\ missed' = missed
  BY DEF DispatchReply, given
<1>2. OutTyped /\ Numbered
  BY DEF RepliesInv
<1>3. replies \in Nat /\ outbound \in Seq(Reply) /\ delivered \in Seq(Nat \X (1..2))
  BY <1>2 DEF OutTyped
<1>4. PICK r : r = Head(outbound)
  OBVIOUS
<1>5. /\ r \in Reply /\ r = outbound[1] /\ Len(outbound) >= 1 /\ 1 \in 1..Len(outbound)
      /\ outbound' \in Seq(Reply) /\ Len(outbound') = Len(outbound) - 1
      /\ \A i \in 1..Len(outbound') : outbound'[i] = outbound[i + 1] /\ i + 1 \in 1..Len(outbound)
  BY <1>1, <1>3, <1>4
<1>6. /\ sending' \in Send
      /\ sending'.number = r.number /\ sending'.piece = 1 /\ r.number \in Nat
  <2>1. f \in [1..2 -> PieceKind]
    BY DEF Forms
  <2> QED BY <1>0, <1>4, <1>5, <2>1, NoSendTyped DEF Reply, Send
<1>7. r.number > 0 /\ r.number <= replies
  BY <1>1, <1>2, <1>5, NoSendTyped DEF Numbered
<1>8. OutTyped'
  <2>1. repeated \subseteq Nat \X (1..2) /\ missed \subseteq (Nat \X (1..2)) \X PieceKind
    BY <1>2 DEF OutTyped
  <2>2. /\ replies' \in Nat /\ delivered' \in Seq(Nat \X (1..2)) /\ repeated' \subseteq Nat \X (1..2)
        /\ missed' \subseteq (Nat \X (1..2)) \X PieceKind
    BY <1>1, <1>3, <2>1
  <2> QED BY <1>5, <1>6, <2>2 DEF OutTyped
<1>9. Numbered'
  <2>1. ASSUME NEW i \in 1..Len(outbound'), NEW j \in 1..Len(outbound'), i < j
        PROVE  outbound'[i].number < outbound'[j].number
    <3>1. i + 1 < j + 1
      BY <1>3, <1>5, <2>1
    <3> QED BY <1>2, <1>5, <3>1 DEF Numbered
  <2>2. ASSUME NEW i \in 1..Len(outbound')
        PROVE  outbound'[i].number > r.number /\ outbound'[i].number <= replies
    <3>1. PICK j : j = i + 1
      OBVIOUS
    <3>2. j \in 1..Len(outbound) /\ 1 < j /\ outbound'[i] = outbound[j]
      BY <1>3, <1>5, <3>1
    <3>3. outbound[1].number < outbound[j].number /\ outbound[j].number <= replies
      BY <1>2, <1>5, <3>2 DEF Numbered
    <3>4. outbound[j].number \in Nat
      <4>1. outbound[j] \in Reply
        BY <1>3, <3>2
      <4> QED BY <4>1 DEF Reply
    <3> QED BY <1>5, <1>6, <3>2, <3>3, <3>4
  <2> QED BY <1>1, <1>6, <1>7, <2>1, <2>2 DEF Numbered
<1>10. Piece' = <<r.number, 1>> /\ Abandons' = Abandons
  BY <1>6 DEF Piece, Abandons
<1>11. ASSUME NEW i \in 1..Len(delivered) PROVE Behind(delivered[i])' /\ HeadCame(delivered[i])'
  <2>1. PICK p : p = delivered[i]
    OBVIOUS
  <2>2. Behind(p) /\ HeadCame(p) /\ p[1] \in Nat
    BY <1>3, <2>1 DEF RepliesInv
  <2>3. ASSUME NEW k \in 1..Len(outbound') PROVE p[1] < outbound'[k].number
    BY <1>5, <2>2 DEF Behind
  <2>4. p[1] < r.number /\ p[1] <= replies
    BY <1>5, <2>2 DEF Behind
  <2>5. Before(p, Piece')
    BY <1>10, <2>4 DEF Before
  <2>6. Behind(p)'
    BY <1>1, <2>3, <2>4, <2>5 DEF Behind
  <2>7. HeadCame(p)'
    BY <1>1, <1>10, <2>2 DEF HeadCame, LedUp
  <2> QED BY <1>1, <2>1, <2>6, <2>7
<1>12. HeadCame(Piece)'
  BY <1>10 DEF HeadCame, LedUp
<1>13. Ordered'
  BY <1>1 DEF Ordered, RepliesInv
<1> QED BY <1>1, <1>8, <1>9, <1>11, <1>12, <1>13 DEF RepliesInv

(* What holds of the chat after one more piece, or none, reached it, and    *)
(* after one more, or none, was given up.                                   *)
LedUpTo(n) ==
  \/ Contains(delivered', <<n, 1>>)
  \/ \E kind \in PieceKind : <<<<n, 1>>, kind>> \in missed' /\ <<service', kind>> \notin Abandons
Said ==
  /\ delivered' \in Seq(Nat \X (1..2)) /\ repeated' \subseteq Nat \X (1..2)
  /\ missed' \subseteq (Nat \X (1..2)) \X PieceKind
  /\ Ordered'
  /\ \A i \in 1..Len(delivered') :
       /\ \A k \in 1..Len(outbound) : delivered'[i][1] < outbound[k].number
       /\ delivered'[i][1] <= replies
       /\ Before(delivered'[i], Piece) \/ delivered'[i] = Piece
       /\ delivered'[i][2] = 2 => LedUpTo(delivered'[i][1])
  /\ sending.piece = 2 => LedUpTo(sending.number)
GivesUp == missed \subseteq missed' /\ missed' \subseteq (Nat \X (1..2)) \X PieceKind /\ service' = service

LEMMA LedStays ==
  ASSUME GivesUp, \A q : Contains(delivered, q) => Contains(delivered', q), NEW n, LedUp(n)
  PROVE  LedUpTo(n)
BY DEF LedUp, LedUpTo, GivesUp

LEMMA PieceIs ==
  ASSUME OutTyped
  PROVE  /\ Piece \in Nat \X (1..2) /\ Piece[1] = sending.number /\ Piece[2] = sending.piece
         /\ sending.number \in Nat /\ sending.piece \in 1..2
BY DEF OutTyped, Piece, Send

LEMMA SaidNothing ==
  ASSUME RepliesInv, sending # NoSend, UNCHANGED <<delivered, repeated>>, GivesUp
  PROVE  Said
<1>1. delivered' = delivered /\ repeated' = repeated /\ OutTyped
  BY DEF RepliesInv
<1>2. Ordered'
  BY <1>1 DEF Ordered, RepliesInv
<1>3. ASSUME NEW i \in 1..Len(delivered) PROVE Behind(delivered[i]) /\ HeadCame(delivered[i])
  BY DEF RepliesInv
<1>4. HeadCame(Piece) /\ Piece[1] = sending.number /\ Piece[2] = sending.piece
  BY <1>1, PieceIs DEF RepliesInv
<1>5. delivered \in Seq(Nat \X (1..2)) /\ repeated \subseteq Nat \X (1..2)
  BY <1>1 DEF OutTyped
<1>6. \A n : LedUp(n) => LedUpTo(n)
  BY <1>1, LedStays
<1> QED BY <1>1, <1>2, <1>3, <1>4, <1>5, <1>6 DEF Said, Behind, HeadCame, GivesUp

LEMMA SaidPiece ==
  ASSUME RepliesInv, sending # NoSend, delivered' = Append(delivered, Piece),
         repeated \subseteq repeated', repeated' \subseteq Nat \X (1..2), GivesUp
  PROVE  Said /\ Contains(delivered', Piece)
<1>1. OutTyped /\ Numbered
  BY DEF RepliesInv
<1>2. delivered \in Seq(Nat \X (1..2)) /\ Piece \in Nat \X (1..2) /\ Piece[1] = sending.number
  BY <1>1, PieceIs DEF OutTyped
<1>3. /\ delivered' \in Seq(Nat \X (1..2)) /\ Len(delivered') = Len(delivered) + 1
      /\ \A i \in 1..Len(delivered) : delivered'[i] = delivered[i]
      /\ delivered'[Len(delivered) + 1] = Piece
  BY <1>2
<1>4. \A i \in 1..Len(delivered') : i \in 1..Len(delivered) \/ i = Len(delivered) + 1
  BY <1>2, <1>3
<1>5. \A q : Contains(delivered, q) => Contains(delivered', q)
  <2> SUFFICES ASSUME NEW q, Contains(delivered, q) PROVE Contains(delivered', q)
    OBVIOUS
  <2>1. PICK i \in 1..Len(delivered) : delivered[i] = q
    BY DEF Contains
  <2>2. i \in 1..Len(delivered') /\ delivered'[i] = q
    BY <1>2, <1>3, <2>1
  <2> QED BY <2>2 DEF Contains
<1>6. Contains(delivered', Piece)
  <2>1. Len(delivered) + 1 \in 1..Len(delivered')
    BY <1>2, <1>3
  <2> QED BY <1>3, <2>1 DEF Contains
<1>12. \A n : LedUp(n) => LedUpTo(n)
  BY <1>5, LedStays
<1>7. ASSUME NEW i \in 1..Len(delivered)
      PROVE  /\ Behind(delivered[i]) /\ HeadCame(delivered[i])
             /\ Before(delivered[i], Piece) \/ (delivered[i] = Piece /\ delivered[i] \in repeated)
  BY DEF RepliesInv, Behind
<1>8. HeadCame(Piece)
  BY DEF RepliesInv
<1>9. Ordered'
  <2>1. ASSUME NEW i \in 1..Len(delivered'), NEW j \in 1..Len(delivered'), i < j
        PROVE  \/ Before(delivered'[i], delivered'[j])
               \/ delivered'[i] = delivered'[j] /\ delivered'[i] \in repeated'
    <3>1. i \in 1..Len(delivered)
      BY <1>2, <1>3, <2>1
    <3>2. CASE j \in 1..Len(delivered)
      <4>1. \/ Before(delivered[i], delivered[j])
            \/ delivered[i] = delivered[j] /\ delivered[i] \in repeated
        BY <2>1, <3>1, <3>2 DEF RepliesInv, Ordered
      <4> QED BY <1>3, <3>1, <3>2, <4>1
    <3>3. CASE j = Len(delivered) + 1
      BY <1>3, <1>7, <3>1, <3>3
    <3> QED BY <1>4, <3>2, <3>3
  <2> QED BY <2>1 DEF Ordered
<1>10. ASSUME NEW i \in 1..Len(delivered')
       PROVE  /\ \A k \in 1..Len(outbound) : delivered'[i][1] < outbound[k].number
              /\ delivered'[i][1] <= replies
              /\ Before(delivered'[i], Piece) \/ delivered'[i] = Piece
              /\ delivered'[i][2] = 2 => LedUpTo(delivered'[i][1])
  <2>1. CASE i \in 1..Len(delivered)
    <3>1. PICK p : p = delivered[i]
      OBVIOUS
    <3>2. delivered'[i] = p /\ Behind(p) /\ HeadCame(p) /\ (Before(p, Piece) \/ p = Piece)
      BY <1>3, <1>7, <2>1, <3>1
    <3> QED BY <1>12, <3>2 DEF Behind, HeadCame
  <2>2. CASE i = Len(delivered) + 1
    <3>1. delivered'[i] = Piece
      BY <1>3, <2>2
    <3>2. \A k \in 1..Len(outbound) : Piece[1] < outbound[k].number
      <4>1. ASSUME NEW k \in 1..Len(outbound) PROVE Piece[1] < outbound[k].number
        <5>1. outbound[k].number > sending.number /\ outbound[k] \in Reply
          BY <1>1 DEF Numbered, OutTyped
        <5>2. outbound[k].number \in Nat /\ sending.number \in Nat
          BY <1>1, <5>1, PieceIs DEF Reply
        <5> QED BY <1>2, <5>1, <5>2
      <4> QED BY <4>1
    <3>3. Piece[1] <= replies
      BY <1>1, <1>2 DEF Numbered
    <3> QED BY <1>8, <1>12, <3>1, <3>2, <3>3 DEF HeadCame
  <2> QED BY <1>4, <2>1, <2>2
<1>11. sending.piece = 2 => LedUpTo(sending.number)
  BY <1>1, <1>8, <1>12, PieceIs DEF HeadCame
<1> QED BY <1>3, <1>6, <1>9, <1>10, <1>11 DEF Said, GivesUp

LEMMA Unmoved ==
  ASSUME RepliesInv, Said, NEW s \in Send,
         sending' = s, s.number = sending.number \/ s = NoSend, sending # NoSend,
         UNCHANGED <<service, replies, outbound>>
  PROVE  OutTyped' /\ Numbered' /\ Ordered'
<1>1. OutTyped /\ Numbered
  BY DEF RepliesInv
<1>2. OutTyped'
  BY <1>1 DEF OutTyped, Said
<1>3. s.number <= sending.number /\ s.number \in Nat /\ sending.number \in Nat
  BY <1>1, NoSendTyped DEF OutTyped, Send
<1>4. sending.number > 0 /\ (s # NoSend => s.number > 0)
  BY <1>1 DEF Numbered
<1>5. ASSUME NEW i \in 1..Len(outbound)
      PROVE  outbound[i].number > s.number
  <2>1. outbound[i].number > sending.number /\ outbound[i] \in Reply
    BY <1>1 DEF Numbered, OutTyped
  <2>2. outbound[i].number \in Nat
    BY <2>1 DEF Reply
  <2> QED BY <1>3, <2>1, <2>2
<1>6. s.number <= replies
  <2>1. replies \in Nat /\ sending.number <= replies
    BY <1>1 DEF Numbered, OutTyped
  <2> QED BY <1>3, <2>1
<1>7. Numbered'
  BY <1>1, <1>4, <1>5, <1>6 DEF Numbered
<1> QED BY <1>2, <1>7 DEF Said

(* What is behind the new send, given what was said. *)
LEMMA AfterSaid ==
  ASSUME Said, OutTyped' /\ Numbered' /\ Ordered', service' = service,
         UNCHANGED <<replies, outbound>>,
         \A i \in 1..Len(delivered') : sending' # NoSend =>
           Before(delivered'[i], Piece') \/ (delivered'[i] = Piece' /\ delivered'[i] \in repeated'),
         sending' # NoSend /\ Piece'[2] = 2 => LedUpTo(Piece'[1])
  PROVE  RepliesInv'
<1>1. \A n : LedUpTo(n) <=> LedUp(n)'
  BY DEF LedUp, LedUpTo, Abandons
<1>2. ASSUME NEW i \in 1..Len(delivered') PROVE Behind(delivered[i])' /\ HeadCame(delivered[i])'
  <2>1. PICK p : p = delivered'[i]
    OBVIOUS
  <2>2. /\ \A k \in 1..Len(outbound) : p[1] < outbound[k].number
        /\ p[1] <= replies
        /\ p[2] = 2 => LedUpTo(p[1])
        /\ sending' # NoSend => Before(p, Piece') \/ (p = Piece' /\ p \in repeated')
    BY <2>1 DEF Said
  <2>3. Behind(p)'
    BY <2>2 DEF Behind
  <2>4. HeadCame(p)'
    BY <1>1, <2>2 DEF HeadCame
  <2> QED BY <2>1, <2>3, <2>4
<1>3. (sending # NoSend => HeadCame(Piece))'
  <2>1. PICK p : p = Piece'
    OBVIOUS
  <2>2. sending' # NoSend => (p[2] = 2 => LedUp(p[1])')
    BY <1>1, <2>1
  <2> QED BY <2>1, <2>2 DEF HeadCame
<1> QED BY <1>2, <1>3 DEF RepliesInv

LEMMA AfterEnd ==
  ASSUME RepliesInv, Said, sending # NoSend, sending' = NoSend,
         UNCHANGED <<service, replies, outbound>>
  PROVE  RepliesInv'
<1>1. OutTyped' /\ Numbered' /\ Ordered'
  BY NoSendTyped, Unmoved
<1> QED BY <1>1, AfterSaid

LEMMA AfterNext ==
  ASSUME RepliesInv, Said, sending # NoSend, sending.piece = 1,
         NEW f \in [1..2 -> PieceKind], sending' = [sending EXCEPT !.piece = 2, !.tries = 0, !.form = f],
         LedUpTo(sending.number),
         UNCHANGED <<service, replies, outbound>>
  PROVE  RepliesInv'
<1>0. OutTyped
  BY DEF RepliesInv
<1>1. PICK s : s = [sending EXCEPT !.piece = 2, !.tries = 0, !.form = f]
  OBVIOUS
<1>2. s \in Send /\ s.number = sending.number /\ s.piece = 2
  <2>1. sending \in Send
    BY <1>0 DEF OutTyped
  <2>2. 2 \in 1..2 /\ 0 \in 0..2
    OBVIOUS
  <2> QED BY <1>1, <2>1, <2>2 DEF Send
<1>3. OutTyped' /\ Numbered' /\ Ordered'
  BY <1>1, <1>2, Unmoved
<1>5. /\ Piece = <<sending.number, 1>> /\ Piece' = <<sending.number, 2>> /\ sending.number \in Nat
      /\ Piece'[1] = sending.number
  BY <1>0, <1>1, <1>2, PieceIs DEF Piece
<1>6. ASSUME NEW i \in 1..Len(delivered') PROVE Before(delivered'[i], Piece')
  <2>1. PICK p : p = delivered'[i]
    OBVIOUS
  <2>2. Before(p, Piece) \/ p = Piece
    BY <2>1 DEF Said
  <2>3. p \in Nat \X (1..2)
    BY <2>1 DEF Said
  <2>4. Before(p, Piece')
    BY <1>5, <2>2, <2>3 DEF Before
  <2> QED BY <2>1, <2>4
<1> QED BY <1>3, <1>5, <1>6, AfterSaid

LEMMA AfterRetry ==
  ASSUME RepliesInv, Said, sending # NoSend, NEW n \in 0..2, sending' = [sending EXCEPT !.tries = n],
         \A i \in 1..Len(delivered') : delivered'[i] = Piece => Piece \in repeated',
         UNCHANGED <<service, replies, outbound>>
  PROVE  RepliesInv'
<1>0. OutTyped
  BY DEF RepliesInv
<1>1. PICK s : s = [sending EXCEPT !.tries = n]
  OBVIOUS
<1>2. s \in Send /\ s.number = sending.number /\ s.piece = sending.piece
  BY <1>0, <1>1 DEF OutTyped, Send
<1>3. OutTyped' /\ Numbered' /\ Ordered'
  BY <1>1, <1>2, Unmoved
<1>4. Piece' = Piece /\ Piece[1] = sending.number /\ Piece[2] = sending.piece
  BY <1>0, <1>1, <1>2, PieceIs DEF Piece
<1>5. ASSUME NEW i \in 1..Len(delivered')
      PROVE  Before(delivered'[i], Piece') \/ (delivered'[i] = Piece' /\ delivered'[i] \in repeated')
  <2>1. Before(delivered'[i], Piece) \/ delivered'[i] = Piece
    BY DEF Said
  <2> QED BY <1>4, <2>1
<1>6. Piece'[2] = 2 => LedUpTo(Piece'[1])
  BY <1>4 DEF Said
<1> QED BY <1>3, <1>5, <1>6, AfterSaid

LEMMA SendKeeps ==
  ASSUME RepliesInv, SendPiece, typing \in BOOLEAN
  PROVE  RepliesInv' /\ typing' \in BOOLEAN
<1>1. /\ sending # NoSend /\ delivered' = Append(delivered, Piece) /\ NextPiece(sending.form)
      /\ repeated' = repeated /\ missed' = missed /\ UNCHANGED <<service, replies, outbound>>
  BY DEF SendPiece, unsent, given
<1>2. OutTyped /\ sending \in Send
  BY DEF RepliesInv, OutTyped
<1>3. Said /\ Contains(delivered', Piece)
  <2>1. GivesUp
    BY <1>1, <1>2 DEF GivesUp, OutTyped
  <2> QED BY <1>1, <1>2, <2>1, SaidPiece DEF OutTyped
<1>4. /\ typing' \in BOOLEAN
      /\ \/ EndSend /\ sending' = NoSend
         \/ /\ sending' = [sending EXCEPT !.piece = 2, !.tries = 0, !.form = sending.form]
            /\ sending.piece = 1 /\ typing' = typing
  BY <1>1, <1>2, FormTypes, NextTypes
<1>5. sending.piece = 1 => LedUpTo(sending.number)
  BY <1>3 DEF LedUpTo, Piece
<1> QED BY <1>1, <1>2, <1>3, <1>4, <1>5, FormTypes, AfterEnd, AfterNext

LEMMA FailKeeps ==
  ASSUME RepliesInv, FailPiece, typing \in BOOLEAN
  PROVE  RepliesInv' /\ typing' \in BOOLEAN
<1>1. sending # NoSend /\ UNCHANGED <<service, replies, outbound>> /\ PieceRefused
  BY DEF FailPiece, unsent, given
<1>2. OutTyped /\ sending \in Send /\ KindNow \in PieceKind /\ Piece \in Nat \X (1..2)
  BY FormTypes, PieceIs DEF RepliesInv, OutTyped
<1>7. GivesUp
  <2>1. missed' = missed \/ missed' = missed \cup {<<Piece, KindNow>>}
    BY DEF FailPiece, TryAgain
  <2>2. missed \subseteq (Nat \X (1..2)) \X PieceKind /\ <<Piece, KindNow>> \in (Nat \X (1..2)) \X PieceKind
    BY <1>2 DEF OutTyped
  <2> QED BY <1>1, <2>1, <2>2 DEF GivesUp
<1>3. /\ Said
      /\ \A i \in 1..Len(delivered') : delivered'[i] = Piece => Piece \in repeated'
  <2>1. CASE UNCHANGED <<delivered, repeated>>
    <3>1. ASSUME NEW i \in 1..Len(delivered), delivered[i] = Piece PROVE Piece \in repeated
      <4>1. Before(Piece, Piece) \/ Piece \in repeated
        BY <1>1, <3>1 DEF RepliesInv, Behind
      <4>2. ~Before(Piece, Piece)
        BY <1>2, PieceIs DEF Before
      <4> QED BY <4>1, <4>2
    <3> QED BY <1>1, <1>7, <2>1, <3>1, SaidNothing
  <2>2. CASE delivered' = Append(delivered, Piece) /\ repeated' = repeated \cup {Piece}
    <3>1. repeated' \subseteq Nat \X (1..2) /\ repeated \subseteq repeated' /\ Piece \in repeated'
      BY <1>2, <2>2, PieceIs DEF OutTyped
    <3> QED BY <1>1, <1>7, <2>2, <3>1, SaidPiece
  <2> QED BY <1>1, <2>1, <2>2 DEF PieceRefused
<1>4. CASE TryAgain
  <2>1. sending.tries + 1 \in 0..2
    BY <1>2, <1>4, TriesAre DEF TryAgain, Send
  <2>2. sending' = [sending EXCEPT !.tries = sending.tries + 1] /\ typing' = typing
    BY <1>4 DEF TryAgain
  <2> QED BY <1>1, <1>3, <2>1, <2>2, AfterRetry
<1>5. CASE EndSend
  BY <1>1, <1>3, <1>5, EndTypes, AfterEnd
<1>6. CASE /\ missed' = missed \cup {<<Piece, KindNow>>} /\ <<service, KindNow>> \notin Abandons
           /\ NextPiece(FormAfter)
  <2>1. FormAfter \in [1..2 -> PieceKind]
    BY <1>2, FormTypes
  <2>2. /\ typing' \in BOOLEAN
        /\ \/ EndSend /\ sending' = NoSend
           \/ /\ sending' = [sending EXCEPT !.piece = 2, !.tries = 0, !.form = FormAfter]
              /\ sending.piece = 1 /\ typing' = typing
    BY <1>6, <2>1, NextTypes
  <2>3. sending.piece = 1 => LedUpTo(sending.number)
    <3>1. sending.piece = 1 => Piece = <<sending.number, 1>>
      BY DEF Piece
    <3>2. <<Piece, KindNow>> \in missed' /\ <<service', KindNow>> \notin Abandons
      BY <1>1, <1>6
    <3> QED BY <1>2, <3>1, <3>2 DEF LedUpTo
  <2> QED BY <1>1, <1>3, <2>1, <2>2, <2>3, AfterEnd, AfterNext
<1> QED BY <1>4, <1>5, <1>6 DEF FailPiece

-----------------------------------------------------------------------------
(* Typing.  Two services ask is_allowed before they begin to type; Telegram *)
(* stops when it begins to send, so that a send never owes it anything.     *)
Admitted ==
  service \in {"discord", "matrix"} => \A d \in Delivery : Way(d) => d[1] \in allowed
Owed ==
  \/ \E d \in Delivery : At(d, "publish")
  \/ waiting > 0 \/ album # {}
  \/ \E i \in 1..Len(outbound) : ~outbound[i].progress
  \/ sending # NoSend /\ (service = "discord" \/ (service = "matrix" /\ ~sending.progress))
  \/ service = "telegram" /\ allowed # Message
TypingInv ==
  /\ Admitted
  /\ typing => service \in {"discord", "telegram", "matrix"} /\ Owed

LEMMA TypingHolds == ChatTypeOK /\ TypingInv => TypingOwed
<1> SUFFICES ASSUME ChatTypeOK, TypingInv, typing PROVE TypingOwed
  BY DEF TypingOwed
<1>0. outbound \in Seq(Reply)
  BY ChatTypeOK DEF ChatTypeOK
<1>1. DOMAIN outbound = 1..Len(outbound)
  BY <1>0
<1>2. Owed
  BY DEF TypingInv
<1>3. (\E i \in 1..Len(outbound) : ~outbound[i].progress) => \E i \in DOMAIN outbound : ~outbound[i].progress
  BY <1>1
<1>4. CASE sending # NoSend /\ (service = "discord" \/ (service = "matrix" /\ ~sending.progress))
  BY <1>4 DEF TypingOwed
<1>5. CASE ~(sending # NoSend /\ (service = "discord" \/ (service = "matrix" /\ ~sending.progress)))
  BY <1>2, <1>3, <1>5 DEF Owed, TypingOwed
<1> QED BY <1>4, <1>5

LEMMA AdmittedMoving ==
  ASSUME ChatTypeOK, Admitted, NEW d \in Delivery, NEW i \in 0..6, Moved(d, i), UNCHANGED given,
         i \in 2..Len(Steps) => Way(d) \/ d[1] \in allowed
  PROVE  Admitted'
<1>1. Steps' = Steps /\ service' = service /\ allowed' = allowed
  BY DEF Steps, given
<1>2. doing'[d] = i /\ \A e \in Delivery : e # d => doing'[e] = doing[e]
  BY Apart
<1>3. ASSUME service \in {"discord", "matrix"}, NEW e \in Delivery, Way(e)' PROVE e[1] \in allowed
  <2>1. CASE e = d
    BY <1>1, <1>2, <1>3, <2>1 DEF Way, Admitted
  <2>2. CASE e # d
    BY <1>1, <1>2, <1>3, <2>2 DEF Way, Admitted
  <2> QED BY <2>1, <2>2
<1> QED BY <1>1, <1>3 DEF Admitted

(* What is owed outlasts the step of a handler that does not publish. *)
LEMMA OwedMoving ==
  ASSUME ChatTypeOK, NEW d \in Delivery, NEW i \in 0..6, Moved(d, i), ~At(d, "publish"),
         UNCHANGED <<given, waiting, outbound, sending>>, album \subseteq album', Owed
  PROVE  Owed'
<1>1. Steps' = Steps /\ service' = service /\ allowed' = allowed
  BY DEF Steps, given
<1>2. \A e \in Delivery : e # d => doing'[e] = doing[e]
  BY Apart
<1>3. \A e \in Delivery : At(e, "publish") => At(e, "publish")'
  BY <1>1, <1>2 DEF At, InHandler
<1> QED BY <1>1, <1>3 DEF Owed

LEMMA WayAt ==
  ASSUME ChatTypeOK, NEW d \in Delivery, NEW step, At(d, step), service \in {"discord", "matrix"}
  PROVE  step # "allow" => Way(d)
<1>1. doing[d] \in 1..Len(Steps) /\ Steps[doing[d]] = step /\ Len(Steps) \in 1..5
  BY AtStep
<1>2. step # "allow" => doing[d] # 1
  BY <1>1, StepsShape
<1> QED BY <1>1, <1>2 DEF Way

LEMMA HandlerAdmits ==
  ASSUME InboundInv, TypingInv, NEW d \in Delivery,
         \/ Deliver(d) \/ RememberMessage(d) \/ AllowSender(d)
         \/ FilterMessage(d) \/ FetchMedia(d) \/ StartTyping(d)
         \/ BufferPart(d) \/ PublishMessage(d)
  PROVE  Admitted'
<1>0. ChatTypeOK /\ Admitted /\ Len(Steps) \in 0..5
  BY StepsShape DEF InboundInv, TypingInv
<1>1. UNCHANGED given
  BY DEF Deliver, RememberMessage, AllowSender, FilterMessage, FetchMedia, StartTyping,
         BufferPart, PublishMessage
<1>2. CASE service \notin {"discord", "matrix"}
  BY <1>1, <1>2 DEF Admitted, given
<1>3. CASE service \in {"discord", "matrix"}
  <2>1. CASE Deliver(d)
    <3>1. Moved(d, 1)
      BY <2>1 DEF Deliver, OnWith, Moved
    <3> QED BY <1>0, <1>1, <3>1, AdmittedMoving
  <2>2. CASE AllowSender(d)
    <3>1. At(d, "allow")
      BY <2>2 DEF AllowSender
    <3>2. CASE d[1] \in allowed
      <4>1. PICK i \in 0..6 : Moved(d, i)
        BY <1>0, <2>2, <3>1, AtStep, MovedAlong DEF AllowSender
      <4> QED BY <1>0, <1>1, <3>2, <4>1, AdmittedMoving
    <3>3. CASE d[1] \notin allowed
      <4>1. Moved(d, Len(Steps) + 1) /\ Len(Steps) + 1 \in 0..6
        BY <1>0, <2>2, <3>3, MovedAlong DEF AllowSender
      <4>2. ~(Len(Steps) + 1 \in 2..Len(Steps))
        BY <1>0
      <4> QED BY <1>0, <1>1, <4>1, <4>2, AdmittedMoving
    <3> QED BY <3>2, <3>3
  <2>3. CASE ~Deliver(d) /\ ~AllowSender(d)
    <3>1. \E step : At(d, step) /\ step # "allow"
      BY <2>3 DEF RememberMessage, FilterMessage, FetchMedia, StartTyping, BufferPart, PublishMessage
    <3>2. OnWith(d) \/ OverWith(d)
      BY <2>3 DEF RememberMessage, FilterMessage, FetchMedia, StartTyping, BufferPart, PublishMessage
    <3>3. PICK i \in 0..6 : Moved(d, i)
      BY <1>0, <3>1, <3>2, AtStep, MovedAlong
    <3>4. Way(d)
      BY <1>0, <1>3, <3>1, WayAt
    <3> QED BY <1>0, <1>1, <3>3, <3>4, AdmittedMoving
  <2> QED BY <2>1, <2>2, <2>3
<1> QED BY <1>2, <1>3

LEMMA HandlerOwes ==
  ASSUME InboundInv, TypingInv, NEW d \in Delivery, typing',
         \/ Deliver(d) \/ RememberMessage(d) \/ AllowSender(d)
         \/ FilterMessage(d) \/ FetchMedia(d) \/ StartTyping(d)
         \/ BufferPart(d) \/ PublishMessage(d)
  PROVE  service' \in {"discord", "telegram", "matrix"} /\ Owed'
<1>0. ChatTypeOK /\ Admitted
  BY DEF InboundInv, TypingInv
<1>1. UNCHANGED given /\ UNCHANGED <<outbound, sending>>
  BY DEF Deliver, RememberMessage, AllowSender, FilterMessage, FetchMedia, StartTyping,
         BufferPart, PublishMessage, replying
<1>2. Steps' = Steps /\ service' = service /\ allowed' = allowed
  BY <1>1 DEF Steps, given
<1>3. CASE StartTyping(d)
  <2>1. At(d, "type") /\ OnWith(d)
    BY <1>3 DEF StartTyping
  <2>2. /\ doing[d] + 1 = Len(Steps) /\ service \in {"discord", "telegram", "matrix"}
        /\ doing[d] \in 1..Len(Steps) /\ doing[d] \in 0..5 /\ Len(Steps) \in 1..5
    BY <1>0, <2>1, AtStep, StepsShape
  <2>3. Steps[Len(Steps)] = "publish" /\ Len(Steps) \in 1..Len(Steps)
    BY <2>2, StepsShape
  <2>4. Moved(d, Len(Steps)) /\ Len(Steps) \in 0..6
    BY <1>0, <2>1, <2>2, MovedAlong
  <2>5. doing'[d] = Len(Steps)
    BY <1>0, <2>4, Apart
  <2>6. At(d, "publish")'
    BY <1>2, <2>3, <2>5 DEF At, InHandler
  <2> QED BY <1>2, <2>2, <2>6 DEF Owed
<1>4. CASE BufferPart(d)
  BY <1>2, <1>4 DEF BufferPart, IsPart, Owed
<1>5. CASE ~StartTyping(d) /\ ~BufferPart(d) /\ ~PublishMessage(d)
  <2>1. typing' = typing /\ album' = album /\ waiting' = waiting
    BY <1>5 DEF Deliver, RememberMessage, AllowSender, FilterMessage, FetchMedia, buffers
  <2>2. service \in {"discord", "telegram", "matrix"} /\ Owed
    BY <2>1 DEF TypingInv
  <2>3. /\ ~At(d, "publish") /\ (OnWith(d) \/ OverWith(d))
        /\ OnWith(d) => doing[d] \in 0..5
    <3>1. CASE Deliver(d)
      BY <3>1 DEF Deliver, At, InHandler
    <3>2. CASE ~Deliver(d)
      <4>1. \E step : At(d, step) /\ step # "publish"
        BY <1>5, <3>2 DEF RememberMessage, AllowSender, FilterMessage, FetchMedia
      <4>2. OnWith(d) \/ OverWith(d)
        BY <1>5, <3>2 DEF RememberMessage, AllowSender, FilterMessage, FetchMedia
      <4>3. ~At(d, "publish")
        BY <4>1 DEF At
      <4> QED BY <1>0, <4>1, <4>2, <4>3, AtStep
    <3> QED BY <3>1, <3>2
  <2>4. PICK i \in 0..6 : Moved(d, i)
    BY <1>0, <2>3, MovedAlong
  <2>5. Owed'
    BY <1>0, <1>1, <2>1, <2>2, <2>3, <2>4, OwedMoving
  <2> QED BY <1>2, <2>2, <2>5
<1>6. CASE PublishMessage(d)
  <2>1. typing' = typing /\ album' = album /\ HandleMessages({d[1]}) /\ At(d, "publish") /\ OnWith(d)
    BY <1>6 DEF PublishMessage, buffers
  <2>2. service \in {"discord", "telegram", "matrix"} /\ Owed
    BY <2>1 DEF TypingInv
  <2>3. d[1] \in Message
    BY DEF Delivery
  <2>4. CASE d[1] \in allowed
    <3>1. waiting' > 0
      BY <1>0, <2>1, <2>4, Handed
    <3> QED BY <1>2, <2>2, <3>1 DEF Owed
  <2>5. CASE d[1] \notin allowed
    <3>1. service = "telegram"
      BY <1>0, <2>1, <2>2, <2>5, WayAt DEF Admitted
    <3> QED BY <1>2, <2>3, <2>5, <3>1 DEF Owed
  <2> QED BY <2>4, <2>5
<1> QED BY <1>3, <1>4, <1>5, <1>6

ChatInv == InboundInv /\ RepliesInv /\ TypingInv

(* Nothing comes in while the Agent answers and the dispatcher sends. *)
SendsOnly ==
  UNCHANGED <<given, doing, remembered, published, album, flushing>>

LEMMA SendsFrame ==
  ASSUME InboundInv, TypingInv, SendsOnly
  PROVE  /\ InTyped' /\ Buffered' /\ OnceInv' /\ Admitted'
         /\ service' = service /\ allowed' = allowed /\ album' = album
         /\ \A e \in Delivery : At(e, "publish") => At(e, "publish")'
<1>1. Steps' = Steps
  BY DEF Steps, SendsOnly, given
<1>2. InTyped' /\ Buffered'
  BY Typed DEF InboundInv, InTyped, Buffered, SendsOnly, given, remembered
<1>3. OnceInv'
  BY OutboundOnce DEF SendsOnly
<1>4. \A e : Way(e)' <=> Way(e)
  BY <1>1 DEF Way, SendsOnly
<1>5. Admitted'
  BY <1>4 DEF TypingInv, Admitted, SendsOnly, given
<1>6. \A e \in Delivery : At(e, "publish") => At(e, "publish")'
  BY <1>1 DEF At, InHandler, SendsOnly
<1> QED BY <1>2, <1>3, <1>5, <1>6 DEF SendsOnly, given

LEMMA AnswersOwe ==
  ASSUME ChatInv, NEW b \in BOOLEAN, Answers(b), waiting > 0,
         waiting' \in Nat, waiting' = waiting \/ ~b
  PROVE  ChatInv'
<1>0. InboundInv /\ RepliesInv /\ TypingInv /\ ChatTypeOK
  BY DEF ChatInv, InboundInv
<1>1. /\ SendsOnly /\ typing' = typing /\ sending' = sending /\ chatFaults' = chatFaults
      /\ outbound' = Append(outbound, [number |-> replies + 1, progress |-> b])
  BY DEF Answers, SendsOnly, buffers
<1>2. RepliesInv'
  BY <1>0, AnswersKeep
<1>3. /\ InTyped' /\ Buffered' /\ OnceInv' /\ Admitted'
      /\ service' = service /\ allowed' = allowed /\ album' = album
      /\ \A e \in Delivery : At(e, "publish") => At(e, "publish")'
  BY <1>0, <1>1, SendsFrame
<1>4. typing \in BOOLEAN /\ chatFaults \in 0..MaxChatFaults /\ outbound \in Seq(Reply) /\ replies \in Nat
  BY <1>0 DEF ChatTypeOK
<1>5. ChatTypeOK'
  BY <1>1, <1>2, <1>3, <1>4 DEF ChatTypeOK, InTyped, OutTyped, RepliesInv
<1>6. ASSUME typing PROVE Owed'
  <2>1. PICK r : r = [number |-> replies + 1, progress |-> b]
    OBVIOUS
  <2>2. r \in Reply /\ r.progress = b
    BY <1>4, <2>1 DEF Reply
  <2>3. /\ Len(outbound') = Len(outbound) + 1 /\ Len(outbound) \in Nat
        /\ outbound'[Len(outbound) + 1] = r
    BY <1>1, <1>4, <2>1, <2>2
  <2>4. CASE waiting' = waiting
    BY <2>4 DEF Owed
  <2>5. CASE ~b
    <3>1. Len(outbound) + 1 \in 1..Len(outbound') /\ ~outbound'[Len(outbound) + 1].progress
      BY <2>2, <2>3, <2>5
    <3> QED BY <3>1 DEF Owed
  <2> QED BY <2>4, <2>5
<1>7. TypingInv'
  BY <1>0, <1>1, <1>3, <1>6 DEF TypingInv
<1> QED BY <1>2, <1>3, <1>5, <1>7 DEF ChatInv, InboundInv

LEMMA DispatchOwes ==
  ASSUME ChatInv, DispatchReply
  PROVE  ChatInv'
<1>0. InboundInv /\ RepliesInv /\ TypingInv /\ ChatTypeOK
  BY DEF ChatInv, InboundInv
<1>1. /\ SendsOnly /\ chatFaults' = chatFaults /\ waiting' = waiting
      /\ sending = NoSend /\ outbound # <<>> /\ outbound' = Tail(outbound)
      /\ \E f \in Forms : sending' = [NoSend EXCEPT !.number = Head(outbound).number,
                                                    !.progress = Head(outbound).progress, !.form = f]
  BY DEF DispatchReply, SendsOnly
<1>2. RepliesInv'
  BY <1>0, DispatchKeeps
<1>3. /\ InTyped' /\ Buffered' /\ OnceInv' /\ Admitted'
      /\ service' = service /\ allowed' = allowed /\ album' = album
      /\ \A e \in Delivery : At(e, "publish") => At(e, "publish")'
  BY <1>0, <1>1, SendsFrame
<1>4. waiting \in Nat /\ chatFaults \in 0..MaxChatFaults /\ outbound \in Seq(Reply)
  BY <1>0 DEF ChatTypeOK
<1>5. PICK r : r = Head(outbound)
  OBVIOUS
<1>6. /\ r \in Reply /\ r = outbound[1] /\ Len(outbound) \in Nat
      /\ Len(outbound') = Len(outbound) - 1
      /\ \A i \in 1..Len(outbound') : outbound'[i] = outbound[i + 1]
  BY <1>1, <1>4, <1>5
<1>7. PICK t : t = (typing /\ ~(service = "telegram" /\ ~r.progress))
  OBVIOUS
<1>8. typing' = t /\ t \in BOOLEAN
  BY <1>5, <1>7 DEF DispatchReply
<1>9. ChatTypeOK'
  BY <1>1, <1>2, <1>3, <1>4, <1>8 DEF ChatTypeOK, InTyped, OutTyped, RepliesInv
<1>10. ASSUME t PROVE service \in {"discord", "telegram", "matrix"} /\ Owed'
  <2>1. typing /\ ~(service = "telegram" /\ ~r.progress)
    BY <1>7, <1>10
  <2>2. service \in {"discord", "telegram", "matrix"} /\ Owed
    BY <1>0, <2>1 DEF TypingInv
  <2>3. sending' # NoSend /\ sending'.progress = r.progress
    <3>1. sending'.progress = r.progress
      BY <1>1, <1>5, NoSendTyped DEF NoSend
    <3>2. sending'.number = r.number
      BY <1>1, <1>5 DEF NoSend
    <3>3. 1 \in 1..Len(outbound)
      <4>1. Len(outbound) > 0
        BY <1>1, <1>4
      <4> QED BY <1>6, <4>1
    <3>4. outbound[1].number > sending.number
      BY <1>0, <3>3 DEF RepliesInv, Numbered
    <3>5. r.number \in Nat
      BY <1>6 DEF Reply
    <3>6. r.number > 0
      BY <1>1, <1>6, <3>4, NoSendTyped
    <3>7. r.number # 0
      BY <3>5, <3>6
    <3> QED BY <3>1, <3>2, <3>7, NoSendTyped
  <2>4. CASE \E i \in 1..Len(outbound) : ~outbound[i].progress
    <3>1. PICK i \in 1..Len(outbound) : ~outbound[i].progress
      BY <2>4
    <3>2. CASE i = 1
      <4>1. service \in {"discord", "matrix"} /\ ~r.progress
        BY <1>6, <2>1, <2>2, <3>1, <3>2
      <4> QED BY <1>3, <2>3, <4>1 DEF Owed
    <3>3. CASE i # 1
      <4>1. PICK j : j = i - 1
        OBVIOUS
      <4>2. j \in 1..Len(outbound') /\ j + 1 = i
        <5>1. i \in 1..Len(outbound)
          BY <3>1
        <5> QED BY <1>6, <3>3, <4>1, <5>1
      <4>3. ~outbound'[j].progress
        BY <1>6, <3>1, <4>2
      <4>4. \E k \in 1..Len(outbound') : ~outbound'[k].progress
        BY <4>2, <4>3
      <4> QED BY <1>3, <2>2, <4>4 DEF Owed
    <3> QED BY <2>2, <3>2, <3>3
  <2>5. CASE ~\E i \in 1..Len(outbound) : ~outbound[i].progress
    <3>1. \/ \E d \in Delivery : At(d, "publish")
          \/ waiting > 0 \/ album # {}
          \/ service = "telegram" /\ allowed # Message
      BY <1>1, <2>2, <2>5 DEF Owed
    <3> QED BY <1>1, <1>3, <2>2, <3>1 DEF Owed
  <2> QED BY <2>4, <2>5
<1>11. TypingInv'
  BY <1>3, <1>8, <1>10 DEF TypingInv
<1> QED BY <1>2, <1>3, <1>9, <1>11 DEF ChatInv, InboundInv

(* A send goes on with the same reply and leaves the chat typing, or ends. *)
LEMMA SendGoesOn ==
  ASSUME RepliesInv, typing \in BOOLEAN, SendPiece \/ FailPiece
  PROVE  \/ EndSend
         \/ /\ typing' = typing /\ sending' # NoSend
            /\ sending # NoSend /\ sending'.progress = sending.progress
<1>0. /\ sending \in Send
      /\ sending # NoSend /\ sending.number > 0 /\ sending.number \in Nat
  BY DEF Send, RepliesInv, OutTyped, Numbered, SendPiece, FailPiece
<1>1. sending.form \in [1..2 -> PieceKind] /\ FormAfter \in [1..2 -> PieceKind]
  BY <1>0, FormTypes
<1>2. ASSUME NEW f \in [1..2 -> PieceKind], NextPiece(f)
      PROVE  \/ EndSend
             \/ /\ typing' = typing /\ sending' # NoSend
                /\ sending # NoSend /\ sending'.progress = sending.progress
  <2>1. CASE EndSend
    BY <2>1
  <2>2. CASE sending' = [sending EXCEPT !.piece = 2, !.tries = 0, !.form = f] /\ typing' = typing
    <3>1. sending' = [sending EXCEPT !.piece = 2, !.tries = 0, !.form = f]
      BY <2>2
    <3>2. sending'.number = sending.number /\ sending'.progress = sending.progress
      BY <1>0, <3>1 DEF Send
    <3>3. sending'.number # 0
      BY <1>0, <3>2
    <3> QED BY <1>0, <2>2, <3>2, <3>3, NoSendTyped
  <2> QED BY <1>0, <1>2, <2>1, <2>2, NextTypes
<1>3. CASE sending' = [sending EXCEPT !.tries = @ + 1] /\ typing' = typing
  <2>1. sending'.number = sending.number /\ sending'.progress = sending.progress
    BY <1>0, <1>3 DEF Send
  <2>2. sending'.number # 0
    BY <1>0, <2>1
  <2> QED BY <1>0, <1>3, <2>1, <2>2, NoSendTyped
<1>4. \/ EndSend \/ NextPiece(sending.form) \/ NextPiece(FormAfter)
      \/ sending' = [sending EXCEPT !.tries = @ + 1] /\ typing' = typing
  BY DEF SendPiece, FailPiece, TryAgain
<1> QED BY <1>1, <1>2, <1>3, <1>4

LEMMA SendOwes ==
  ASSUME ChatInv, SendPiece \/ FailPiece
  PROVE  ChatInv'
<1>0. InboundInv /\ RepliesInv /\ TypingInv /\ ChatTypeOK
  BY DEF ChatInv, InboundInv
<1>1. /\ SendsOnly /\ waiting' = waiting /\ outbound' = outbound
      /\ chatFaults' = chatFaults \/ ChatFault
  BY DEF SendPiece, FailPiece, SendsOnly, unsent
<1>2. typing \in BOOLEAN /\ waiting \in Nat /\ chatFaults \in 0..MaxChatFaults
  BY <1>0 DEF ChatTypeOK
<1>3. RepliesInv' /\ typing' \in BOOLEAN
  BY <1>0, <1>2, SendKeeps, FailKeeps
<1>4. /\ InTyped' /\ Buffered' /\ OnceInv' /\ Admitted'
      /\ service' = service /\ allowed' = allowed /\ album' = album
      /\ \A e \in Delivery : At(e, "publish") => At(e, "publish")'
  BY <1>0, <1>1, SendsFrame
<1>5. chatFaults' \in 0..MaxChatFaults
  BY <1>1, <1>2, FaultCounted
<1>6. ChatTypeOK'
  BY <1>1, <1>2, <1>3, <1>4, <1>5 DEF ChatTypeOK, InTyped, OutTyped, RepliesInv
<1>7. ASSUME typing' PROVE service \in {"discord", "telegram", "matrix"} /\ Owed'
  <2>1. CASE EndSend
    <3>1. typing /\ ~(service = "discord" \/ (service = "matrix" /\ ~sending.progress))
      BY <1>7, <2>1 DEF EndSend
    <3>2. service \in {"discord", "telegram", "matrix"} /\ Owed
      BY <1>0, <3>1 DEF TypingInv
    <3>3. \/ \E d \in Delivery : At(d, "publish")
          \/ waiting > 0 \/ album # {}
          \/ \E i \in 1..Len(outbound) : ~outbound[i].progress
          \/ service = "telegram" /\ allowed # Message
      BY <3>1, <3>2 DEF Owed
    <3> QED BY <1>1, <1>4, <3>2, <3>3 DEF Owed
  <2>2. CASE /\ typing' = typing /\ sending' # NoSend
             /\ sending # NoSend /\ sending'.progress = sending.progress
    <3>1. service \in {"discord", "telegram", "matrix"} /\ Owed
      BY <1>0, <1>7, <2>2 DEF TypingInv
    <3>2. CASE service = "discord" \/ (service = "matrix" /\ ~sending.progress)
      BY <1>4, <2>2, <3>1, <3>2 DEF Owed
    <3>3. CASE ~(service = "discord" \/ (service = "matrix" /\ ~sending.progress))
      <4>1. \/ \E d \in Delivery : At(d, "publish")
            \/ waiting > 0 \/ album # {}
            \/ \E i \in 1..Len(outbound) : ~outbound[i].progress
            \/ service = "telegram" /\ allowed # Message
        BY <3>1, <3>3 DEF Owed
      <4> QED BY <1>1, <1>4, <3>1, <4>1 DEF Owed
    <3> QED BY <3>2, <3>3
  <2> QED BY <1>0, <1>2, <2>1, <2>2, SendGoesOn
<1>8. TypingInv'
  BY <1>4, <1>7 DEF TypingInv
<1> QED BY <1>3, <1>4, <1>6, <1>8 DEF ChatInv, InboundInv

(* A step of a handler sends nothing. *)
LEMMA HandlerSteps ==
  ASSUME ChatInv, NEW d \in Delivery,
         \/ Deliver(d) \/ RememberMessage(d) \/ AllowSender(d)
         \/ FilterMessage(d) \/ FetchMedia(d) \/ StartTyping(d)
         \/ BufferPart(d) \/ PublishMessage(d)
  PROVE  ChatInv'
<1>0. InboundInv /\ RepliesInv /\ TypingInv
  BY DEF ChatInv
<1>1. UNCHANGED <<service, replying>>
  BY DEF Deliver, RememberMessage, AllowSender, FilterMessage, FetchMedia, StartTyping,
         BufferPart, PublishMessage, given
<1>2. RepliesInv'
  BY <1>0, <1>1, Quiet
<1>3. ChatTypeOK' /\ Buffered' /\ Admitted'
  BY <1>0, HandlerTyped, HandlerAdmits
<1>4. OnceInv'
  <2>1. CASE Deliver(d)
    BY <1>0, <2>1, DeliverOnce
  <2>2. CASE RememberMessage(d)
    BY <1>0, <2>2, RememberOnce
  <2>3. CASE PublishMessage(d)
    BY <1>0, <2>3, PublishOnce
  <2>4. CASE AllowSender(d) \/ FilterMessage(d) \/ FetchMedia(d) \/ StartTyping(d) \/ BufferPart(d)
    <3>1. \E step : At(d, step) /\ step # "remember"
      BY <2>4 DEF AllowSender, FilterMessage, FetchMedia, StartTyping, BufferPart
    <3>2. OnWith(d) \/ OverWith(d)
      BY <2>4 DEF AllowSender, FilterMessage, FetchMedia, StartTyping, BufferPart
    <3>3. UNCHANGED <<given, memory, forgotten, batch, published>>
      BY <2>4 DEF AllowSender, FilterMessage, FetchMedia, StartTyping, BufferPart, remembered
    <3> QED BY <1>0, <3>1, <3>2, <3>3, StepsBefore
  <2> QED BY <2>1, <2>2, <2>3, <2>4
<1>5. typing' => service' \in {"discord", "telegram", "matrix"} /\ Owed'
  BY <1>0, HandlerOwes
<1>6. TypingInv'
  BY <1>3, <1>5 DEF TypingInv
<1> QED BY <1>2, <1>3, <1>4, <1>6 DEF ChatInv, InboundInv

(* No adapter of mail shows "typing". *)
LEMMA MailSteps ==
  ASSUME ChatInv, HandOverMails \/ FailPoll \/ \E m \in Message : ReadMail(m)
  PROVE  ChatInv'
<1>0. InboundInv /\ RepliesInv /\ TypingInv
  BY DEF ChatInv
<1>1. UNCHANGED <<service, replying>> /\ typing' = typing
  BY DEF HandOverMails, FailPoll, ReadMail, given, buffers
<1>2. RepliesInv'
  BY <1>0, <1>1, Quiet
<1>3. ChatTypeOK' /\ Buffered'
  BY <1>0, MailTyped
<1>4. OnceInv'
  BY <1>0, ReadOnce, HandOverOnce, FailPollOnce
<1>5. service \notin Adapter
  BY <1>0 DEF HandOverMails, FailPoll, ReadMail, InboundInv, Buffered
<1>6. service \notin {"discord", "matrix", "telegram"}
  BY <1>5, Adapters
<1>7. TypingInv'
  BY <1>0, <1>1, <1>6 DEF TypingInv, Admitted
<1> QED BY <1>2, <1>3, <1>4, <1>7 DEF ChatInv, InboundInv

LEMMA FlushSteps ==
  ASSUME ChatInv, FlushAlbum
  PROVE  ChatInv'
<1>0. InboundInv /\ RepliesInv /\ TypingInv /\ ChatTypeOK
  BY DEF ChatInv, InboundInv
<1>1. /\ UNCHANGED <<service, replying>> /\ typing' = typing /\ doing' = doing
      /\ service' = service /\ allowed' = allowed /\ outbound' = outbound /\ sending' = sending
      /\ Steps' = Steps /\ HandleMessages(album)
  BY DEF FlushAlbum, given, Steps, replying
<1>2. RepliesInv'
  BY <1>0, <1>1, Quiet
<1>3. ChatTypeOK' /\ Buffered' /\ OnceInv'
  BY <1>0, FlushTyped, FlushOnce
<1>4. Admitted'
  BY <1>0, <1>1 DEF TypingInv, Admitted, Way
<1>5. ASSUME typing PROVE service \in {"discord", "telegram", "matrix"} /\ Owed'
  <2>1. service \in {"discord", "telegram", "matrix"} /\ Owed
    BY <1>0, <1>5 DEF TypingInv
  <2>2. /\ waiting' \in Nat /\ waiting' >= waiting /\ waiting \in Nat
        /\ album \cap allowed # {} => waiting' > 0
    BY <1>0, <1>1, Handed DEF ChatTypeOK
  <2>3. CASE album # {}
    <3>1. service = "telegram" /\ album \subseteq Message /\ allowed \subseteq Message
      BY <1>0, <2>3, ChatsAssumption DEF InboundInv, Buffered, ChatTypeOK
    <3>2. CASE album \cap allowed # {}
      BY <2>1, <2>2, <3>2 DEF Owed
    <3>3. CASE album \cap allowed = {}
      <4>1. allowed # Message
        BY <2>3, <3>1, <3>3
      <4> QED BY <1>1, <2>1, <3>1, <4>1 DEF Owed
    <3> QED BY <3>2, <3>3
  <2>4. CASE waiting > 0
    <3>1. waiting' > 0
      BY <2>2, <2>4
    <3> QED BY <2>1, <3>1 DEF Owed
  <2>5. CASE album = {} /\ ~(waiting > 0)
    <3>1. \/ \E d \in Delivery : At(d, "publish")
          \/ \E i \in 1..Len(outbound) : ~outbound[i].progress
          \/ sending # NoSend /\ (service = "discord" \/ (service = "matrix" /\ ~sending.progress))
          \/ service = "telegram" /\ allowed # Message
      BY <2>1, <2>5 DEF Owed
    <3>2. \A e \in Delivery : At(e, "publish") => At(e, "publish")'
      BY <1>1 DEF At, InHandler
    <3> QED BY <1>1, <2>1, <3>1, <3>2 DEF Owed
  <2> QED BY <2>3, <2>4, <2>5
<1>6. TypingInv'
  BY <1>1, <1>4, <1>5 DEF TypingInv
<1> QED BY <1>2, <1>3, <1>6 DEF ChatInv, InboundInv

LEMMA ChatBegins == ChatInit => ChatInv
<1> SUFFICES ASSUME ChatInit PROVE ChatInv
  OBVIOUS
<1>1. /\ doing = [d \in Delivery |-> 0] /\ memory = <<>> /\ outbound = <<>> /\ delivered = <<>>
      /\ batch = {} /\ published = [m \in Message |-> 0] /\ album = {} /\ typing = FALSE
      /\ sending = NoSend /\ forgotten = {} /\ flushing = FALSE /\ repeated = {} /\ missed = {}
      /\ waiting = 0 /\ replies = 0 /\ chatFaults = 0 /\ allowed \subseteq Message
      /\ service \in Adapter \cup {"email", "email kept unseen"}
  BY DEF ChatInit
<1>2. MaxChatFaults \in Nat /\ MaxRemembered \in Nat
  BY ChatsAssumption
<1>3. doing \in [Delivery -> 0..6] /\ published \in [Message -> Nat]
  <2>1. doing = [d \in Delivery |-> 0] /\ published = [m \in Message |-> 0]
    BY <1>1
  <2>2. 0 \in 0..6 /\ 0 \in Nat
    OBVIOUS
  <2>3. doing \in [Delivery -> 0..6]
    BY <2>1, <2>2 DEF Delivery
  <2>4. published \in [Message -> Nat]
    BY <2>1, <2>2
  <2> QED BY <2>3, <2>4
<1>4. /\ memory \in Seq(Message) /\ outbound \in Seq(Reply) /\ delivered \in Seq(Nat \X (1..2))
      /\ Len(memory) = 0 /\ Len(outbound) = 0 /\ Len(delivered) = 0
  <2>1. memory = <<>> /\ outbound = <<>> /\ delivered = <<>>
    BY <1>1
  <2> QED BY <2>1
<1>5. ChatTypeOK
  <2>1. InTyped
    <3>1. /\ batch = {} /\ album = {} /\ forgotten = {} /\ flushing \in BOOLEAN /\ allowed \subseteq Message
          /\ service \in Adapter \cup {"email", "email kept unseen"}
      BY <1>1
    <3>2. Len(memory) <= MaxRemembered
      BY <1>2, <1>4
    <3> QED BY <1>3, <1>4, <3>1, <3>2 DEF InTyped
  <2>2. OutTyped
    <3>1. replies = 0 /\ sending = NoSend /\ repeated = {} /\ missed = {}
      BY <1>1
    <3> QED BY <1>4, <3>1, NoSendTyped DEF OutTyped
  <2>3. typing \in BOOLEAN /\ waiting \in Nat /\ chatFaults \in 0..MaxChatFaults
    <3>1. typing \in BOOLEAN /\ waiting = 0 /\ chatFaults = 0
      BY <1>1
    <3>2. waiting \in Nat /\ chatFaults \in 0..MaxChatFaults
      BY <1>2, <3>1
    <3> QED BY <3>1, <3>2
  <2> QED BY <2>1, <2>2, <2>3, Typed
<1>6. \A e \in Delivery : ~Way(e)
  <2>1. \A e \in Delivery : doing[e] = 0
    BY DEF ChatInit
  <2> QED BY <2>1 DEF Way
<1>7. \A m \in Message : Once(m)
  <2>1. \A m \in Message, c \in Copies : <<m, c>> \in Delivery
    BY DEF Delivery
  <2>2. 1 \in Copies /\ 2 \in Copies
    BY DEF Copies
  <2>3. \A m \in Message : published[m] = 0
    BY DEF ChatInit
  <2>4. ASSUME NEW m \in Message PROVE Once(m)
    <3>1. ~UnderWay(m)
      BY <1>1, <1>6, <2>1 DEF UnderWay
    <3>2. ~Way(<<m, 1>>)
      BY <1>6, <2>1, <2>2
    <3>3. published[m] = 0
      BY <2>3
    <3> QED BY <3>1, <3>2, <3>3 DEF Once
  <2> QED BY <2>4
<1>8. InboundInv
  BY <1>1, <1>5, <1>7, FS_EmptySet DEF InboundInv, Buffered, OnceInv
<1>9. RepliesInv
  <2>1. OutTyped
    BY <1>5, Typed
  <2>2. Numbered /\ Ordered
    <3>1. sending = NoSend /\ replies = 0 /\ NoSend.number = 0
      BY <1>1, NoSendTyped
    <3>2. sending.number = 0
      BY <3>1
    <3>3. \A i : i \notin 1..Len(outbound) /\ i \notin 1..Len(delivered)
      BY <1>4
    <3>4. Ordered
      BY <3>3 DEF Ordered
    <3> QED BY <3>1, <3>2, <3>3, <3>4 DEF Numbered
  <2>3. \A i \in 1..Len(delivered) : FALSE
    BY <1>4
  <2> QED BY <1>1, <2>1, <2>2, <2>3 DEF RepliesInv
<1>10. TypingInv
  BY <1>1, <1>6 DEF TypingInv, Admitted
<1> QED BY <1>8, <1>9, <1>10 DEF ChatInv

LEMMA ChatStutters ==
  ASSUME ChatInv, UNCHANGED chatVars
  PROVE  ChatInv'
<1>0. InboundInv /\ RepliesInv /\ TypingInv
  BY DEF ChatInv
<1>1. /\ SendsOnly /\ waiting' = waiting /\ outbound' = outbound /\ sending' = sending
      /\ typing' = typing /\ chatFaults' = chatFaults /\ UNCHANGED <<service, replying>>
  BY DEF chatVars, SendsOnly, given, remembered, replying
<1>2. /\ InTyped' /\ Buffered' /\ OnceInv' /\ Admitted'
      /\ service' = service /\ allowed' = allowed /\ album' = album
      /\ \A e \in Delivery : At(e, "publish") => At(e, "publish")'
  BY <1>0, <1>1, SendsFrame
<1>3. RepliesInv'
  BY <1>0, <1>1, Quiet
<1>4. ChatTypeOK'
  BY <1>0, <1>1, <1>2, <1>3 DEF ChatTypeOK, InTyped, OutTyped, RepliesInv, InboundInv
<1>5. TypingInv'
  BY <1>0, <1>1, <1>2 DEF TypingInv, Owed
<1> QED BY <1>2, <1>3, <1>4, <1>5 DEF ChatInv, InboundInv

LEMMA Chatting == ChatSpec => []ChatInv
<1>1. ASSUME ChatInv, [ChatNext]_chatVars PROVE ChatInv'
  <2>1. ASSUME NEW d \in Delivery,
               \/ Deliver(d) \/ RememberMessage(d) \/ AllowSender(d)
               \/ FilterMessage(d) \/ FetchMedia(d) \/ StartTyping(d)
               \/ BufferPart(d) \/ PublishMessage(d)
        PROVE  ChatInv'
    BY <1>1, <2>1, HandlerSteps
  <2>2. CASE FlushAlbum
    BY <1>1, <2>2, FlushSteps
  <2>3. CASE HandOverMails \/ FailPoll \/ \E m \in Message : ReadMail(m)
    BY <1>1, <2>3, MailSteps
  <2>4. CASE AnswerMessage
    <3>1. waiting > 0 /\ waiting' = waiting - 1 /\ Answers(FALSE) /\ waiting \in Nat
      BY <1>1, <2>4 DEF AnswerMessage, ChatInv, InboundInv, ChatTypeOK
    <3>2. waiting' \in Nat
      BY <3>1
    <3> QED BY <1>1, <3>1, <3>2, AnswersOwe
  <2>5. CASE ReportProgress
    <3>1. waiting > 0 /\ waiting' = waiting /\ Answers(TRUE) /\ waiting \in Nat
      BY <1>1, <2>5 DEF ReportProgress, ChatInv, InboundInv, ChatTypeOK
    <3> QED BY <1>1, <3>1, AnswersOwe
  <2>6. CASE DispatchReply
    BY <1>1, <2>6, DispatchOwes
  <2>7. CASE SendPiece \/ FailPiece
    BY <1>1, <2>7, SendOwes
  <2>8. CASE UNCHANGED chatVars
    BY <1>1, <2>8, ChatStutters
  <2> QED BY <1>1, <2>1, <2>2, <2>3, <2>4, <2>5, <2>6, <2>7, <2>8 DEF ChatNext
<1> QED BY <1>1, ChatBegins, PTL DEF ChatSpec

(* What a user of any chat service sees, for any set of messages, any       *)
(* senders admitted and any memory of the adapters                          *)
(* (src/PhyAgentOS/channels): no message the service delivers twice gets    *)
(* two turns while its id is remembered, no part of an album is left        *)
(* without the task that flushes it, the pieces of the replies reach the    *)
(* chat in order and follow a gap only where the service's send goes on     *)
(* after it, and "typing" shows only while something will end it.           *)
THEOREM KeepsConversation == ChatSpec => []ConversationKept
<1>1. ChatInv => ConversationKept
  <2> SUFFICES ASSUME ChatInv PROVE ConversationKept
    OBVIOUS
  <2>1. InboundInv /\ RepliesInv /\ TypingInv /\ ChatTypeOK
    BY DEF ChatInv, InboundInv
  <2>2. RepliesInOrder
    BY <2>1, RepliesHold
  <2>3. TypingOwed
    BY <2>1, TypingHolds
  <2>4. ASSUME service \notin Adapter \/ service \in Remembering,
               NEW m \in Message, published[m] > 1
        PROVE  m \in forgotten
    <3>1. published[m] \in Nat
      BY <2>1 DEF ChatTypeOK
    <3>2. Deduplicates /\ OnceInv
      BY <2>1, <2>4 DEF InboundInv, Deduplicates
    <3>3. m \notin forgotten => published[m] <= 1
      BY <3>2 DEF OnceInv, Once
    <3>4. published[m] > 1
      BY <2>4
    <3> QED BY <3>1, <3>3, <3>4
  <2>5. InboundOnce
    BY <2>1, <2>4 DEF InboundOnce, InboundInv, Buffered
  <2> QED BY <2>2, <2>3, <2>5 DEF ConversationKept
<1> QED BY <1>1, Chatting, PTL

(* The types of the adapters, for any messages and any senders admitted:    *)
(* no memory grows past its bound, and no piece of a reply is sent more     *)
(* than its tries (src/PhyAgentOS/channels).                                *)
THEOREM MemoryBounded == ChatSpec => []ChatTypeOK
<1>1. ChatInv => ChatTypeOK
  BY DEF ChatInv, InboundInv
<1> QED BY <1>1, Chatting, PTL

-----------------------------------------------------------------------------
(* Mochat.  A payload is handled message by message; what a prefix of it    *)
(* has done is a function of its length, which exists by a least           *)
(* counterexample.                                                         *)
LEMMA LeastNat ==
  ASSUME NEW T, T \subseteq Nat, T # {}
  PROVE  \E x \in T : \A y \in T : x <= y
<1>1. PICK R : R = {p \in Nat \X Nat : p[1] < p[2]}
  OBVIOUS
<1>2. IsWellFoundedOn(R, Nat)
  BY <1>1, NatLessThanWellFounded DEF OpToRel
<1>3. PICK x \in T : \A y \in T : ~(<<y, x>> \in R)
  BY <1>2, WFMin
<1>4. ASSUME NEW y \in T PROVE x <= y
  <2>1. ~(<<y, x>> \in R) /\ x \in Nat /\ y \in Nat
    BY <1>3
  <2> QED BY <1>1, <2>1
<1> QED BY <1>4

Prefix(s, first, n, f) ==
  f = [i \in 0..n |-> IF i = 0 THEN s ELSE HandleOne(f[i - 1], first + i)]

LEMMA PrefixExists ==
  ASSUME NEW s, NEW first, NEW n \in Nat
  PROVE  \E f : Prefix(s, first, n, f)
<1> DEFINE T == {k \in Nat : ~ \E f : Prefix(s, first, k, f)}
<1> SUFFICES T = {}
  OBVIOUS
<1> SUFFICES ASSUME T # {} PROVE FALSE
  OBVIOUS
<1>1. PICK k \in T : \A y \in T : k <= y
  <2>1. T \subseteq Nat
    OBVIOUS
  <2> HIDE DEF T
  <2> QED BY <2>1, LeastNat
<1>2. k \in Nat /\ ~ \E f : Prefix(s, first, k, f)
  OBVIOUS
<1>3. CASE k = 0
  <2>1. PICK f : f = [i \in 0..0 |-> s]
    OBVIOUS
  <2>2. \A i \in 0..0 : i = 0
    OBVIOUS
  <2>3. f = [i \in 0..0 |-> IF i = 0 THEN s ELSE HandleOne(f[i - 1], first + i)]
    BY <2>1, <2>2
  <2> QED BY <1>2, <1>3, <2>3 DEF Prefix
<1>4. CASE k # 0
  <2>1. PICK j : j = k - 1
    OBVIOUS
  <2>2. j \in Nat /\ k = j + 1 /\ ~(k <= j)
    BY <1>2, <1>4, <2>1
  <2>3. j \notin T
    BY <1>1, <2>2
  <2>4. PICK f : Prefix(s, first, j, f)
    BY <2>2, <2>3
  <2>5. PICK last : last = HandleOne(f[j], first + k)
    OBVIOUS
  <2>6. PICK g : g = [i \in 0..k |-> IF i = k THEN last ELSE f[i]]
    OBVIOUS
  <2>7. ASSUME NEW i \in 0..k
        PROVE  g[i] = IF i = 0 THEN s ELSE HandleOne(g[i - 1], first + i)
    <3>1. \A l \in 0..j : g[l] = f[l]
      BY <2>2, <2>6
    <3>2. CASE i = k
      <4>1. g[i] = last /\ i - 1 = j /\ i # 0 /\ j \in 0..j
        BY <2>2, <2>6, <3>2
      <4> QED BY <2>5, <3>1, <3>2, <4>1
    <3>3. CASE i # k
      <4>1. i \in 0..j /\ (i # 0 => i - 1 \in 0..j)
        BY <2>2, <3>3
      <4>2. f[i] = IF i = 0 THEN s ELSE HandleOne(f[i - 1], first + i)
        BY <2>4, <4>1 DEF Prefix
      <4> QED BY <3>1, <4>1, <4>2
    <3> QED BY <3>2, <3>3
  <2>8. g = [i \in 0..k |-> IF i = 0 THEN s ELSE HandleOne(g[i - 1], first + i)]
    BY <2>6, <2>7
  <2> QED BY <1>2, <2>8 DEF Prefix
<1> QED BY <1>3, <1>4

Start == [q |-> seen, new |-> {}, gone |-> {}]

LEMMA HandleIs ==
  ASSUME NEW first, NEW last, last - first \in Nat, Handle(first, last)
  PROVE  \E f : /\ Prefix(Start, first, last - first, f)
                /\ seen' = f[last - first].q
                /\ handed' = [m \in Posts |-> handed[m] + IF m \in f[last - first].new THEN 1 ELSE 0]
                /\ excused' = excused \cup f[last - first].gone
<1>1. PICK n : n = last - first
  OBVIOUS
<1> DEFINE after[i \in 0..n] == IF i = 0 THEN Start ELSE HandleOne(after[i - 1], first + i)
<1>2. \E f : f = [i \in 0..n |-> IF i = 0 THEN Start ELSE HandleOne(f[i - 1], first + i)]
  <2>1. n \in Nat
    BY <1>1
  <2>2. \E f : Prefix(Start, first, n, f)
    BY <2>1, PrefixExists
  <2> QED BY <2>2 DEF Prefix
<1>3. after = [i \in 0..n |-> IF i = 0 THEN Start ELSE HandleOne(after[i - 1], first + i)]
  BY <1>2
<1>4. Prefix(Start, first, n, after)
  BY <1>3 DEF Prefix
<1>5. /\ seen' = after[n].q
      /\ handed' = [m \in Posts |-> handed[m] + IF m \in after[n].new THEN 1 ELSE 0]
      /\ excused' = excused \cup after[n].gone
  BY <1>1 DEF Handle, Start
<1> HIDE DEF after
<1> QED BY <1>1, <1>4, <1>5

LEMMA Seen ==
  ASSUME NEW q \in Seq(Posts), NEW m
  PROVE  /\ m \in Range(q) <=> \E i \in 1..Len(q) : q[i] = m
         /\ m \in Range(q) <=> Contains(q, m)
         /\ Range(q) \subseteq Posts
BY DEF Contains, Range

LEMMA EmptyRange ==
  ASSUME NEW q, q = <<>>
  PROVE  q \in Seq(Posts) /\ Len(q) = 0 /\ Range(q) = {}
<1>1. q \in Seq(Posts) /\ Len(q) = 0
  OBVIOUS
<1>2. \A i : i \notin 1..Len(q)
  BY <1>1
<1>3. \A n : n \notin Range(q)
  BY <1>1, <1>2, Seen
<1> QED BY <1>1, <1>3

(* The bounded queue of ids: what leaves it is evicted. *)
LEMMA RemembersPost ==
  ASSUME NEW q \in Seq(Posts), Len(q) <= MaxSeen, NEW m \in Posts
  PROVE  /\ Remember(q, m) \in Seq(Posts) /\ Len(Remember(q, m)) <= MaxSeen
         /\ Range(Remember(q, m)) \subseteq Range(q) \cup {m}
         /\ Range(q) \cup {m} \subseteq Range(Remember(q, m)) \cup Evicts(q)
         /\ m \in Range(Remember(q, m))
         /\ Evicts(q) \subseteq Posts
<1>1. MaxSeen \in Nat \ {0}
  BY MochatAssumption
<1>2. PICK longer : longer = Append(q, m)
  OBVIOUS
<1>3. /\ longer \in Seq(Posts) /\ Len(longer) = Len(q) + 1 /\ Len(q) \in Nat
      /\ longer[Len(longer)] = m
      /\ \A i \in 1..Len(q) : longer[i] = q[i]
  BY <1>2
<1>4. Len(longer) \in 1..Len(longer)
  BY <1>3
<1>5. CASE Len(longer) > MaxSeen
  <2>1. Remember(q, m) = Tail(longer) /\ Len(q) >= MaxSeen /\ Len(q) >= 1
    BY <1>1, <1>2, <1>3, <1>5 DEF Remember
  <2>2. PICK r : r = Tail(longer)
    OBVIOUS
  <2>3. longer # <<>>
    BY <1>3
  <2>4. r \in Seq(Posts) /\ Len(r) = Len(q) /\ \A i \in 1..Len(r) : r[i] = longer[i + 1]
    BY <1>3, <2>2, <2>3
  <2>5. Evicts(q) = {q[1]} /\ q[1] \in Posts
    BY <2>1 DEF Evicts
  <2>6. Len(r) <= MaxSeen
    BY <1>1, <1>3, <2>1, <2>4
  <2>7. m \in Range(r)
    <3>1. Len(q) \in 1..Len(r) /\ r[Len(q)] = m
      BY <1>3, <2>1, <2>4
    <3> QED BY <2>4, <3>1, Seen
  <2>8. ASSUME NEW n \in Range(q) PROVE n \in Range(r) \cup Evicts(q)
    <3>1. PICK i \in 1..Len(q) : q[i] = n
      BY Seen
    <3>2. CASE i = 1
      BY <2>5, <3>1, <3>2
    <3>3. CASE i # 1
      <4>1. PICK j : j = i - 1
        OBVIOUS
      <4>2. j \in 1..Len(r) /\ j + 1 = i /\ i \in 1..Len(q)
        BY <1>3, <2>4, <3>1, <3>3, <4>1
      <4>3. r[j] = n
        BY <1>3, <2>4, <3>1, <4>2
      <4> QED BY <2>4, <4>2, <4>3, Seen
    <3> QED BY <3>2, <3>3
  <2>9. ASSUME NEW n \in Range(r) PROVE n \in Range(q) \cup {m}
    <3>1. PICK i \in 1..Len(r) : r[i] = n
      BY <2>4, Seen
    <3>2. n = longer[i + 1] /\ i + 1 \in 1..Len(longer)
      BY <1>3, <2>4, <3>1
    <3>3. CASE i + 1 = Len(longer)
      BY <1>3, <3>2, <3>3
    <3>4. CASE i + 1 # Len(longer)
      <4>1. i + 1 \in 1..Len(q)
        BY <1>3, <3>2, <3>4
      <4>2. n = q[i + 1]
        BY <1>3, <3>2, <4>1
      <4> QED BY <4>1, <4>2, Seen
    <3> QED BY <3>3, <3>4
  <2> QED BY <2>1, <2>2, <2>4, <2>5, <2>6, <2>7, <2>8, <2>9
<1>6. CASE ~(Len(longer) > MaxSeen)
  <2>1. Remember(q, m) = longer /\ Len(longer) <= MaxSeen
    BY <1>1, <1>2, <1>3, <1>6 DEF Remember
  <2>2. Evicts(q) = {}
    <3>1. ~(Len(q) >= MaxSeen)
      BY <1>1, <1>3, <1>6
    <3> QED BY <3>1 DEF Evicts
  <2>3. m \in Range(longer)
    BY <1>3, <1>4, Seen
  <2>4. ASSUME NEW n \in Range(q) PROVE n \in Range(longer)
    <3>1. PICK i \in 1..Len(q) : q[i] = n
      BY Seen
    <3>2. i \in 1..Len(longer) /\ longer[i] = n
      BY <1>3, <3>1
    <3> QED BY <1>3, <3>2, Seen
  <2>5. ASSUME NEW n \in Range(longer) PROVE n \in Range(q) \cup {m}
    <3>1. PICK i \in 1..Len(longer) : longer[i] = n
      BY <1>3, Seen
    <3>2. CASE i = Len(longer)
      BY <1>3, <3>1, <3>2
    <3>3. CASE i # Len(longer)
      <4>1. i \in 1..Len(q) /\ q[i] = n
        BY <1>3, <3>1, <3>3
      <4> QED BY <4>1, Seen
    <3> QED BY <3>2, <3>3
  <2> QED BY <1>3, <2>1, <2>2, <2>3, <2>4, <2>5
<1> QED BY <1>5, <1>6

(* What the messages from lo + 1 to hi have done: each is new or was seen,  *)
(* and one that was seen and is new all the same was evicted in between.    *)
Handled(s, lo, hi) ==
  /\ s.q \in Seq(Posts) /\ Len(s.q) <= MaxSeen
  /\ s.new \subseteq (lo + 1)..hi /\ s.gone \subseteq Posts
  /\ Range(s.q) \subseteq Range(seen) \cup s.new
  /\ Range(seen) \cup s.new \subseteq Range(s.q) \cup s.gone
  /\ (lo + 1)..hi \subseteq s.new \cup Range(seen)
  /\ s.new \cap Range(seen) \subseteq s.gone

LEMMA OneMore ==
  ASSUME seen \in Seq(Posts), NEW s, NEW lo \in Nat, NEW hi \in Nat, lo <= hi, hi + 1 \in Posts,
         Handled(s, lo, hi)
  PROVE  Handled(HandleOne(s, hi + 1), lo, hi + 1)
<1>1. PICK m : m = hi + 1
  OBVIOUS
<1>2. /\ m \in Posts /\ (lo + 1)..m = (lo + 1)..hi \cup {m} /\ m \notin (lo + 1)..hi
      /\ m \in (lo + 1)..m
  BY <1>1 DEF Posts
<1>3. PICK q : q = s.q
  OBVIOUS
<1>4. q \in Seq(Posts) /\ Len(q) <= MaxSeen
  BY <1>3 DEF Handled
<1>5. CASE m \in Range(q)
  <2>1. HandleOne(s, m) = s
    BY <1>3, <1>4, <1>5, Seen DEF HandleOne
  <2>2. m \in Range(seen)
    BY <1>2, <1>3, <1>5 DEF Handled
  <2>3. Handled(s, lo, m)
    BY <1>2, <2>2 DEF Handled
  <2> QED BY <1>1, <2>1, <2>3
<1>6. CASE m \notin Range(q)
  <2>1. PICK e : e = HandleOne(s, m)
    OBVIOUS
  <2>2. e.q = Remember(q, m) /\ e.new = s.new \cup {m} /\ e.gone = s.gone \cup Evicts(q)
    BY <1>3, <1>4, <1>6, <2>1, Seen DEF HandleOne
  <2>3. /\ e.q \in Seq(Posts) /\ Len(e.q) <= MaxSeen
        /\ Range(e.q) \subseteq Range(q) \cup {m}
        /\ Range(q) \cup {m} \subseteq Range(e.q) \cup Evicts(q)
        /\ Evicts(q) \subseteq Posts
    <3>1. PICK r : r = Remember(q, m)
      OBVIOUS
    <3>2. PICK gone : gone = Evicts(q)
      OBVIOUS
    <3>3. /\ r \in Seq(Posts) /\ Len(r) <= MaxSeen /\ Range(r) \subseteq Range(q) \cup {m}
          /\ Range(q) \cup {m} \subseteq Range(r) \cup gone /\ gone \subseteq Posts
      BY <1>2, <1>4, <3>1, <3>2, RemembersPost
    <3>4. e.q = r
      BY <2>2, <3>1
    <3> QED BY <3>2, <3>3, <3>4
  <2>4. m \in Range(seen) => m \in s.gone
    BY <1>3, <1>6 DEF Handled
  <2>5. e.new \subseteq (lo + 1)..m /\ e.gone \subseteq Posts
    BY <1>2, <2>2, <2>3 DEF Handled
  <2>6. Range(e.q) \subseteq Range(seen) \cup e.new
    BY <1>3, <2>2, <2>3 DEF Handled
  <2>7. Range(seen) \cup e.new \subseteq Range(e.q) \cup e.gone
    BY <1>3, <2>2, <2>3 DEF Handled
  <2>8. (lo + 1)..m \subseteq e.new \cup Range(seen) /\ e.new \cap Range(seen) \subseteq e.gone
    BY <1>2, <2>2, <2>4 DEF Handled
  <2>9. Handled(e, lo, m)
    BY <2>3, <2>5, <2>6, <2>7, <2>8 DEF Handled
  <2> QED BY <1>1, <2>1, <2>9
<1> QED BY <1>5, <1>6

LEMMA AllHandled ==
  ASSUME seen \in Seq(Posts), Len(seen) <= MaxSeen, NEW first \in Nat, NEW n \in Nat,
         first + n <= MaxPosts, NEW f, Prefix(Start, first, n, f)
  PROVE  Handled(f[n], first, first + n)
<1> DEFINE T == {k \in 0..n : ~ Handled(f[k], first, first + k)}
<1> SUFFICES ASSUME T # {} PROVE FALSE
  OBVIOUS
<1>1. PICK k \in T : \A y \in T : k <= y
  <2>1. T \subseteq Nat
    OBVIOUS
  <2> HIDE DEF T
  <2> QED BY <2>1, LeastNat
<1>2. k \in 0..n /\ ~ Handled(f[k], first, first + k)
  OBVIOUS
<1>3. f[k] = IF k = 0 THEN Start ELSE HandleOne(f[k - 1], first + k)
  BY <1>2 DEF Prefix
<1>4. CASE k = 0
  <2>1. (first + 1)..(first + k) = {}
    BY <1>4
  <2>2. f[k].q = seen /\ f[k].new = {} /\ f[k].gone = {}
    BY <1>3, <1>4 DEF Start
  <2> QED BY <1>2, <2>1, <2>2 DEF Handled
<1>5. CASE k # 0
  <2>1. PICK j : j = k - 1
    OBVIOUS
  <2>2. j \in 0..n /\ k = j + 1 /\ ~(k <= j) /\ j \in Nat /\ first + k = first + j + 1
    BY <1>2, <1>5, <2>1
  <2>3. j \notin T
    BY <1>1, <2>2
  <2>4. Handled(f[j], first, first + j)
    BY <2>2, <2>3
  <2>5. PICK hi : hi = first + j
    OBVIOUS
  <2>6. hi \in Nat /\ first <= hi /\ hi + 1 \in Posts /\ hi + 1 = first + k
    <3>1. MaxPosts \in Nat
      BY MochatAssumption
    <3>2. k \in 1..n /\ hi + 1 = first + k
      BY <1>2, <1>5, <2>2, <2>5
    <3> QED BY <2>2, <2>5, <3>1, <3>2 DEF Posts
  <2>7. f[k] = HandleOne(f[j], hi + 1)
    BY <1>3, <1>5, <2>1, <2>6
  <2>8. Handled(HandleOne(f[j], hi + 1), first, hi + 1)
    BY <2>4, <2>5, <2>6, OneMore
  <2> QED BY <1>2, <2>6, <2>7, <2>8
<1> QED BY <1>4, <1>5

LEMMA HandleDoes ==
  ASSUME seen \in Seq(Posts), Len(seen) <= MaxSeen, handed \in [Posts -> Nat], excused \subseteq Posts,
         NEW first \in Nat, NEW last \in first..MaxPosts, Handle(first, last)
  PROVE  \E new \in SUBSET ((first + 1)..last) :
           /\ seen' \in Seq(Posts) /\ Len(seen') <= MaxSeen
           /\ handed' \in [Posts -> Nat]
           /\ \A m \in Posts : handed'[m] = handed[m] + IF m \in new THEN 1 ELSE 0
           /\ excused \subseteq excused' /\ excused' \subseteq Posts
           /\ Range(seen') \subseteq Range(seen) \cup new
           /\ Range(seen) \cup new \subseteq Range(seen') \cup excused'
           /\ (first + 1)..last \subseteq new \cup Range(seen)
           /\ new \cap Range(seen) \subseteq excused'
<1>0. MaxPosts \in Nat
  BY MochatAssumption
<1>1. PICK n : n = last - first
  OBVIOUS
<1>2. n \in Nat /\ first + n = last /\ first + n <= MaxPosts
  BY <1>0, <1>1
<1>3. PICK f : /\ Prefix(Start, first, n, f)
               /\ seen' = f[n].q
               /\ handed' = [m \in Posts |-> handed[m] + IF m \in f[n].new THEN 1 ELSE 0]
               /\ excused' = excused \cup f[n].gone
  BY <1>1, <1>2, HandleIs
<1>4. Handled(f[n], first, last)
  BY <1>2, <1>3, AllHandled
<1>5. PICK new : new = f[n].new
  OBVIOUS
<1>6. new \subseteq (first + 1)..last
  BY <1>4, <1>5 DEF Handled
<1>7. /\ handed' \in [Posts -> Nat]
      /\ \A m \in Posts : handed'[m] = handed[m] + IF m \in new THEN 1 ELSE 0
  <2>1. handed' = [m \in Posts |-> handed[m] + IF m \in new THEN 1 ELSE 0]
    BY <1>3, <1>5
  <2>2. \A m \in Posts : handed[m] + (IF m \in new THEN 1 ELSE 0) \in Nat
    OBVIOUS
  <2> QED BY <2>1, <2>2
<1>8. seen' \in Seq(Posts) /\ Len(seen') <= MaxSeen /\ excused \subseteq excused' /\ excused' \subseteq Posts
  BY <1>3, <1>4 DEF Handled
<1>9. /\ Range(seen') \subseteq Range(seen) \cup new
      /\ Range(seen) \cup new \subseteq Range(seen') \cup excused'
      /\ (first + 1)..last \subseteq new \cup Range(seen)
      /\ new \cap Range(seen) \subseteq excused'
  BY <1>3, <1>4, <1>5 DEF Handled
<1> QED BY <1>6, <1>7, <1>8, <1>9

LEMMA CursorIs ==
  /\ From({}) = 0 /\ \A n : From({n}) = n
  /\ \A c \in Cursors : From(c) \in 0..MaxPosts /\ (c # {} => c = {From(c)})
<1>1. From({}) = 0 /\ \A n : From({n}) = n
  BY DEF From
<1>2. MaxPosts \in Nat
  BY MochatAssumption
<1>3. ASSUME NEW c \in Cursors PROVE From(c) \in 0..MaxPosts /\ (c # {} => c = {From(c)})
  <2>1. CASE c = {}
    BY <1>1, <1>2, <2>1
  <2>2. CASE c # {}
    <3>1. PICK n \in 0..MaxPosts : c = {n}
      BY <2>2 DEF Cursors
    <3> QED BY <1>1, <3>1
  <2> QED BY <2>1, <2>2
<1> QED BY <1>1, <1>3

(* _mark_session_cursor never goes back. *)
LEMMA Marks ==
  ASSUME cursor \in Cursors, NEW n \in 0..MaxPosts, cursor' = Marked(n)
  PROVE  /\ cursor' \in Cursors /\ cursor' # {}
         /\ From(cursor') >= From(cursor) /\ (From(cursor') = From(cursor) \/ From(cursor') = n)
<1>1. From(cursor) \in 0..MaxPosts /\ From({n}) = n /\ {n} \in Cursors /\ From({}) = 0
  BY CursorIs DEF Cursors
<1>2. CASE cursor # {} /\ n < From(cursor)
  <2>1. cursor' = cursor
    BY <1>2 DEF Marked
  <2> QED BY <1>1, <1>2, <2>1
<1>3. CASE ~(cursor # {} /\ n < From(cursor))
  <2>1. cursor' = {n}
    BY <1>3 DEF Marked
  <2>2. n >= From(cursor)
    <3>1. CASE cursor = {}
      BY <1>1, <3>1
    <3>2. CASE cursor # {}
      BY <1>1, <1>3, <3>2
    <3> QED BY <3>1, <3>2
  <2>3. From(cursor') = n
    BY <1>1, <2>1
  <2> QED BY <1>1, <2>1, <2>2, <2>3
<1> QED BY <1>2, <1>3

SessionTyped ==
  /\ posted \in 0..MaxPosts /\ notified \subseteq Posts
  /\ cursor \in Cursors /\ saved \in Cursors /\ saving \in BOOLEAN /\ cold \in BOOLEAN
  /\ asked \subseteq 0..MaxPosts
  /\ seen \in Seq(Posts) /\ Len(seen) <= MaxSeen
  /\ handed \in [Posts -> Nat] /\ excused \subseteq Posts
  /\ coldRead \in BOOLEAN /\ cursorLost \in BOOLEAN /\ history \subseteq Posts /\ skipped \subseteq Posts

(* A message up to the cursor was handed over or dropped, and nothing       *)
(* behind the cursor is asked for, or in the file.  A message handed over   *)
(* and not excused cannot come again: its id is in memory, or it has been   *)
(* notified and lies before every cursor the server may still answer.       *)
Reached(m) == handed[m] > 0 \/ m \in history \cup skipped
PassedOver(m) == m \in notified /\ m <= From(cursor) /\ \A a \in asked : m <= a
\* A session read before is cold again only when its cursor was cursorLost.
ReadInv == /\ coldRead /\ cold => cursorLost
           /\ ~coldRead => cold
           /\ skipped # {} => cursorLost
           /\ saved # {} => cursor # {}
SessionInv ==
  /\ SessionTyped
  /\ cold <=> cursor = {}
  /\ ReadInv
  /\ From(saved) <= From(cursor)
  /\ \A a \in asked : a <= From(cursor)
  /\ \A m \in Posts : m <= From(cursor) => Reached(m)
  /\ \A m \in Range(seen) : handed[m] > 0
  /\ \A m \in Posts : handed[m] > 0 => m <= posted
  /\ \A m \in Posts : handed[m] > 0 /\ m \notin excused => m \in Range(seen) \/ PassedOver(m)
  /\ NoneTwice

PanelInv == NoneStuck /\ panelSeen \in Seq(Posts) /\ entries \in Seq(Posts)

LEMMA HandleKeeps ==
  ASSUME SessionInv, NEW first \in Nat, NEW last \in first..MaxPosts, Handle(first, last),
         last <= posted, \A m \in (first + 1)..last : ~PassedOver(m),
         UNCHANGED <<posted, saved, asked, dropped>>,
         notified \subseteq notified', notified' \subseteq Posts, saving' \in BOOLEAN,
         cursor' \in Cursors, From(cursor') >= From(cursor),
         From(cursor') = From(cursor) \/ (From(cursor') = last /\ first <= From(cursor)),
         cold' \in BOOLEAN, cold' <=> cursor' = {}, cold' = cold
  PROVE  SessionInv'
<1>0. MaxPosts \in Nat /\ From(cursor) \in 0..MaxPosts /\ From(cursor') \in 0..MaxPosts
      /\ From(saved) \in 0..MaxPosts /\ posted \in 0..MaxPosts /\ SessionTyped
  BY MochatAssumption, CursorIs DEF SessionInv, SessionTyped
<1>1. PICK new \in SUBSET ((first + 1)..last) :
        /\ seen' \in Seq(Posts) /\ Len(seen') <= MaxSeen
        /\ handed' \in [Posts -> Nat]
        /\ \A m \in Posts : handed'[m] = handed[m] + IF m \in new THEN 1 ELSE 0
        /\ excused \subseteq excused' /\ excused' \subseteq Posts
        /\ Range(seen') \subseteq Range(seen) \cup new
        /\ Range(seen) \cup new \subseteq Range(seen') \cup excused'
        /\ (first + 1)..last \subseteq new \cup Range(seen)
        /\ new \cap Range(seen) \subseteq excused'
  BY <1>0, HandleDoes DEF SessionTyped
<1>2. /\ Range(seen) \subseteq Posts /\ Range(seen') \subseteq Posts /\ handed \in [Posts -> Nat]
      /\ new \subseteq Posts
  <2>1. seen \in Seq(Posts)
    BY <1>0 DEF SessionTyped
  <2>2. Range(seen) \subseteq Posts /\ Range(seen') \subseteq Posts
    BY <1>1, <2>1, Seen
  <2>3. (first + 1)..last \subseteq Posts
    BY <1>0 DEF Posts
  <2> QED BY <1>0, <1>1, <2>2, <2>3 DEF SessionTyped
<1>3. ASSUME NEW m \in Posts
      PROVE  /\ handed[m] \in Nat /\ handed'[m] \in Nat
             /\ m \in new => handed'[m] = handed[m] + 1 /\ handed'[m] > 0
             /\ m \notin new => handed'[m] = handed[m]
  BY <1>1, <1>2
<1>4. SessionTyped'
  <2>1. /\ coldRead' = coldRead /\ cursorLost' = cursorLost
        /\ history' = history /\ skipped' = skipped
    BY DEF dropped
  <2> QED BY <1>0, <1>1, <2>1 DEF SessionTyped
<1>12. ReadInv' /\ history' = history /\ skipped' = skipped
  <2>1. /\ coldRead' = coldRead /\ cursorLost' = cursorLost
        /\ history' = history /\ skipped' = skipped /\ saved' = saved
    BY DEF dropped
  <2>2. ReadInv /\ (cold <=> cursor = {})
    BY DEF SessionInv
  <2> QED BY <2>1, <2>2 DEF ReadInv
<1>5. From(saved') <= From(cursor') /\ \A a \in asked' : a <= From(cursor')
  <2>1. From(saved) <= From(cursor) /\ \A a \in asked : a <= From(cursor) /\ a \in 0..MaxPosts
    BY <1>0 DEF SessionInv, SessionTyped
  <2> QED BY <1>0, <2>1
<1>6. ASSUME NEW m \in Posts, m <= From(cursor') PROVE Reached(m)'
  <2>1. CASE m <= From(cursor)
    <3>1. handed[m] > 0 \/ m \in history \cup skipped
      BY <2>1 DEF SessionInv, Reached
    <3> QED BY <1>3, <1>12, <3>1 DEF Reached
  <2>2. CASE ~(m <= From(cursor))
    <3>1. m \in (first + 1)..last
      BY <1>0, <1>6, <2>2 DEF Posts
    <3>2. CASE m \in new
      BY <1>3, <3>2 DEF Reached
    <3>3. CASE m \notin new
      <4>1. m \in Range(seen)
        BY <1>1, <3>1, <3>3
      <4>2. handed[m] > 0
        BY <4>1 DEF SessionInv
      <4> QED BY <1>3, <3>3, <4>2 DEF Reached
    <3> QED BY <3>2, <3>3
  <2> QED BY <2>1, <2>2
<1>7. ASSUME NEW m \in Range(seen') PROVE handed'[m] > 0
  <2>1. m \in Posts /\ (m \in Range(seen) \/ m \in new)
    BY <1>1, <1>2
  <2>2. CASE m \in new
    BY <1>3, <2>1, <2>2
  <2>3. CASE m \notin new
    <3>1. handed[m] > 0
      BY <2>1, <2>3 DEF SessionInv
    <3> QED BY <1>3, <2>1, <2>3, <3>1
  <2> QED BY <2>2, <2>3
<1>8. ASSUME NEW m \in Posts, handed'[m] > 0 PROVE m <= posted'
  <2>1. CASE m \in new
    <3>1. m \in (first + 1)..last
      BY <1>1, <2>1
    <3> QED BY <1>0, <3>1
  <2>2. CASE m \notin new
    BY <1>3, <1>8, <2>2 DEF SessionInv
  <2> QED BY <2>1, <2>2
<1>9. ASSUME NEW m \in Posts, PassedOver(m) PROVE PassedOver(m)'
  <2>1. m <= From(cursor) /\ m \in notified /\ \A a \in asked : m <= a
    BY <1>9 DEF PassedOver
  <2>2. m <= From(cursor')
    BY <1>0, <2>1 DEF Posts
  <2> QED BY <2>1, <2>2 DEF PassedOver
<1>10. ASSUME NEW m \in Posts, handed'[m] > 0, m \notin excused'
       PROVE  m \in Range(seen') \/ PassedOver(m)'
  <2>1. CASE m \in new
    BY <1>1, <1>10, <2>1
  <2>2. CASE m \notin new
    <3>1. handed[m] > 0 /\ m \notin excused
      BY <1>1, <1>3, <1>10, <2>2
    <3>2. m \in Range(seen) \/ PassedOver(m)
      BY <3>1 DEF SessionInv
    <3> QED BY <1>1, <1>9, <1>10, <3>2
  <2> QED BY <2>1, <2>2
<1>11. ASSUME NEW m \in Posts, handed'[m] > 1 PROVE m \in excused'
  <2>1. CASE m \in new
    <3>1. handed[m] > 0
      BY <1>3, <1>11, <2>1
    <3>2. m \notin excused => m \in Range(seen) \/ PassedOver(m)
      BY <3>1 DEF SessionInv
    <3>3. ~PassedOver(m)
      BY <1>1, <2>1
    <3> QED BY <1>1, <2>1, <3>2, <3>3
  <2>2. CASE m \notin new
    BY <1>1, <1>3, <1>11, <2>2 DEF SessionInv, NoneTwice
  <2> QED BY <2>1, <2>2
<1> QED BY <1>4, <1>5, <1>6, <1>7, <1>8, <1>10, <1>11, <1>12 DEF SessionInv, NoneTwice

LEMMA PayloadKeeps ==
  ASSUME SessionInv, NEW first \in 0..MaxPosts, NEW last \in 0..MaxPosts, Payload(first, last)
  PROVE  SessionInv'
<1>0. /\ first \in asked /\ last \in first..posted /\ cursor' = Marked(last) /\ saving' = TRUE
      /\ cold' = FALSE /\ UNCHANGED <<posted, notified, saved, asked>>
      /\ SessionTyped /\ MaxPosts \in Nat /\ posted \in 0..MaxPosts
      /\ From(cursor) \in 0..MaxPosts /\ cursor \in Cursors
  BY MochatAssumption, CursorIs DEF Payload, SessionInv, SessionTyped
<1>1. /\ cursor' \in Cursors /\ cursor' # {}
      /\ From(cursor') >= From(cursor) /\ (From(cursor') = From(cursor) \/ From(cursor') = last)
  BY <1>0, Marks
<1>2. first <= From(cursor)
  BY <1>0 DEF SessionInv
<1>3. CASE ~cold
  <2>1. Handle(first, last) /\ dropped' = dropped /\ cold' = cold
    BY <1>0, <1>3 DEF Payload, SessionTyped
  <2>2. first \in Nat /\ last \in first..MaxPosts /\ last <= posted
    BY <1>0
  <2>3. ASSUME NEW m \in (first + 1)..last PROVE ~PassedOver(m)
    <3>1. ~(m <= first)
      BY <2>2, <2>3
    <3> QED BY <1>0, <3>1 DEF PassedOver
  <2>4. UNCHANGED <<posted, saved, asked, dropped>> /\ notified' = notified /\ notified \subseteq Posts
    BY <1>0, <2>1 DEF SessionTyped
  <2> QED BY <1>0, <1>1, <1>2, <2>1, <2>2, <2>3, <2>4, HandleKeeps
<1>4. CASE cold
  <2>1. /\ coldRead' = TRUE
        /\ history' = (IF coldRead THEN history ELSE (first + 1)..last)
        /\ skipped' = (IF coldRead THEN skipped \cup (first + 1)..last ELSE skipped)
        /\ UNCHANGED <<seen, handed, cursorLost, excused>>
    BY <1>4 DEF Payload
  <2>2. cursor = {} /\ first = 0
    <3>1. cursor = {}
      BY <1>4 DEF SessionInv
    <3>2. From(cursor) = 0
      BY <3>1, CursorIs
    <3> QED BY <1>2, <3>1, <3>2
  <2>3. From(cursor) = 0 /\ From(cursor') \in 0..MaxPosts /\ From(cursor') <= last
    BY <1>0, <1>1, <2>2, CursorIs
  <2>4. history' \subseteq Posts /\ skipped' \subseteq Posts
    <3>1. (first + 1)..last \subseteq Posts
      BY <1>0, <2>2 DEF Posts
    <3> QED BY <1>0, <2>1, <3>1 DEF SessionTyped
  <2>11. ReadInv'
    <3>1. ReadInv
      BY DEF SessionInv
    <3> QED BY <1>0, <1>1, <1>4, <2>1, <3>1 DEF ReadInv
  <2>5. SessionTyped'
    BY <1>0, <1>1, <2>1, <2>4 DEF SessionTyped
  <2>6. From(saved') <= From(cursor') /\ \A a \in asked' : a <= From(cursor')
    <3>1. From(saved) <= 0 /\ From(saved) \in 0..MaxPosts /\ \A a \in asked : a <= 0 /\ a \in 0..MaxPosts
      BY <1>0, <2>3, CursorIs DEF SessionInv, SessionTyped
    <3> QED BY <1>0, <2>3, <3>1
  <2>7. ASSUME NEW m \in Posts, m <= From(cursor') PROVE Reached(m)'
    <3>1. m \in (first + 1)..last
      BY <1>0, <2>2, <2>3, <2>7 DEF Posts
    <3> QED BY <2>1, <3>1 DEF Reached
  <2>8. ASSUME NEW m \in Posts, handed[m] > 0, m \notin excused PROVE m \in Range(seen)
    <3>1. m \in Range(seen) \/ PassedOver(m)
      BY <2>8 DEF SessionInv
    <3>2. ~(m <= From(cursor))
      BY <2>3 DEF Posts
    <3> QED BY <3>1, <3>2 DEF PassedOver
  <2>9. \A m \in Range(seen) : handed[m] > 0
    BY DEF SessionInv
  <2>10. /\ \A m \in Posts : handed[m] > 0 => m <= posted
         /\ \A m \in Posts : handed[m] > 1 => m \in excused
    BY DEF SessionInv, NoneTwice
  <2> QED BY <1>0, <1>1, <2>1, <2>5, <2>6, <2>7, <2>8, <2>9, <2>10, <2>11 DEF SessionInv, NoneTwice
<1> QED BY <1>3, <1>4

LEMMA NotifyKeeps ==
  ASSUME SessionInv, NEW m \in Posts, Notify(m)
  PROVE  SessionInv'
<1>0. /\ m \in 1..posted /\ m \notin notified /\ notified' = notified \cup {m} /\ Handle(m - 1, m)
      /\ UNCHANGED <<posted, cursor, saved, saving, cold, asked, dropped>>
      /\ SessionTyped /\ MaxPosts \in Nat /\ posted \in 0..MaxPosts
      /\ From(cursor) \in 0..MaxPosts /\ cursor \in Cursors
  BY MochatAssumption, CursorIs DEF Notify, SessionInv, SessionTyped
<1>1. PICK first : first = m - 1
  OBVIOUS
<1>2. first \in Nat /\ m \in first..MaxPosts /\ m <= posted /\ (first + 1)..m = {m}
  BY <1>0, <1>1 DEF Posts
<1>3. \A n \in (first + 1)..m : ~PassedOver(n)
  BY <1>0, <1>2 DEF PassedOver
<1>4. cold \in BOOLEAN /\ saving \in BOOLEAN /\ (cold <=> cursor = {}) /\ notified' \subseteq Posts
  BY <1>0 DEF SessionInv, SessionTyped
<1>5. /\ saving' \in BOOLEAN /\ cold' \in BOOLEAN /\ (cold' <=> cursor' = {})
      /\ cursor' \in Cursors /\ From(cursor') = From(cursor) /\ From(cursor') >= From(cursor)
      /\ notified \subseteq notified' /\ Handle(first, m)
  BY <1>0, <1>1, <1>4
<1> QED BY <1>0, <1>2, <1>3, <1>4, <1>5, HandleKeeps

(* What a step leaves of the invariant that moves neither the cursor nor    *)
(* what was handed over.                                                    *)
LEMMA SessionRests ==
  ASSUME SessionInv, UNCHANGED <<notified, cursor, cold, seen, handed, dropped, excused>>,
         posted' \in posted..MaxPosts, saving' \in BOOLEAN,
         saved' \in Cursors, From(saved') <= From(cursor), saved' # {} => cursor # {},
         asked' \subseteq asked \cup {From(cursor)}
  PROVE  SessionInv'
<1>0. MaxPosts \in Nat /\ From(cursor) \in 0..MaxPosts /\ SessionTyped /\ posted \in 0..MaxPosts
  BY MochatAssumption, CursorIs DEF SessionInv, SessionTyped
<1>1. asked' \subseteq 0..MaxPosts /\ asked \subseteq 0..MaxPosts
  BY <1>0 DEF SessionTyped
<1>2. SessionTyped'
  <2>1. posted' \in 0..MaxPosts
    BY <1>0
  <2> QED BY <1>0, <1>1, <2>1 DEF SessionTyped, dropped
<1>9. ReadInv'
  BY DEF SessionInv, ReadInv, dropped
<1>3. \A a \in asked' : a <= From(cursor')
  <2>1. \A a \in asked : a <= From(cursor)
    BY DEF SessionInv
  <2> QED BY <1>0, <2>1
<1>4. ASSUME NEW m \in Posts, PassedOver(m) PROVE PassedOver(m)'
  <2>1. m <= From(cursor) /\ m \in notified /\ \A a \in asked : m <= a
    BY <1>4 DEF PassedOver
  <2> QED BY <2>1 DEF PassedOver
<1>5. \A m \in Posts : m <= From(cursor') => Reached(m)'
  BY DEF SessionInv, Reached, dropped
<1>6. \A m \in Posts : handed'[m] > 0 => m <= posted'
  <2>1. \A m \in Posts : handed[m] > 0 => m <= posted
    BY DEF SessionInv
  <2> QED BY <1>0, <2>1 DEF Posts
<1>7. \A m \in Posts : handed'[m] > 0 /\ m \notin excused' => m \in Range(seen') \/ PassedOver(m)'
  BY <1>4 DEF SessionInv
<1>8. /\ cold' <=> cursor' = {}
      /\ From(saved') <= From(cursor')
      /\ \A m \in Range(seen') : handed'[m] > 0
      /\ \A m \in Posts : handed'[m] > 1 => m \in excused'
  BY DEF SessionInv, NoneTwice
<1> QED BY <1>2, <1>3, <1>5, <1>6, <1>7, <1>8, <1>9 DEF SessionInv, NoneTwice

LEMMA RestartKeeps ==
  ASSUME SessionInv, NEW clean \in BOOLEAN, Restart(clean)
  PROVE  SessionInv'
<1>0. /\ saved' = (IF clean THEN cursor ELSE saved)
      /\ cursor' = saved' /\ cold' = (saved' = {}) /\ asked' = {From(saved')}
      /\ excused' = excused \cup (From(saved') + 1)..posted
      /\ notified' = 1..posted /\ saving' = FALSE /\ seen' = <<>>
      /\ UNCHANGED <<posted, handed, coldRead, history, skipped>>
      /\ cursorLost' = (cursorLost \/ (cursor # {} /\ saved' = {}))
      /\ SessionTyped /\ MaxPosts \in Nat /\ posted \in 0..MaxPosts
  BY MochatAssumption DEF Restart, SessionInv, SessionTyped
<1>1. saved' \in Cursors /\ From(saved') \in 0..MaxPosts /\ From(cursor) \in 0..MaxPosts
  BY <1>0, CursorIs DEF SessionTyped
<1>2. From(saved') <= From(cursor)
  BY <1>0, <1>1 DEF SessionInv
<1>3. PICK n : n = From(saved')
  OBVIOUS
<1>4. n \in 0..MaxPosts /\ From(cursor') = n /\ asked' = {n} /\ excused' = excused \cup (n + 1)..posted
  BY <1>0, <1>1, <1>3
<1>5. seen' \in Seq(Posts) /\ Len(seen') <= MaxSeen /\ Range(seen') = {}
  <2>1. seen' = <<>>
    BY <1>0
  <2>2. seen' \in Seq(Posts)
    BY <2>1, EmptyRange
  <2>3. Range(seen') = {}
    BY <2>1, EmptyRange
  <2>4. Len(seen') <= MaxSeen
    <3>1. Len(seen') = 0 /\ MaxSeen \in Nat
      BY <2>1, EmptyRange, MochatAssumption
    <3> QED BY <3>1
  <2> QED BY <2>2, <2>3, <2>4
<1>6. SessionTyped'
  <2>1. 1..posted \subseteq Posts /\ (n + 1)..posted \subseteq Posts
    BY <1>0, <1>4 DEF Posts
  <2>2. cold' \in BOOLEAN
    BY <1>0
  <2> QED BY <1>0, <1>1, <1>4, <1>5, <2>1, <2>2 DEF SessionTyped
<1>11. ReadInv'
  BY <1>0 DEF SessionInv, ReadInv
<1>7. ASSUME NEW m \in Posts, m <= From(cursor') PROVE Reached(m)'
  <2>1. m <= From(cursor)
    BY <1>1, <1>2, <1>3, <1>4, <1>7 DEF Posts
  <2> QED BY <1>0, <2>1 DEF SessionInv, Reached
<1>8. ASSUME NEW m \in Posts, handed[m] > 0, m \notin excused' PROVE PassedOver(m)'
  <2>1. m <= posted
    BY <1>8 DEF SessionInv
  <2>2. m \notin (n + 1)..posted
    BY <1>4, <1>8
  <2>3. m <= n /\ m \in 1..posted
    BY <1>0, <1>4, <2>1, <2>2 DEF Posts
  <2> QED BY <1>0, <1>4, <2>3 DEF PassedOver
<1>9. /\ cold' <=> cursor' = {}
      /\ From(saved') <= From(cursor') /\ \A a \in asked' : a <= From(cursor')
  <2>1. cold' <=> cursor' = {}
    BY <1>0
  <2>2. From(saved') = n /\ n <= n /\ \A a \in {n} : a <= n
    BY <1>3, <1>4
  <2> QED BY <1>4, <2>1, <2>2
<1>10. /\ \A m \in Posts : handed[m] > 0 => m <= posted
       /\ \A m \in Posts : handed[m] > 1 => m \in excused
  BY DEF SessionInv, NoneTwice
<1> QED BY <1>0, <1>5, <1>6, <1>7, <1>8, <1>9, <1>10, <1>11 DEF SessionInv, NoneTwice

LEMMA RemembersRange ==
  ASSUME NEW q \in Seq(Posts), NEW m \in Posts
  PROVE  Remember(q, m) \in Seq(Posts) /\ Range(Remember(q, m)) \subseteq Range(q) \cup {m}
<1>1. PICK longer : longer = Append(q, m)
  OBVIOUS
<1>2. /\ longer \in Seq(Posts) /\ Len(longer) = Len(q) + 1 /\ Len(q) \in Nat
      /\ longer[Len(longer)] = m /\ \A i \in 1..Len(q) : longer[i] = q[i]
  BY <1>1
<1>3. PICK r : r = Remember(q, m)
  OBVIOUS
<1>4. ASSUME NEW i \in 1..Len(longer) PROVE longer[i] \in Range(q) \cup {m}
  <2>1. CASE i = Len(longer)
    BY <1>2, <2>1
  <2>2. CASE i # Len(longer)
    <3>1. i \in 1..Len(q) /\ longer[i] = q[i]
      BY <1>2, <2>2
    <3> QED BY <3>1, Seen
  <2> QED BY <2>1, <2>2
<1>5. CASE r = longer
  <2>1. \A n \in Range(longer) : n \in Range(q) \cup {m}
    BY <1>2, <1>4, Seen
  <2> QED BY <1>2, <1>3, <1>5, <2>1
<1>6. CASE r = Tail(longer)
  <2>1. longer # <<>>
    BY <1>2
  <2>2. r \in Seq(Posts) /\ Len(r) = Len(q) /\ \A i \in 1..Len(r) : r[i] = longer[i + 1]
    BY <1>2, <1>6, <2>1
  <2>3. ASSUME NEW n \in Range(r) PROVE n \in Range(q) \cup {m}
    <3>1. PICK i \in 1..Len(r) : r[i] = n
      BY <2>2, Seen
    <3>2. i + 1 \in 1..Len(longer) /\ longer[i + 1] = n
      BY <1>2, <2>2, <3>1
    <3> QED BY <1>4, <3>2
  <2> QED BY <1>3, <2>2, <2>3
<1> QED BY <1>1, <1>3, <1>5, <1>6 DEF Remember

LEMMA AppendedRange ==
  ASSUME NEW q \in Seq(Posts), NEW m \in Posts
  PROVE  Append(q, m) \in Seq(Posts) /\ Range(q) \cup {m} \subseteq Range(Append(q, m))
<1>1. PICK longer : longer = Append(q, m)
  OBVIOUS
<1>2. /\ longer \in Seq(Posts) /\ Len(longer) = Len(q) + 1 /\ Len(q) \in Nat
      /\ longer[Len(longer)] = m /\ \A i \in 1..Len(q) : longer[i] = q[i]
  BY <1>1
<1>3. Len(longer) \in 1..Len(longer)
  BY <1>2
<1>4. ASSUME NEW n \in Range(q) PROVE n \in Range(longer)
  <2>1. PICK i \in 1..Len(q) : q[i] = n
    BY Seen
  <2>2. i \in 1..Len(longer) /\ longer[i] = n
    BY <1>2, <2>1
  <2> QED BY <1>2, <2>2, Seen
<1>5. m \in Range(longer)
  BY <1>2, <1>3, Seen
<1> QED BY <1>1, <1>2, <1>4, <1>5

LEMMA PanelKeeps ==
  ASSUME PanelInv,
         \/ \E m \in Posts, mentioned \in BOOLEAN : PanelMessage(m, mentioned)
         \/ Flush \/ (\E clean \in BOOLEAN : Restart(clean)) \/ UNCHANGED panel
  PROVE  PanelInv'
<1>1. ASSUME NEW m \in Posts, NEW mentioned \in BOOLEAN, PanelMessage(m, mentioned) PROVE PanelInv'
  <2>1. panelSeen \in Seq(Posts) /\ entries \in Seq(Posts)
        /\ Range(panelSeen) \subseteq merged \cup Range(entries)
    BY DEF PanelInv, NoneStuck
  <2>2. PICK q : q = Remember(panelSeen, m)
    OBVIOUS
  <2>3. q \in Seq(Posts) /\ Range(q) \subseteq Range(panelSeen) \cup {m}
    BY <2>1, <2>2, RemembersRange
  <2>4. CASE mentioned
    <3>1. merged' = merged \cup Range(entries) \cup {m} /\ entries' = <<>> /\ panelSeen' = q
      BY <1>1, <2>2, <2>4 DEF PanelMessage
    <3>2. entries' \in Seq(Posts)
      BY <3>1
    <3> QED BY <2>1, <2>3, <3>1, <3>2 DEF PanelInv, NoneStuck
  <2>5. CASE ~mentioned
    <3>1. merged' = merged /\ entries' = Append(entries, m) /\ timer' = TRUE /\ panelSeen' = q
      BY <1>1, <2>2, <2>5 DEF PanelMessage
    <3>2. entries' \in Seq(Posts) /\ Range(entries) \cup {m} \subseteq Range(entries')
      BY <2>1, <3>1, AppendedRange
    <3> QED BY <2>1, <2>3, <3>1, <3>2 DEF PanelInv, NoneStuck
  <2> QED BY <2>4, <2>5
<1>2. CASE Flush
  <2>1. merged' = merged \cup Range(entries) /\ entries' = <<>> /\ panelSeen' = panelSeen
    BY <1>2 DEF Flush
  <2>2. entries' \in Seq(Posts)
    BY <2>1
  <2> QED BY <2>1, <2>2 DEF PanelInv, NoneStuck
<1>3. CASE \E clean \in BOOLEAN : Restart(clean)
  <2>1. entries' = <<>> /\ panelSeen' = <<>>
    BY <1>3 DEF Restart
  <2>2. entries' \in Seq(Posts) /\ panelSeen' \in Seq(Posts)
    BY <2>1, EmptyRange
  <2>3. Range(panelSeen') = {}
    BY <2>1, EmptyRange
  <2> QED BY <2>1, <2>2, <2>3 DEF PanelInv, NoneStuck
<1>4. CASE UNCHANGED panel
  BY <1>4 DEF PanelInv, NoneStuck, panel
<1> QED BY <1>1, <1>2, <1>3, <1>4

MochatInv == SessionInv /\ PanelInv

LEMMA MochatBegins == MochatInit => MochatInv
<1> SUFFICES ASSUME MochatInit PROVE MochatInv
  OBVIOUS
<1>1. /\ posted \in 0..MaxPosts /\ notified = 1..posted
      /\ cursor = {} /\ saved = {} /\ saving = FALSE /\ cold = TRUE /\ asked = {0}
      /\ seen = <<>> /\ handed = [m \in Posts |-> 0] /\ excused = {}
      /\ coldRead = FALSE /\ history = {} /\ skipped = {} /\ cursorLost = FALSE
      /\ panelSeen = <<>> /\ entries = <<>>
  BY DEF MochatInit
<1>2. MaxPosts \in Nat /\ MaxSeen \in Nat
  BY MochatAssumption
<1>3. seen \in Seq(Posts) /\ panelSeen \in Seq(Posts) /\ entries \in Seq(Posts) /\ Len(seen) = 0
  BY <1>1, EmptyRange
<1>4. Range(seen) = {} /\ Range(panelSeen) = {}
  BY <1>1, EmptyRange
<1>5. handed \in [Posts -> Nat] /\ \A m \in Posts : handed[m] = 0
  BY <1>1
<1>6. From(cursor) = 0 /\ From(saved) = 0 /\ {} \in Cursors
  BY <1>1, CursorIs DEF Cursors
<1>7. SessionTyped
  <2>1. 1..posted \subseteq Posts /\ 0 \in 0..MaxPosts
    BY <1>1, <1>2 DEF Posts
  <2>2. saving \in BOOLEAN /\ cold \in BOOLEAN
    BY <1>1
  <2>3. Len(seen) <= MaxSeen
    BY <1>2, <1>3
  <2> QED BY <1>1, <1>3, <1>5, <1>6, <2>1, <2>2, <2>3 DEF SessionTyped
<1>8. /\ \A m \in Posts : ~(m <= From(cursor)) /\ ~(handed[m] > 0) /\ ~(handed[m] > 1)
      /\ From(saved) <= From(cursor) /\ \A a \in asked : a <= From(cursor)
  BY <1>1, <1>5, <1>6 DEF Posts
<1>9. SessionInv
  BY <1>1, <1>4, <1>7, <1>8 DEF SessionInv, ReadInv, NoneTwice
<1>10. PanelInv
  BY <1>1, <1>3, <1>4 DEF PanelInv, NoneStuck
<1> QED BY <1>9, <1>10 DEF MochatInv

LEMMA MochatSteps ==
  ASSUME MochatInv, [MochatNext]_mochatVars
  PROVE  MochatInv'
<1>0. SessionInv /\ PanelInv /\ SessionTyped /\ MaxPosts \in Nat
  BY MochatAssumption DEF MochatInv, SessionInv
<1>1. /\ saving \in BOOLEAN /\ saved \in Cursors /\ cursor \in Cursors /\ posted \in 0..MaxPosts
      /\ From(saved) <= From(cursor) /\ From(cursor) \in 0..MaxPosts
      /\ saved # {} => cursor # {}
  BY <1>0, CursorIs DEF SessionTyped, SessionInv, ReadInv
<1>2. CASE Post
  <2>1. /\ posted' = posted + 1 /\ posted < MaxPosts /\ UNCHANGED panel
        /\ UNCHANGED <<notified, cursor, cold, seen, handed, dropped, excused>>
        /\ saving' = saving /\ saved' = saved /\ asked' = asked
    BY <1>2 DEF Post
  <2>2. posted' \in posted..MaxPosts
    BY <1>0, <1>1, <2>1
  <2>3. SessionInv'
    BY <1>0, <1>1, <2>1, <2>2, SessionRests
  <2> QED BY <1>0, <2>1, <2>3, PanelKeeps DEF MochatInv
<1>3. CASE Watch \/ SaveCursor \/ UNCHANGED mochatVars \/ PanelPost \/ Flush
           \/ \E m \in Posts, mentioned \in BOOLEAN : PanelMessage(m, mentioned)
  <2>1. /\ posted' = posted
        /\ UNCHANGED <<notified, cursor, cold, seen, handed, dropped, excused>>
    BY <1>3 DEF Watch, SaveCursor, PanelPost, Flush, PanelMessage, mochatVars, session, dropped
  <2>2. /\ saving' \in BOOLEAN /\ saved' \in {saved, cursor}
        /\ asked' \subseteq asked \cup {From(cursor)}
    BY <1>1, <1>3 DEF Watch, SaveCursor, PanelPost, Flush, PanelMessage, mochatVars, session
  <2>3. /\ posted' \in posted..MaxPosts /\ saved' \in Cursors /\ From(saved') <= From(cursor)
        /\ saved' # {} => cursor # {}
    BY <1>0, <1>1, <2>1, <2>2
  <2>4. SessionInv'
    BY <1>0, <2>1, <2>2, <2>3, SessionRests
  <2>5. \/ Flush \/ \E m \in Posts, mentioned \in BOOLEAN : PanelMessage(m, mentioned)
        \/ UNCHANGED <<panelSeen, entries, timer, merged>>
    BY <1>3 DEF Watch, SaveCursor, PanelPost, mochatVars, panel
  <2>6. PanelInv'
    BY <1>0, <2>5, PanelKeeps DEF PanelInv, NoneStuck
  <2> QED BY <2>4, <2>6 DEF MochatInv
<1>4. ASSUME NEW first \in 0..MaxPosts, NEW last \in 0..MaxPosts, Payload(first, last)
      PROVE  MochatInv'
  <2>1. UNCHANGED panel
    BY <1>4 DEF Payload
  <2> QED BY <1>0, <1>4, <2>1, PayloadKeeps, PanelKeeps DEF MochatInv
<1>5. ASSUME NEW m \in Posts, Notify(m) PROVE MochatInv'
  <2>1. UNCHANGED panel
    BY <1>5 DEF Notify
  <2> QED BY <1>0, <1>5, <2>1, NotifyKeeps, PanelKeeps DEF MochatInv
<1>6. ASSUME NEW clean \in BOOLEAN, Restart(clean) PROVE MochatInv'
  BY <1>0, <1>6, RestartKeeps, PanelKeeps DEF MochatInv
<1> QED BY <1>2, <1>3, <1>4, <1>5, <1>6 DEF MochatNext

(* For any number of messages, any bound of the memory of ids, and any     *)
(* order of payloads, notifications, saves, stops and crashes, Mochat      *)
(* (src/PhyAgentOS/channels/mochat.py) hands each message of the session   *)
(* up to its cursor to the Agent, but for those of the first payload, and  *)
(* those a process that found no cursor skipped after an earlier one had   *)
(* read the session; none twice unless its id was evicted or no file       *)
(* covered it; and what waits for the panel has a timer.                   *)
THEOREM MochatHandsOver == MochatSpec => []MochatDelivers
<1>1. MochatInv => MochatDelivers
  <2> SUFFICES ASSUME MochatInv PROVE MochatDelivers
    OBVIOUS
  <2>1. SessionInv /\ PanelInv /\ SessionTyped /\ MaxPosts \in Nat
    BY MochatAssumption DEF MochatInv, SessionInv
  <2>2. From(saved) \in 0..MaxPosts /\ From(cursor) \in 0..MaxPosts /\ From(saved) <= From(cursor)
    BY <2>1, CursorIs DEF SessionTyped, SessionInv
  <2>3. \A m \in Posts : m <= From(cursor) \/ m <= From(saved) => m <= From(cursor)
    BY <2>2 DEF Posts
  <2>4. NoneLost
    BY <2>1, <2>3 DEF NoneLost, SessionInv, ReadInv, Reached
  <2> QED BY <2>1, <2>4 DEF MochatDelivers, SessionInv, PanelInv
<1> QED BY <1>1, MochatBegins, MochatSteps, PTL DEF MochatSpec

(* The panel of Mochat, and what is counted. *)
PanelTyped ==
  /\ paneled \in 0..MaxPosts /\ timer \in BOOLEAN /\ merged \subseteq Posts
  /\ deliveries \in 0..MaxDeliveries /\ restarts \in 0..MaxRestarts

LEMMA PanelTypes ==
  ASSUME PanelInv, PanelTyped, posted \in 0..MaxPosts, [MochatNext]_mochatVars
  PROVE  PanelTyped'
<1>0. MaxPosts \in Nat /\ MaxDeliveries \in Nat /\ MaxRestarts \in Nat
  BY MochatAssumption
<1>1. Range(entries) \subseteq Posts
  BY DEF PanelInv, Range
<1>2. CASE Post \/ Watch \/ SaveCursor \/ UNCHANGED mochatVars
  <2>1. UNCHANGED <<paneled, timer, merged, deliveries, restarts>>
    BY <1>2 DEF Post, Watch, SaveCursor, mochatVars, panel
  <2> QED BY <2>1 DEF PanelTyped
<1>3. CASE PanelPost
  BY <1>0, <1>3 DEF PanelPost, PanelTyped
<1>4. CASE Flush
  BY <1>1, <1>4 DEF Flush, PanelTyped
<1>5. ASSUME NEW first \in 0..MaxPosts, NEW last \in 0..MaxPosts, Payload(first, last)
      PROVE  PanelTyped'
  <2>1. /\ UNCHANGED <<paneled, timer, merged, restarts>>
        /\ deliveries' = deliveries + 1 /\ deliveries < MaxDeliveries
    BY <1>5 DEF Payload, panel
  <2> QED BY <1>0, <2>1 DEF PanelTyped
<1>6. ASSUME NEW m \in Posts, Notify(m) PROVE PanelTyped'
  <2>1. UNCHANGED <<paneled, timer, merged, deliveries, restarts>>
    BY <1>6 DEF Notify, panel
  <2> QED BY <2>1 DEF PanelTyped
<1>7. ASSUME NEW m \in Posts, NEW mentioned \in BOOLEAN, PanelMessage(m, mentioned)
      PROVE  PanelTyped'
  <2>1. /\ UNCHANGED <<paneled, restarts>> /\ timer' \in BOOLEAN
        /\ merged' \in {merged, merged \cup Range(entries) \cup {m}}
        /\ deliveries' = deliveries + 1 /\ deliveries < MaxDeliveries
    BY <1>7 DEF PanelMessage
  <2> QED BY <1>0, <1>1, <2>1 DEF PanelTyped
<1>8. ASSUME NEW clean \in BOOLEAN, Restart(clean) PROVE PanelTyped'
  <2>1. /\ paneled' = paneled /\ timer' = FALSE /\ merged' = {} /\ deliveries' = deliveries
        /\ restarts' = restarts + 1 /\ restarts < MaxRestarts
    BY <1>8 DEF Restart
  <2>2. timer' \in BOOLEAN /\ merged' \subseteq Posts
    BY <2>1, Zenon
  <2> QED BY <1>0, <2>1, <2>2 DEF PanelTyped
<1> QED BY <1>2, <1>3, <1>4, <1>5, <1>6, <1>7, <1>8 DEF MochatNext

(* The types of Mochat, for any number of messages and any bound of the     *)
(* memory of ids, which it never exceeds whichever of the socket, the       *)
(* polling and the notifications remembers                                  *)
(* (src/PhyAgentOS/channels/mochat.py:719).                                 *)
THEOREM SeenBounded == MochatSpec => []MochatTypeOK
<1>1. MochatInit => MochatInv /\ PanelTyped
  <2> SUFFICES ASSUME MochatInit PROVE MochatInv /\ PanelTyped
    OBVIOUS
  <2>1. /\ MochatInv /\ paneled = 0 /\ timer = FALSE /\ merged = {}
        /\ deliveries = 0 /\ restarts = 0
    BY MochatBegins DEF MochatInit
  <2>2. timer \in BOOLEAN /\ merged \subseteq Posts
    BY <2>1, Zenon
  <2> QED BY <2>1, <2>2, MochatAssumption DEF PanelTyped
<1>2. MochatInv /\ PanelTyped /\ [MochatNext]_mochatVars => (MochatInv /\ PanelTyped)'
  BY MochatSteps, PanelTypes DEF MochatInv, SessionInv, SessionTyped
<1>3. MochatInv /\ PanelTyped => MochatTypeOK
  BY DEF MochatInv, SessionInv, SessionTyped, PanelInv, PanelTyped, MochatTypeOK
<1> QED BY <1>1, <1>2, <1>3, PTL DEF MochatSpec

=============================================================================
