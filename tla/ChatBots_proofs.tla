----------------------------- MODULE ChatBots_proofs ---------------------------
(***************************************************************************)
(* Theorems of ChatBots for every number of lines and commands, all texts, *)
(* any greatest length of a part and any number of faults.                 *)
(***************************************************************************)
EXTENDS ChatBots, SequenceTheorems, WellFoundedInduction, TLAPS

------------------------------------------------------------------------------
(* Where a part ends.                                                      *)

\* Of finitely many places one is the last.
LEMMA LastPlace ==
  ASSUME NEW end \in Nat, NEW S, S \subseteq Nat, S # {},
         \A s \in S : s < end
  PROVE  \E s \in S : \A t \in S : t <= s
<1> DEFINE T == {end - s : s \in S}
<1>1. T \subseteq Nat /\ T # {}
  <2>1. \A s \in S : end - s \in Nat
    OBVIOUS
  <2>2. PICK s \in S : TRUE
    OBVIOUS
  <2>3. end - s \in T
    BY <2>2
  <2> QED BY <2>1, <2>3
<1>2. PICK x \in T : \A y \in T : ~ (<<y, x>> \in OpToRel(<, Nat))
  <2> HIDE DEF T
  <2> QED BY <1>1, NatLessThanWellFounded, WFMin
<1>3. \A y \in T : ~ (y < x)
  BY <1>1, <1>2 DEF OpToRel
<1>4. PICK s \in S : x = end - s
  BY <1>2
<1>5. \A t \in S : t <= s
  BY <1>3, <1>4
<1> QED BY <1>5

LEMMA PartBounds ==
  ASSUME NEW text \in Texts, NEW start \in Nat, start <= text.len
  PROVE  LET end == EndOfPart(text, start)
         IN  /\ end \in Nat /\ start <= end /\ end <= text.len
             /\ end - start <= MaxLength
             /\ \/ end \in text.spaces \union {text.len}
                \/ /\ end - start = MaxLength
                   /\ text.spaces \intersect start..end = {}
             /\ StartAfter(text, end) \in Nat /\ end <= StartAfter(text, end)
<1> DEFINE end == start + MaxLength
           spaces == {s \in text.spaces : start <= s /\ s < end}
           last == CHOOSE s \in spaces : \A t \in spaces : t <= s
<1>1. /\ text.len \in Nat /\ text.spaces \subseteq 0..(text.len - 1)
      /\ MaxLength \in Nat /\ MaxLength > 0
  BY ChatBotsAssumption
<1>2. CASE text.len <= MaxLength \/ end > text.len
  BY <1>1, <1>2 DEF EndOfPart, StartAfter
<1>3. CASE ~(text.len <= MaxLength \/ end > text.len) /\ spaces = {}
  BY <1>1, <1>3 DEF EndOfPart, StartAfter
<1>4. CASE ~(text.len <= MaxLength \/ end > text.len) /\ spaces # {}
  <2>1. EndOfPart(text, start) = last
    BY <1>4 DEF EndOfPart
  <2>2. spaces \subseteq Nat /\ (\A s \in spaces : s < end) /\ end \in Nat
    BY <1>1
  <2>3. last \in spaces
    <3> HIDE DEF spaces, end
    <3>1. \E s \in spaces : \A t \in spaces : t <= s
      BY <1>4, <2>2, LastPlace
    <3> QED BY <3>1
  <2> HIDE DEF last
  <2> QED BY <1>1, <2>1, <2>3 DEF StartAfter
<1> QED BY <1>2, <1>3, <1>4

------------------------------------------------------------------------------
(* Types.  A callback of the reader has a line, that of Connect one that is *)
(* addressed to the bot.  The sender is saying the answer of a command, and *)
(* has not come past its end.  What it fetched and has not handled was not  *)
(* acknowledged; what it began to say was answered, and is no other text by *)
(* the next time it is looked at.                                           *)

ReaderInv ==
    /\ reader.pc = "command" => reader.line \in Commands
    /\ reader.pc = "chat" => reader.line \in Lines

Begun(c) == said[c] # <<>> \/ Saying(c)

SenderInv ==
    /\ sender.pc = "send" =>
         /\ sender.answer \in Commands
         /\ sender.start <= results[sender.answer].text.len
    /\ sender.pc # "send" => sender.start = 0
    /\ \A c \in sender.batch : results[c].status \notin {"none", "acked"}

ResultInv ==
    \A c \in Commands :
        /\ results[c].status = "none" => results[c] = NoResult
        /\ results[c].status # "none" /\ ~results[c].garbled
           => results[c].text \in Texts
        /\ Begun(c) => results[c].status # "none" /\ results[c].text \in Texts

BotsInv == TypeOK /\ ReaderInv /\ SenderInv /\ ResultInv

LEMMA BlankTypes == /\ NoResult \in Result /\ IdleReader \in Reader
                    /\ \A pc \in {"off", "fetch", "handle"} : SenderAt(pc) \in Sender
  BY DEF NoResult, NoText, Result, IdleReader, Reader, SenderAt, Sender

LEMMA BotsInit == Init => BotsInv
<1> SUFFICES ASSUME Init PROVE BotsInv
  OBVIOUS
<1>1. /\ inbox \in Seq(Lines) /\ chat \in Seq(Event)
      /\ said \in [Commands -> Seq(Part)] /\ faults \in 0..MaxFaults
  BY ChatBotsAssumption, EmptySeq DEF Init
<1>2. TypeOK
  BY <1>1, BlankTypes DEF Init, TypeOK, Links
<1>3. ReaderInv /\ SenderInv /\ ResultInv
  BY DEF Init, ReaderInv, SenderInv, ResultInv, Begun, Saying, IdleReader,
         SenderAt, NoResult
<1> QED BY <1>2, <1>3 DEF BotsInv

\* Until a line is heard or said the reader and the sender are as they were.
LEMMA MainInv ==
  ASSUME BotsInv, MainStep \/ Speak
  PROVE  BotsInv'
<1>1. CASE Connect \/ Listen \/ Reconnect \/ JoinChannels
  BY <1>1 DEF Connect, Listen, Reconnect, JoinChannels, BotsInv, TypeOK,
     ReaderInv, SenderInv, ResultInv, Begun, Saying, channel, streams, Links
<1>2. CASE SubscribeResults
  BY <1>2, BlankTypes
     DEF SubscribeResults, BotsInv, TypeOK, ReaderInv, SenderInv, ResultInv,
         Begun, Saying, SenderAt, channel, streams
<1>3. CASE Speak
  <2>1. spoken + 1 \in Lines /\ spoken' = spoken + 1
    BY <1>3, ChatBotsAssumption DEF Speak, BotsInv, TypeOK, Lines
  <2>2. inbox' \in Seq(Lines)
    BY <1>3, <2>1, AppendProperties DEF Speak, BotsInv, TypeOK
  <2> QED BY <1>3, <2>1, <2>2
          DEF Speak, BotsInv, TypeOK, ReaderInv, SenderInv, ResultInv, Begun,
              Saying, streams
<1> QED BY <1>1, <1>2, <1>3 DEF MainStep

LEMMA CallbackEnds ==
  ASSUME BotsInv, reader.pc # "idle", NextCallback
  PROVE  reader' \in Reader /\ ReaderInv'
<1>1. reader \in Reader /\ reader.line \in Lines
  BY ChatBotsAssumption DEF BotsInv, TypeOK, ReaderInv, Reader
<1>2. CASE reader' = IdleReader
  BY <1>2, BlankTypes DEF ReaderInv, IdleReader
<1>3. CASE reader' = [reader EXCEPT !.pc = "chat"]
  BY <1>1, <1>3 DEF ReaderInv, Reader
<1> QED BY <1>2, <1>3 DEF NextCallback

LEMMA ReaderStepInv ==
  ASSUME BotsInv, ReaderStep
  PROVE  BotsInv'
<1>1. /\ reader' \in Reader /\ ReaderInv' /\ inbox' \in Seq(Lines)
      /\ chat' \in Seq(Event) /\ commands' \in SUBSET Commands
  <2>1. CASE HearLine
    <3>1. /\ Head(inbox) \in Lines /\ inbox' = Tail(inbox)
          /\ inbox' \in Seq(Lines)
      BY <2>1, HeadTailProperties DEF HearLine, BotsInv, TypeOK
    <3>2. reader' \in Reader /\ ReaderInv'
      BY <2>1, <3>1, BlankTypes DEF HearLine, Reader, ReaderInv, IdleReader
    <3> QED BY <2>1, <3>1, <3>2 DEF HearLine, BotsInv, TypeOK, streams
  <2>2. CASE PublishCommand
    BY <2>2, CallbackEnds DEF PublishCommand, BotsInv, TypeOK, ReaderInv
  <2>3. CASE PublishChat
    <3>1. [from |-> "irc", id |-> reader.line] \in Event
      BY <2>3 DEF PublishChat, BotsInv, ReaderInv, Event
    <3>2. chat' \in Seq(Event)
      BY <2>3, <3>1, AppendProperties DEF PublishChat, BotsInv, TypeOK
    <3> QED BY <2>3, <3>2, CallbackEnds DEF PublishChat, BotsInv, TypeOK
  <2> QED BY <2>1, <2>2, <2>3 DEF ReaderStep
<1>2. UNCHANGED <<main, link, sender, channel, results, posts, acksLost, faults>>
  BY DEF ReaderStep, HearLine, PublishCommand, PublishChat, streams
<1> QED BY <1>1, <1>2
        DEF BotsInv, TypeOK, SenderInv, ResultInv, Begun, Saying, channel

------------------------------------------------------------------------------
(* The results.                                                            *)

\* What was answered goes from hand to hand; what is newly begun was answered.
LEMMA ResultsMove ==
  ASSUME BotsInv,
         \A c \in Commands :
           \/ results'[c] = results[c]
           \/ /\ results[c].status # "none" /\ results'[c].status # "none"
              /\ results'[c].text = results[c].text
              /\ results'[c].garbled = results[c].garbled,
         \A c \in Commands : Begun(c)' =>
           \/ Begun(c)
           \/ results[c].status # "none" /\ results[c].text \in Texts
  PROVE  ResultInv'
  BY DEF BotsInv, ResultInv

LEMMA SenderKept ==
  ASSUME BotsInv, UNCHANGED sender,
         \A c \in Commands : Begun(c) => results'[c].text = results[c].text,
         \A c \in sender.batch : results'[c].status \notin {"none", "acked"}
  PROVE  SenderInv'
  BY DEF BotsInv, SenderInv, Begun, Saying

LEMMA SenderReturns ==
  ASSUME BotsInv, NEW batch, batch \subseteq sender.batch, Returns(batch)
  PROVE  /\ sender' \in Sender /\ sender'.pc # "send" /\ sender'.batch = batch
         /\ sender'.start = 0
<1>1. sender.batch \subseteq Commands
  BY DEF BotsInv, TypeOK, Sender
<1> QED BY <1>1 DEF Returns, SenderAt, Sender

LEMMA HandOver ==
  ASSUME BotsInv, NEW c \in Commands,
         DiscordFetches(c) \/ AckWaitPasses(c) \/ Answer(c)
  PROVE  BotsInv'
<1>1. results \in [Commands -> Result]
  BY DEF BotsInv, TypeOK
<1>2. UNCHANGED <<ircBot, channel, chat, commands, posts, acksLost, faults>>
  BY DEF DiscordFetches, AckWaitPasses, Answer
<1>3. \A d \in Commands : Begun(d)' <=> Begun(d)
  BY <1>2 DEF ircBot, channel, Begun, Saying
<1>4. results' \in [Commands -> Result] /\ SenderInv' /\ ResultInv'
  <2>1. CASE DiscordFetches(c) \/ AckWaitPasses(c)
    <3>1. PICK status \in {"discord", "waiting"} :
            /\ results' = [results EXCEPT ![c].status = status]
            /\ results[c].status \in {"waiting", "irc", "discord"}
      BY <2>1 DEF DiscordFetches, AckWaitPasses
    <3>2. /\ results' \in [Commands -> Result]
          /\ results'[c].status # "none" /\ results'[c].text = results[c].text
          /\ results'[c].garbled = results[c].garbled
          /\ \A d \in Commands : d # c => results'[d] = results[d]
      BY <1>1, <3>1 DEF Result
    <3>3. ResultInv'
      BY <1>3, <3>1, <3>2, ResultsMove
    <3>4. SenderInv'
      <4>1. \A d \in sender.batch : results'[d].status \notin {"none", "acked"}
        BY <1>1, <3>1 DEF BotsInv, SenderInv, TypeOK, Sender, Result
      <4> QED BY <1>2, <3>2, <4>1, SenderKept DEF ircBot
    <3> QED BY <3>2, <3>3, <3>4
  <2>2. CASE Answer(c)
    <3>1. PICK new \in Result :
            /\ results' = [results EXCEPT ![c] = new] /\ results[c] = NoResult
            /\ new.status = "waiting" /\ (~new.garbled => new.text \in Texts)
      <4> DEFINE answer(text) == [NoResult EXCEPT !.status = "waiting", !.text = text]
                 garbled == [NoResult EXCEPT !.status = "waiting", !.garbled = TRUE]
      <4>1. /\ \A text \in Texts : /\ answer(text) \in Result
                                   /\ answer(text).status = "waiting"
                                   /\ answer(text).text = text
            /\ garbled \in Result /\ garbled.status = "waiting" /\ garbled.garbled
        BY DEF NoResult, Result
      <4>2. /\ results[c] = NoResult
            /\ \/ \E text \in Texts : results' = [results EXCEPT ![c] = answer(text)]
               \/ results' = [results EXCEPT ![c] = garbled]
        BY <2>2 DEF Answer
      <4> HIDE DEF answer, garbled
      <4> QED BY <4>1, <4>2
    <3>2. results'[c] = new /\ \A d \in Commands : d # c => results'[d] = results[d]
      BY <1>1, <3>1
    <3>3. ~Begun(c) /\ c \notin sender.batch
      BY <3>1 DEF BotsInv, SenderInv, ResultInv, NoResult
    <3>4. ResultInv'
      BY <1>3, <3>1, <3>2, <3>3 DEF BotsInv, ResultInv
    <3>5. SenderInv'
      <4>1. \A d \in sender.batch : results'[d].status \notin {"none", "acked"}
        BY <3>2, <3>3 DEF BotsInv, SenderInv, TypeOK, Sender
      <4>2. \A d \in Commands : Begun(d) => results'[d].text = results[d].text
        BY <3>2, <3>3
      <4> QED BY <1>2, <4>1, <4>2, SenderKept DEF ircBot
    <3> QED BY <1>1, <3>1, <3>4, <3>5
  <2> QED BY <2>1, <2>2
<1> QED BY <1>2, <1>4 DEF BotsInv, TypeOK, ReaderInv, ircBot, channel

------------------------------------------------------------------------------
(* The sender.                                                             *)

LEMMA FetchInv ==
  ASSUME BotsInv, FetchResults
  PROVE  BotsInv'
<1> DEFINE waiting == {c \in Commands : results[c].status = "waiting"}
<1>1. results \in [Commands -> Result]
  BY DEF BotsInv, TypeOK
<1>2. /\ sender' = [SenderAt("handle") EXCEPT !.batch = waiting]
      /\ results' = [c \in Commands |-> IF c \in waiting
                       THEN [results[c] EXCEPT !.status = "irc"] ELSE results[c]]
      /\ sender.pc = "fetch"
  BY DEF FetchResults
<1>3. /\ sender' \in Sender /\ sender'.pc = "handle"
      /\ sender'.batch = waiting /\ sender'.start = 0
  BY <1>2 DEF SenderAt, Sender
<1>4. \A c \in waiting : /\ [results[c] EXCEPT !.status = "irc"] \in Result
                         /\ results'[c] = [results[c] EXCEPT !.status = "irc"]
  BY <1>1, <1>2 DEF Result
<1>5. \A c \in Commands :
        \/ results'[c] = results[c]
        \/ /\ results[c].status # "none" /\ results'[c].status = "irc"
           /\ results'[c].text = results[c].text
           /\ results'[c].garbled = results[c].garbled
  BY <1>1, <1>2, <1>4 DEF Result
<1>6. results' \in [Commands -> Result]
  BY <1>1, <1>2, <1>4
<1>7. \A c \in waiting : results'[c].status = "irc"
  BY <1>1, <1>4 DEF Result
<1>8. SenderInv'
  <2> HIDE DEF waiting
  <2> QED BY <1>3, <1>7 DEF SenderInv
<1>9. ResultInv'
  <2>1. \A c \in Commands : Begun(c)' => Begun(c)
    BY <1>3 DEF FetchResults, Begun, Saying, channel
  <2> QED BY <1>5, <2>1, ResultsMove
<1> QED BY <1>3, <1>6, <1>8, <1>9
        DEF FetchResults, BotsInv, TypeOK, ReaderInv, channel

\* What the sender takes up next was delivered, and not garbled.
LEMMA SenderTakesUp ==
  ASSUME BotsInv, NEW c \in sender.batch, ~results[c].garbled,
         sender' = [sender EXCEPT !.pc = "send", !.answer = c,
                                  !.batch = @ \ {c}],
         sender.pc = "handle"
  PROVE  /\ c \in Commands
         /\ results[c].status \notin {"none", "acked"}
         /\ results[c].text \in Texts /\ results[c].text.len \in Nat
         /\ sender' \in Sender /\ sender'.pc = "send" /\ sender'.answer = c
         /\ sender'.batch = sender.batch \ {c} /\ sender'.start = 0
<1>1. sender \in Sender /\ c \in Commands
  BY DEF BotsInv, TypeOK, Sender
<1>2. results[c].status \notin {"none", "acked"} /\ results[c].text \in Texts
  BY <1>1 DEF BotsInv, SenderInv, ResultInv
<1>3. /\ sender' \in Sender /\ sender'.pc = "send" /\ sender'.answer = c
      /\ sender'.batch = sender.batch \ {c} /\ sender'.start = 0
  BY <1>1 DEF BotsInv, SenderInv, Sender
<1> QED BY <1>1, <1>2, <1>3, ChatBotsAssumption

LEMMA HandleInv ==
  ASSUME BotsInv, NEW c \in Commands, HandleResult(c)
  PROVE  BotsInv'
<1>1. results \in [Commands -> Result] /\ c \in sender.batch
  BY DEF BotsInv, TypeOK, HandleResult
<1>2. CASE results[c].garbled
  <2>1. Returns(sender.batch \ {c}) /\ UNCHANGED results
    BY <1>2 DEF HandleResult
  <2>2. /\ sender' \in Sender /\ sender'.pc # "send" /\ sender'.start = 0
        /\ sender'.batch \subseteq sender.batch
    BY <2>1, SenderReturns
  <2>3. SenderInv' /\ ResultInv'
    BY <2>1, <2>2 DEF HandleResult, BotsInv, SenderInv, ResultInv, Begun, Saying,
                      channel
  <2> QED BY <2>1, <2>2, <2>3
          DEF HandleResult, BotsInv, TypeOK, ReaderInv, channel
<1>3. CASE ~results[c].garbled
  <2>1. /\ results' = [results EXCEPT ![c].status = "acked"]
        /\ sender' = [sender EXCEPT !.pc = "send", !.answer = c,
                                    !.batch = @ \ {c}]
        /\ sender.pc = "handle"
    BY <1>3 DEF HandleResult
  <2>2. /\ results[c].status \notin {"none", "acked"}
        /\ results[c].text \in Texts /\ results[c].text.len \in Nat
        /\ sender' \in Sender /\ sender'.pc = "send" /\ sender'.answer = c
        /\ sender'.batch = sender.batch \ {c} /\ sender'.start = 0
    BY <1>1, <1>3, <2>1, SenderTakesUp
  <2>3. /\ results' \in [Commands -> Result]
        /\ results'[c].status = "acked" /\ results'[c].text = results[c].text
        /\ results'[c].garbled = results[c].garbled
        /\ \A d \in Commands \ {c} : results'[d] = results[d]
    BY <1>1, <2>1 DEF Result
  <2>4. ResultInv'
    <3>1. \A d \in Commands : Begun(d)' => Begun(d) \/ d = c
      BY <2>2 DEF HandleResult, Begun, Saying, channel
    <3> QED BY <2>2, <2>3, <3>1, ResultsMove
  <2>5. SenderInv'
    <3>1. sender.batch \subseteq Commands
      BY DEF BotsInv, TypeOK, Sender
    <3> QED BY <2>2, <2>3, <3>1 DEF BotsInv, SenderInv
  <2> QED BY <2>2, <2>3, <2>4, <2>5
          DEF HandleResult, BotsInv, TypeOK, ReaderInv, channel
<1> QED BY <1>2, <1>3

LEMMA SendInv ==
  ASSUME BotsInv, SendPart
  PROVE  BotsInv'
<1> DEFINE c == sender.answer
           text == results[c].text
           end == EndOfPart(text, sender.start)
           next == StartAfter(text, end)
<1>1. /\ c \in Commands /\ Begun(c) /\ text \in Texts /\ text.len \in Nat
      /\ sender.start \in Nat /\ sender.start <= text.len
  BY ChatBotsAssumption
     DEF SendPart, BotsInv, TypeOK, SenderInv, ResultInv, Begun, Saying, Sender
<1>2. end \in Nat /\ next \in Nat
  BY <1>1, PartBounds
<1>3. /\ \/ UNCHANGED said
         \/ said' = [said EXCEPT ![c] = Append(@, [from |-> sender.start, to |-> end])]
      /\ \/ next < text.len /\ sender' = [sender EXCEPT !.start = next]
         \/ Returns(sender.batch)
      /\ sender.pc = "send"
  BY DEF SendPart
<1> HIDE DEF end, next
<1>4. said' \in [Commands -> Seq(Part)]
  <2>1. said \in [Commands -> Seq(Part)]
        /\ [from |-> sender.start, to |-> end] \in Part
    BY <1>1, <1>2 DEF BotsInv, TypeOK, Part
  <2>2. Append(said[c], [from |-> sender.start, to |-> end]) \in Seq(Part)
    BY <1>1, <2>1, AppendProperties
  <2> QED BY <1>3, <2>1, <2>2
<1>5. /\ sender' \in Sender /\ sender'.batch \subseteq sender.batch
      /\ \/ /\ sender'.pc = "send" /\ sender'.answer = c
            /\ sender'.start <= text.len
         \/ sender'.pc # "send" /\ sender'.start = 0
  <2>1. CASE next < text.len /\ sender' = [sender EXCEPT !.start = next]
    <3>1. /\ sender \in Sender /\ sender' = [sender EXCEPT !.start = next]
          /\ sender.pc = "send"
      BY <1>3, <2>1 DEF BotsInv, TypeOK
    <3>2. /\ sender' \in Sender /\ sender'.batch = sender.batch
          /\ sender'.pc = "send" /\ sender'.answer = c /\ sender'.start = next
      BY <1>2, <3>1 DEF Sender
    <3> QED BY <1>1, <1>2, <2>1, <3>2
  <2>2. CASE Returns(sender.batch)
    BY <2>2, SenderReturns
  <2> QED BY <1>3, <2>1, <2>2
<1>6. UNCHANGED <<main, link, inbox, reader, spoken, streams, posts, acksLost,
                  faults>>
  BY DEF SendPart
<1>7. \A d \in Commands : Begun(d)' => Begun(d)
  <2>1. said \in [Commands -> Seq(Part)]
    BY DEF BotsInv, TypeOK
  <2> QED BY <1>1, <1>3, <1>5, <2>1 DEF Begun, Saying
<1>8. ResultInv' /\ SenderInv'
  BY <1>1, <1>5, <1>6, <1>7 DEF BotsInv, SenderInv, ResultInv, streams
<1> QED BY <1>4, <1>5, <1>6, <1>8 DEF BotsInv, TypeOK, ReaderInv, streams

------------------------------------------------------------------------------
(* What else happens.                                                      *)

LEMMA DiscordInv ==
  ASSUME BotsInv, NEW p \in Posts, DiscordHears(p) \/ DiscordPublishes(p)
  PROVE  BotsInv'
<1>1. [from |-> "discord", id |-> p] \in Event
  BY DEF Event
<1>2. chat' \in Seq(Event) /\ posts' \in [Posts -> {"none", "heard", "done"}]
  <2>1. CASE DiscordHears(p)
    BY <2>1 DEF DiscordHears, BotsInv, TypeOK, streams
  <2>2. CASE DiscordPublishes(p)
    <3>1. chat \in Seq(Event) /\ posts \in [Posts -> {"none", "heard", "done"}]
      BY DEF BotsInv, TypeOK
    <3>2. chat' = Append(chat, [from |-> "discord", id |-> p])
          /\ posts' = [posts EXCEPT ![p] = "done"]
      BY <2>2 DEF DiscordPublishes
    <3>3. chat' \in Seq(Event)
      BY <1>1, <3>1, <3>2, AppendProperties
    <3> QED BY <3>1, <3>2, <3>3
  <2> QED BY <2>1, <2>2
<1> QED BY <1>2
        DEF DiscordHears, DiscordPublishes, BotsInv, TypeOK, ReaderInv,
            SenderInv, ResultInv, Begun, Saying, ircBot, channel, streams

LEMMA FaultInv ==
  ASSUME BotsInv, FaultStep
  PROVE  BotsInv'
<1>1. faults' \in 0..MaxFaults
  <2>1. Fault
    BY DEF FaultStep, IRCBotRestarts, Disconnect, PublishFails, AckFails
  <2> QED BY <2>1, ChatBotsAssumption DEF Fault, BotsInv, TypeOK
<1>2. CASE IRCBotRestarts
  <2>1. inbox' \in Seq(Lines)
    BY <1>2, EmptySeq DEF IRCBotRestarts
  <2>2. SenderInv' /\ ResultInv' /\ ReaderInv'
    BY <1>2 DEF IRCBotRestarts, BotsInv, ReaderInv, SenderInv, ResultInv, Begun,
                Saying, SenderAt, IdleReader, channel, streams
  <2> QED BY <1>1, <1>2, <2>1, <2>2, BlankTypes
          DEF IRCBotRestarts, BotsInv, TypeOK, Links, channel, streams
<1>3. CASE Disconnect
  <2>1. inbox' \in Seq(Lines)
    BY <1>3, EmptySeq DEF Disconnect
  <2> QED BY <1>1, <1>3, <2>1
          DEF Disconnect, BotsInv, TypeOK, Links, ReaderInv, SenderInv,
              ResultInv, Begun, Saying, channel, streams
<1>4. CASE PublishFails
  <2>1. /\ reader' \in Reader /\ ReaderInv'
        /\ posts' \in [Posts -> {"none", "heard", "done"}]
    <3>1. CASE reader.pc # "idle" /\ NextCallback /\ UNCHANGED posts
      BY <3>1, CallbackEnds DEF BotsInv, TypeOK
    <3>2. CASE UNCHANGED reader
      BY <1>4, <3>2 DEF PublishFails, BotsInv, TypeOK, ReaderInv
    <3> QED BY <1>4, <3>1, <3>2 DEF PublishFails
  <2> QED BY <1>1, <1>4, <2>1
          DEF PublishFails, BotsInv, TypeOK, SenderInv, ResultInv, Begun, Saying,
              channel, streams
<1>5. ASSUME NEW c \in Commands, AckFails(c)
      PROVE  BotsInv'
  <2>1. /\ sender' \in Sender /\ SenderInv'
        /\ \A d \in Commands : Begun(d)' =>
             \/ Begun(d)
             \/ results[d].status # "none" /\ results[d].text \in Texts
    <3>1. UNCHANGED <<said, results>>
      BY <1>5 DEF AckFails, channel, streams
    <3>2. CASE Returns(sender.batch \ {c})
      <4>1. /\ sender' \in Sender /\ sender'.pc # "send" /\ sender'.start = 0
            /\ sender'.batch \subseteq sender.batch
        BY <3>2, SenderReturns
      <4> QED BY <3>1, <4>1 DEF BotsInv, SenderInv, Begun, Saying
    <3>3. CASE sender' = [sender EXCEPT !.pc = "send", !.answer = c,
                                        !.batch = @ \ {c}]
      <4>1. /\ results[c].status \notin {"none", "acked"}
            /\ results[c].text \in Texts /\ results[c].text.len \in Nat
            /\ sender' \in Sender /\ sender'.pc = "send" /\ sender'.answer = c
            /\ sender'.batch = sender.batch \ {c} /\ sender'.start = 0
        BY <1>5, <3>3, SenderTakesUp DEF AckFails
      <4> QED BY <3>1, <4>1 DEF BotsInv, SenderInv, Begun, Saying
    <3> QED BY <1>5, <3>2, <3>3 DEF AckFails
  <2>2. ResultInv'
    BY <1>5, <2>1, ResultsMove DEF AckFails, streams
  <2> QED BY <1>1, <1>5, <2>1, <2>2
          DEF AckFails, BotsInv, TypeOK, ReaderInv, channel, streams
<1> QED BY <1>2, <1>3, <1>4, <1>5 DEF FaultStep

LEMMA BotsStep ==
  ASSUME BotsInv, [Next]_vars
  PROVE  BotsInv'
<1>1. CASE UNCHANGED vars
  BY <1>1 DEF vars, ircBot, channel, streams, BotsInv, TypeOK, ReaderInv,
     SenderInv, ResultInv, Begun, Saying
<1> QED BY <1>1, MainInv, ReaderStepInv, FetchInv, HandleInv, SendInv, HandOver,
           DiscordInv, FaultInv DEF Next, SenderStep

LEMMA BotsInvariant == Spec => []BotsInv
  BY BotsInit, BotsStep, PTL DEF Spec

\* The bots, the channel and the streams hold values of their types, for any
\* number of lines and commands, all texts and any number of faults.
THEOREM ChatBotsTypeCorrect == Spec => []TypeOK
<1>1. BotsInv => TypeOK
  BY DEF BotsInv
<1> QED BY <1>1, BotsInvariant, PTL

------------------------------------------------------------------------------
(* What is said.                                                           *)

\* The text of what is begun stays, and an acknowledgement is for good.
LEMMA ResultsStep ==
  ASSUME BotsInv, [Next]_vars, NEW c \in Commands
  PROVE  /\ Begun(c) => results'[c].text = results[c].text
         /\ results[c].status = "acked" => results'[c].status = "acked"
<1>1. results \in [Commands -> Result]
  BY DEF BotsInv, TypeOK
<1>2. CASE UNCHANGED results
  BY <1>2
<1>3. CASE FetchResults
  BY <1>1, <1>3 DEF FetchResults, Result
<1>4. ASSUME NEW d \in Commands,
             HandleResult(d) \/ DiscordFetches(d) \/ AckWaitPasses(d)
      PROVE  /\ results'[c].text = results[c].text
             /\ results[c].status = "acked" => results'[c].status = "acked"
  BY <1>1, <1>4 DEF HandleResult, DiscordFetches, AckWaitPasses, Result
<1>5. ASSUME NEW d \in Commands, Answer(d)
      PROVE  /\ Begun(c) => results'[c].text = results[c].text
             /\ results[c].status = "acked" => results'[c].status = "acked"
  <2>1. ~Begun(d) /\ results[d].status # "acked"
    <3>1. results[d].status = "none"
      <4>1. results[d] = NoResult
        BY <1>5 DEF Answer
      <4> QED BY <4>1 DEF NoResult
    <3> QED BY <3>1 DEF BotsInv, ResultInv
  <2>2. c # d => results'[c] = results[c]
    BY <1>1, <1>5 DEF Answer
  <2> QED BY <2>1, <2>2
<1> QED BY <1>2, <1>3, <1>4, <1>5
        DEF Next, vars, MainStep, Connect, SubscribeResults, Listen, Reconnect,
            JoinChannels, ReaderStep, HearLine, PublishCommand, PublishChat,
            SenderStep, SendPart, DiscordHears, DiscordPublishes, Speak,
            FaultStep, IRCBotRestarts, Disconnect, PublishFails, AckFails,
            streams

\* What one step does to the sender and to the channel.
LEMMA SaidStep ==
  ASSUME BotsInv, [Next]_vars
  PROVE  \/ SendPart
         \/ /\ UNCHANGED said
            /\ \E c \in Commands : HandleResult(c) \/ AckFails(c)
         \/ /\ UNCHANGED <<said, acksLost>>
            /\ sender' = sender \/ sender'.pc # "send"
<1>1. CASE FetchResults \/ SubscribeResults \/ IRCBotRestarts
  BY <1>1 DEF FetchResults, SubscribeResults, IRCBotRestarts, SenderAt, channel
<1> QED BY <1>1
        DEF Next, vars, ircBot, MainStep, Connect, Listen, Reconnect,
            JoinChannels, ReaderStep, HearLine, PublishCommand, PublishChat,
            SenderStep, HandleResult, DiscordFetches, DiscordHears,
            DiscordPublishes, Speak, Answer, AckWaitPasses, FaultStep,
            Disconnect, PublishFails, AckFails, channel

\* The part that is said, if one is.
LEMMA PartSaid ==
  ASSUME BotsInv, SendPart,
         NEW c, c = sender.answer,
         NEW part,
         part = [from |-> sender.start,
                 to   |-> EndOfPart(results[c].text, sender.start)]
  PROVE  /\ c \in Commands /\ part \in Part
         /\ Saying(c) /\ Begun(c)
         /\ UNCHANGED <<results, acksLost>>
         /\ said' = said \/ said' = [said EXCEPT ![c] = Append(@, part)]
         /\ part.from = sender.start /\ part.from <= part.to
         /\ part.to - part.from <= MaxLength
         /\ \/ part.to \in results[c].text.spaces \union {results[c].text.len}
            \/ /\ part.to - part.from = MaxLength
               /\ results[c].text.spaces \intersect part.from..part.to = {}
         /\ \/ /\ Saying(c)' /\ sender'.start \in Nat
               /\ part.to <= sender'.start
            \/ sender'.pc # "send"
<1> DEFINE text == results[c].text
           end == EndOfPart(text, sender.start)
<1>1. /\ c \in Commands /\ Saying(c) /\ Begun(c) /\ text \in Texts
      /\ sender.start \in Nat /\ sender.start <= text.len
      /\ sender \in Sender
  BY DEF SendPart, BotsInv, TypeOK, SenderInv, ResultInv, Begun, Saying, Sender
<1>2. /\ end \in Nat /\ sender.start <= end /\ end - sender.start <= MaxLength
      /\ \/ end \in text.spaces \union {text.len}
         \/ /\ end - sender.start = MaxLength
            /\ text.spaces \intersect sender.start..end = {}
      /\ StartAfter(text, end) \in Nat /\ end <= StartAfter(text, end)
  BY <1>1, PartBounds
<1>3. /\ said' = said \/ said' = [said EXCEPT ![c] = Append(@, part)]
      /\ UNCHANGED <<results, acksLost>>
      /\ \/ sender' = [sender EXCEPT !.start = StartAfter(text, end)]
         \/ Returns(sender.batch)
  BY DEF SendPart, streams
<1> HIDE DEF end
<1>4. part \in Part /\ part.from = sender.start /\ part.to = end
  BY <1>1, <1>2 DEF Part, end
<1>5. \/ Saying(c)' /\ sender'.start \in Nat /\ part.to <= sender'.start
      \/ sender'.pc # "send"
  <2>1. CASE sender' = [sender EXCEPT !.start = StartAfter(text, end)]
    <3>1. sender'.start = StartAfter(text, end) /\ sender'.pc = "send"
          /\ sender'.answer = c
      BY <1>1, <2>1 DEF Sender, Saying
    <3> QED BY <1>2, <1>4, <3>1 DEF Saying
  <2>2. CASE Returns(sender.batch)
    BY <2>2, SenderReturns
  <2> QED BY <1>3, <2>1, <2>2
<1>6. /\ part.from <= part.to /\ part.to - part.from <= MaxLength
      /\ \/ part.to \in text.spaces \union {text.len}
         \/ /\ part.to - part.from = MaxLength
            /\ text.spaces \intersect part.from..part.to = {}
  BY <1>2, <1>4
<1> QED BY <1>1, <1>3, <1>4, <1>5, <1>6

(* Unless an acknowledgement was lost, what is begun is acknowledged, and  *)
(* what is being said goes on where the last part ended.                   *)
InOrder(c) ==
    \A i, j \in DOMAIN said[c] : i < j => said[c][i].to <= said[c][j].from

OnceInv ==
    ~acksLost => \A c \in Commands :
        /\ Begun(c) => results[c].status = "acked"
        /\ InOrder(c)
        /\ Saying(c) => \A i \in DOMAIN said[c] : said[c][i].to <= sender.start

LEMMA SaidAppend ==
  ASSUME BotsInv, NEW c \in Commands, NEW part \in Part,
         said' = [said EXCEPT ![c] = Append(@, part)]
  PROVE  /\ \A d \in Commands \ {c} : said'[d] = said[d]
         /\ said'[c] = Append(said[c], part)
         /\ said[c] \in Seq(Part) /\ said'[c] \in Seq(Part)
         /\ DOMAIN said[c] = 1..Len(said[c])
         /\ DOMAIN said'[c] = 1..(Len(said[c]) + 1)
         /\ \A i \in DOMAIN said[c] : said'[c][i] = said[c][i]
         /\ said'[c][Len(said[c]) + 1] = part
         /\ \A i \in DOMAIN said[c] : said[c][i] \in Part
<1>1. said \in [Commands -> Seq(Part)] /\ said[c] \in Seq(Part)
  BY DEF BotsInv, TypeOK
<1>2. said'[c] = Append(said[c], part) /\ \A d \in Commands \ {c} : said'[d] = said[d]
  BY <1>1
<1>3. /\ said'[c] \in Seq(Part) /\ Len(said'[c]) = Len(said[c]) + 1
      /\ \A i \in 1..Len(said[c]) : said'[c][i] = said[c][i]
      /\ said'[c][Len(said[c]) + 1] = part
  BY <1>1, <1>2, AppendProperties
<1>4. DOMAIN said[c] = 1..Len(said[c]) /\ DOMAIN said'[c] = 1..Len(said'[c])
  BY <1>1, <1>3, LenProperties
<1>5. \A i \in DOMAIN said[c] : said[c][i] \in Part
  BY <1>1, <1>4, ElementOfSeq
<1> QED BY <1>1, <1>2, <1>3, <1>4, <1>5

LEMMA OnceStep ==
  ASSUME BotsInv, OnceInv, [Next]_vars, ~acksLost'
  PROVE  OnceInv'
<1>1. \A c \in Commands :
        results[c].status = "acked" => results'[c].status = "acked"
  BY ResultsStep
<1>2. CASE SendPart
  <2> PICK c : c = sender.answer
    OBVIOUS
  <2> PICK part : part = [from |-> sender.start,
                          to   |-> EndOfPart(results[c].text, sender.start)]
    OBVIOUS
  <2>1. /\ c \in Commands /\ part \in Part /\ Saying(c) /\ Begun(c)
        /\ UNCHANGED <<results, acksLost>>
        /\ said' = said \/ said' = [said EXCEPT ![c] = Append(@, part)]
        /\ part.from = sender.start /\ part.from <= part.to
        /\ \/ /\ Saying(c)' /\ sender'.start \in Nat
              /\ part.to <= sender'.start
           \/ sender'.pc # "send"
    BY <1>2, PartSaid
  <2>2. ~acksLost /\ results[c].status = "acked"
        /\ \A i \in DOMAIN said[c] : said[c][i].to <= part.from
    BY <2>1 DEF OnceInv
  <2>3. ASSUME NEW d \in Commands, d # c
        PROVE  /\ Begun(d)' => results'[d].status = "acked"
               /\ InOrder(d)'
               /\ Saying(d)' => FALSE
    <3>1. said'[d] = said[d]
      BY <2>1, <2>3, SaidAppend
    <3>2. ~Saying(d) /\ ~Saying(d)'
      BY <2>1, <2>3 DEF Saying
    <3> QED BY <2>1, <2>2, <3>1, <3>2 DEF OnceInv, Begun, InOrder
  <2>4. /\ InOrder(c)'
        /\ Saying(c)' => \A i \in DOMAIN said'[c] : said'[c][i].to <= sender'.start
    <3>1. CASE said' = said
      <4>1. \A i \in DOMAIN said[c] : said[c][i].to \in Nat
        <5>1. said[c] \in Seq(Part)
          BY <2>1 DEF BotsInv, TypeOK
        <5>2. DOMAIN said[c] = 1..Len(said[c])
          BY <5>1, LenProperties
        <5>3. \A i \in DOMAIN said[c] : said[c][i] \in Part
          BY <5>1, <5>2, ElementOfSeq
        <5> QED BY <5>3 DEF Part
      <4>2. InOrder(c)'
        BY <2>1, <2>2, <3>1 DEF OnceInv, InOrder
      <4>3. part.from \in Nat /\ part.to \in Nat
        BY <2>1 DEF Part
      <4>4. Saying(c)' => part.from <= sender'.start /\ sender'.start \in Nat
        BY <2>1, <4>3 DEF Saying
      <4> QED BY <2>2, <3>1, <4>1, <4>2, <4>3, <4>4
    <3>2. CASE said' = [said EXCEPT ![c] = Append(@, part)]
      <4>1. /\ DOMAIN said[c] = 1..Len(said[c]) /\ Len(said[c]) \in Nat
            /\ DOMAIN said'[c] = 1..(Len(said[c]) + 1)
            /\ \A i \in DOMAIN said[c] : said'[c][i] = said[c][i]
            /\ said'[c][Len(said[c]) + 1] = part
            /\ \A i \in DOMAIN said[c] : said[c][i].to \in Nat
            /\ part.from \in Nat /\ part.to \in Nat
        <5>1. /\ DOMAIN said[c] = 1..Len(said[c]) /\ said[c] \in Seq(Part)
              /\ DOMAIN said'[c] = 1..(Len(said[c]) + 1)
              /\ \A i \in DOMAIN said[c] : said'[c][i] = said[c][i]
              /\ said'[c][Len(said[c]) + 1] = part
              /\ \A i \in DOMAIN said[c] : said[c][i] \in Part
          BY <2>1, <3>2, SaidAppend
        <5>2. Len(said[c]) \in Nat
          BY <5>1, LenProperties
        <5> QED BY <2>1, <5>1, <5>2 DEF Part
      <4>2. InOrder(c)
        BY <2>1, <2>2 DEF OnceInv
      <4>3. InOrder(c)'
        <5>1. ASSUME NEW i \in DOMAIN said'[c], NEW j \in DOMAIN said'[c], i < j
              PROVE  said'[c][i].to <= said'[c][j].from
          <6>1. i \in DOMAIN said[c] /\ said'[c][i] = said[c][i]
            BY <4>1, <5>1
          <6>2. CASE j \in DOMAIN said[c]
            BY <4>1, <4>2, <5>1, <6>1, <6>2 DEF InOrder
          <6>3. CASE j = Len(said[c]) + 1
            BY <2>2, <4>1, <6>1, <6>3
          <6> QED BY <4>1, <5>1, <6>2, <6>3
        <5> QED BY <5>1 DEF InOrder
      <4>4. \A i \in DOMAIN said'[c] : said'[c][i].to <= part.to
        BY <2>1, <2>2, <4>1
      <4>5. \A i \in DOMAIN said'[c] : said'[c][i].to \in Nat
        BY <4>1
      <4> QED BY <2>1, <4>1, <4>3, <4>4, <4>5 DEF Saying
    <3> QED BY <2>1, <3>1, <3>2
  <2> QED BY <2>1, <2>2, <2>3, <2>4 DEF OnceInv
<1>3. ASSUME NEW c \in Commands, UNCHANGED said,
             HandleResult(c) \/ AckFails(c)
      PROVE  OnceInv'
  <2>1. ~acksLost
    BY <1>3 DEF HandleResult, AckFails
  <2>2. c \in sender.batch /\ results[c].status # "acked" /\ sender.pc = "handle"
    BY <1>3 DEF HandleResult, AckFails, BotsInv, SenderInv
  <2>3. said[c] = <<>> /\ \A d \in Commands : ~Saying(d)
    BY <2>1, <2>2 DEF OnceInv, Begun, Saying
  <2>4. \A d \in Commands : Saying(d)' => d = c /\ results'[c].status = "acked"
    <3>1. CASE Returns(sender.batch \ {c})
      BY <3>1, SenderReturns DEF Saying
    <3>2. CASE HandleResult(c) /\ ~results[c].garbled
      <4>1. sender'.answer = c
        BY <2>2, <3>2, SenderTakesUp DEF HandleResult
      <4>2. results \in [Commands -> Result]
        BY DEF BotsInv, TypeOK
      <4> QED BY <3>2, <4>1, <4>2 DEF HandleResult, Saying, Result
    <3> QED BY <1>3, <2>1, <3>1, <3>2, Zenon DEF HandleResult, AckFails
  <2> QED BY <1>1, <1>3, <2>1, <2>3, <2>4 DEF OnceInv, Begun, InOrder
<1>4. CASE /\ UNCHANGED <<said, acksLost>>
           /\ sender' = sender \/ sender'.pc # "send"
  BY <1>1, <1>4 DEF OnceInv, Begun, Saying, InOrder
<1> QED BY <1>2, <1>3, <1>4, SaidStep

LEMMA OnceInvariant == Spec => [](BotsInv /\ OnceInv)
<1>1. Init => OnceInv
  BY DEF Init, OnceInv, Begun, Saying, SenderAt, InOrder
<1>2. BotsInv /\ OnceInv /\ [Next]_vars => OnceInv'
  BY OnceStep DEF OnceInv
<1> QED BY <1>1, <1>2, BotsInit, BotsStep, PTL DEF Spec

\* While no acknowledgement is lost, no part of an answer is said twice or out
\* of order, whoever crashes and whatever is delivered again.
THEOREM AnswersAreSaidOnce == Spec => []AnsweredOnce
<1>1. BotsInv /\ OnceInv => AnsweredOnce
  BY DEF OnceInv, AnsweredOnce, InOrder
<1> QED BY <1>1, OnceInvariant, PTL

------------------------------------------------------------------------------
(* Nothing is left out.  Until something fails the bot hears of a command   *)
(* only in the channel, so that it has joined the channel before there is   *)
(* anything to say.  What it is saying goes on after the last part, and     *)
(* what it said and is not saying was acknowledged: it will not be fetched  *)
(* again, and it was said to the end.                                       *)

JoinedFirst ==
    /\ main = "start" => link = "down"
    /\ link # "joined" => /\ inbox = <<>> /\ reader.pc = "idle" /\ commands = {}
                          /\ \A c \in Commands : results[c].status = "none"

OnTrack(c) ==
    /\ Whole(c)
    /\ Saying(c) => IF said[c] = <<>> THEN sender.start = 0
                    ELSE Follows(results[c].text, said[c][Len(said[c])].to, sender.start)

WholeInv == faults = 0 => /\ JoinedFirst /\ ~acksLost
                          /\ \A c \in Commands : OnTrack(c)

LEMMA WholeInit == Init => WholeInv
  BY DEF Init, WholeInv, JoinedFirst, OnTrack, Whole, Saying, SenderAt, IdleReader, NoResult

\* A command is only heard in the channel, and only answered if it was heard.
LEMMA JoinedStep ==
  ASSUME BotsInv, JoinedFirst, [Next]_vars, ~FaultStep
  PROVE  JoinedFirst'
<1>1. CASE MainStep
  <2>1. UNCHANGED <<inbox, reader, commands, results>>
    BY <1>1 DEF MainStep, Connect, SubscribeResults, Listen, Reconnect, JoinChannels, streams
  <2>2. /\ main' = "start" => main = "start" /\ link' = link
        /\ link' # "joined" => link # "joined"
    BY <1>1 DEF MainStep, Connect, SubscribeResults, Listen, Reconnect, JoinChannels,
                JoinedFirst
  <2> QED BY <2>1, <2>2 DEF JoinedFirst
<1>2. CASE ReaderStep
  BY <1>2 DEF ReaderStep, HearLine, PublishCommand, PublishChat, channel, streams, JoinedFirst
<1>3. CASE SendPart
  BY <1>3 DEF SendPart, streams, JoinedFirst
<1>4. ASSUME NEW c \in Commands,
             HandleResult(c) \/ DiscordFetches(c) \/ AckWaitPasses(c) \/ FetchResults
      PROVE  JoinedFirst'
  <2>1. UNCHANGED <<main, link, inbox, reader, commands>>
    BY <1>4 DEF HandleResult, DiscordFetches, AckWaitPasses, FetchResults, ircBot
  <2>2. CASE link = "joined"
    BY <2>1, <2>2 DEF JoinedFirst
  <2>3. CASE link # "joined"
    <3>1. \A d \in Commands : results[d].status = "none"
      BY <2>3 DEF JoinedFirst
    <3>2. sender.batch \subseteq Commands /\ \A d \in sender.batch : results[d].status # "none"
      BY DEF BotsInv, TypeOK, Sender, SenderInv
    <3>3. FALSE
      BY <1>4, <3>1, <3>2
         DEF HandleResult, DiscordFetches, AckWaitPasses, FetchResults
    <3> QED BY <3>3
  <2> QED BY <2>2, <2>3
<1>5. ASSUME NEW c \in Commands, Answer(c)
      PROVE  JoinedFirst'
  BY <1>5 DEF Answer, ircBot, JoinedFirst
<1>6. CASE Speak
  BY <1>6 DEF Speak, streams, JoinedFirst
<1>7. ASSUME NEW p \in Posts, DiscordHears(p) \/ DiscordPublishes(p)
      PROVE  JoinedFirst'
  BY <1>7 DEF DiscordHears, DiscordPublishes, ircBot, streams, JoinedFirst
<1>8. CASE UNCHANGED vars
  BY <1>8 DEF vars, ircBot, streams, JoinedFirst
<1>9. CASE FetchResults
  <2>1. PICK c \in Commands : results[c].status = "waiting"
    BY <1>9 DEF FetchResults
  <2> QED BY <1>4, <1>9
<1> QED BY <1>1, <1>2, <1>3, <1>4, <1>5, <1>6, <1>7, <1>8, <1>9 DEF Next, SenderStep

\* What the sender says with the channel joined, and where it goes on.
LEMMA PartFollows ==
  ASSUME BotsInv, SendPart, link = "joined",
         NEW c, c = sender.answer,
         NEW part,
         part = [from |-> sender.start,
                 to   |-> EndOfPart(results[c].text, sender.start)]
  PROVE  /\ said' = [said EXCEPT ![c] = Append(@, part)]
         /\ \/ Saying(c)' /\ Follows(results[c].text, part.to, sender'.start)
            \/ sender'.pc # "send" /\ Follows(results[c].text, part.to, results[c].text.len)
<1> DEFINE text == results[c].text
           end == EndOfPart(text, sender.start)
           next == StartAfter(text, end)
<1>1. /\ c \in Commands /\ text \in Texts /\ text.len \in Nat
      /\ text.spaces \subseteq 0..(text.len - 1)
      /\ sender.start \in Nat /\ sender.start <= text.len /\ sender \in Sender
      /\ sender.pc = "send"
  BY ChatBotsAssumption
     DEF SendPart, BotsInv, TypeOK, SenderInv, ResultInv, Begun, Saying, Sender
<1>2. end \in Nat /\ end <= text.len /\ next \in Nat
  BY <1>1, PartBounds
<1>3. Follows(text, end, next)
  BY <1>2 DEF Follows, StartAfter
<1>4. /\ said' = [said EXCEPT ![c] = Append(@, part)]
      /\ IF next < text.len THEN sender' = [sender EXCEPT !.start = next]
         ELSE Returns(sender.batch)
  BY DEF SendPart
<1> HIDE DEF end, next
<1>5. part.to = end
  BY DEF end
<1>6. CASE next < text.len
  BY <1>1, <1>3, <1>4, <1>5, <1>6 DEF Saying, Sender
<1>7. CASE next >= text.len
  <2>1. sender'.pc # "send"
    BY <1>1, <1>2, <1>4, <1>7, SenderReturns
  <2>2. end = text.len \/ (text.len = end + 1 /\ end \in text.spaces)
    <3>1. next = end \/ (next = end + 1 /\ end \in text.spaces)
      BY <1>3 DEF Follows
    <3> QED BY <1>1, <1>2, <1>7, <3>1
  <2> QED BY <1>4, <1>5, <2>1, <2>2 DEF Follows
<1> QED BY <1>1, <1>2, <1>6, <1>7

LEMMA WholeSend ==
  ASSUME BotsInv, OnceInv, WholeInv, faults = 0, SendPart, NEW d \in Commands
  PROVE  OnTrack(d)'
<1> PICK c : c = sender.answer
  OBVIOUS
<1> PICK part : part = [from |-> sender.start,
                        to   |-> EndOfPart(results[c].text, sender.start)]
  OBVIOUS
<1>1. /\ c \in Commands /\ part \in Part /\ Saying(c) /\ Begun(c) /\ UNCHANGED results
      /\ part.from = sender.start
  BY PartSaid
<1>2. link = "joined"
  BY <1>1 DEF WholeInv, JoinedFirst, BotsInv, ResultInv
<1>3. /\ said' = [said EXCEPT ![c] = Append(@, part)]
      /\ \/ Saying(c)' /\ Follows(results[c].text, part.to, sender'.start)
         \/ sender'.pc # "send" /\ Follows(results[c].text, part.to, results[c].text.len)
  BY <1>2, PartFollows
<1>4. CASE d # c
  <2>1. ~Saying(d) /\ ~Saying(d)' /\ said'[d] = said[d]
    BY <1>1, <1>3, <1>4, SaidAppend DEF Saying
  <2> QED BY <1>1, <2>1 DEF WholeInv, OnTrack, Whole
<1>5. CASE d = c
  <2> DEFINE n == Len(said[c])
  <2>1. /\ n \in Nat /\ said[c] \in Seq(Part) /\ said'[c] \in Seq(Part)
        /\ DOMAIN said[c] = 1..n /\ DOMAIN said'[c] = 1..(n + 1)
        /\ \A i \in 1..n : said'[c][i] = said[c][i]
        /\ said'[c][n + 1] = part
    <3>1. /\ said[c] \in Seq(Part) /\ said'[c] \in Seq(Part)
          /\ DOMAIN said[c] = 1..n /\ DOMAIN said'[c] = 1..(n + 1)
          /\ \A i \in DOMAIN said[c] : said'[c][i] = said[c][i]
          /\ said'[c][n + 1] = part
      BY <1>1, <1>3, SaidAppend
    <3> QED BY <3>1, LenProperties
  <2>2. Len(said'[c]) = n + 1 /\ said'[c] # <<>>
    BY <2>1, LenProperties
  <2>3. IF said[c] = <<>> THEN sender.start = 0
        ELSE Follows(results[c].text, said[c][n].to, sender.start)
    BY <1>1 DEF WholeInv, OnTrack
  <2>4. said[c] = <<>> <=> n = 0
    BY <2>1, LenProperties, EmptySeq
  <2> HIDE DEF n
  <2>5. said'[c][1].from = 0
    <3>1. CASE n = 0
      BY <1>1, <2>1, <2>3, <2>4, <3>1
    <3>2. CASE n # 0
      BY <1>1, <2>1, <2>4, <3>2 DEF WholeInv, OnTrack, Whole
    <3> QED BY <3>1, <3>2
  <2>6. ASSUME NEW i \in 2..(n + 1)
        PROVE  Follows(results[c].text, said'[c][i - 1].to, said'[c][i].from)
    <3>1. CASE i = n + 1
      <4>1. i - 1 = n /\ n \in 1..n
        BY <2>1, <3>1
      <4> QED BY <1>1, <2>1, <2>3, <2>4, <3>1, <4>1
    <3>2. CASE i # n + 1
      <4>1. i \in 2..n /\ i - 1 \in 1..n /\ i \in 1..n /\ said[c] # <<>>
        BY <2>1, <2>4, <3>2
      <4>2. Follows(results[c].text, said[c][i - 1].to, said[c][i].from)
        BY <1>1, <4>1 DEF WholeInv, OnTrack, Whole, n
      <4> QED BY <2>1, <4>1, <4>2
    <3> QED BY <3>1, <3>2
  <2>7. ~Saying(c)' => Follows(results[c].text, said'[c][n + 1].to, results[c].text.len)
    BY <1>3, <2>1
  <2>8. Saying(c)' => Follows(results[c].text, said'[c][n + 1].to, sender'.start)
    BY <1>3, <2>1 DEF Saying
  <2> QED BY <1>1, <1>5, <2>2, <2>5, <2>6, <2>7, <2>8 DEF OnTrack, Whole
<1> QED BY <1>4, <1>5

LEMMA FaultFree ==
  ASSUME [Next]_vars, ~FaultStep
  PROVE  UNCHANGED <<faults, acksLost>>
<1>1. CASE MainStep
  BY <1>1 DEF MainStep, Connect, SubscribeResults, Listen, Reconnect, JoinChannels
<1>2. CASE ReaderStep
  BY <1>2 DEF ReaderStep, HearLine, PublishCommand, PublishChat
<1>3. CASE SenderStep
  BY <1>3 DEF SenderStep, FetchResults, HandleResult, SendPart
<1>4. CASE Speak \/ UNCHANGED vars
  BY <1>4 DEF Speak, vars
<1>5. CASE \E c \in Commands : DiscordFetches(c) \/ Answer(c) \/ AckWaitPasses(c)
  BY <1>5 DEF DiscordFetches, Answer, AckWaitPasses
<1>6. CASE \E p \in Posts : DiscordHears(p) \/ DiscordPublishes(p)
  BY <1>6 DEF DiscordHears, DiscordPublishes
<1> QED BY <1>1, <1>2, <1>3, <1>4, <1>5, <1>6 DEF Next

LEMMA WholeStep ==
  ASSUME BotsInv, OnceInv, WholeInv, [Next]_vars
  PROVE  WholeInv'
<1>1. faults \in Nat
  BY ChatBotsAssumption DEF BotsInv, TypeOK
<1>2. CASE FaultStep
  <2>1. faults' = faults + 1
    BY <1>2 DEF FaultStep, Fault, IRCBotRestarts, Disconnect, PublishFails, AckFails
  <2> QED BY <1>1, <2>1 DEF WholeInv
<1>3. CASE ~FaultStep /\ faults = 0
  <2>1. JoinedFirst'
    BY <1>3, JoinedStep DEF WholeInv
  <2>2. ~acksLost' /\ ~acksLost
    BY <1>3, FaultFree DEF WholeInv
  <2>3. ASSUME NEW d \in Commands PROVE OnTrack(d)'
    <3>1. CASE SendPart
      BY <1>3, <3>1, WholeSend
    <3>2. said[d] # <<>> => results'[d].text = results[d].text
      BY ResultsStep DEF Begun
    <3>3. ASSUME NEW c \in Commands, HandleResult(c) PROVE OnTrack(d)'
      <4>1. c \in sender.batch /\ results[c].status # "acked" /\ UNCHANGED said
            /\ sender.pc = "handle"
        BY <3>3 DEF HandleResult, BotsInv, SenderInv, channel
      <4>2. ~Begun(c)
        BY <2>2, <4>1 DEF OnceInv
      <4>3. CASE results[c].garbled
        <5>1. sender'.pc # "send"
          BY <3>3, <4>3, SenderReturns DEF HandleResult
        <5> QED BY <1>3, <3>2, <4>1, <5>1 DEF WholeInv, OnTrack, Whole, Saying
      <4>4. CASE ~results[c].garbled
        <5>1. /\ sender'.pc = "send" /\ sender'.answer = c /\ sender'.start = 0
          BY <3>3, <4>1, <4>4, SenderTakesUp DEF HandleResult
        <5>2. said[c] = <<>>
          BY <4>2 DEF Begun
        <5> QED BY <1>3, <3>2, <4>1, <5>1, <5>2 DEF WholeInv, OnTrack, Whole, Saying
      <4> QED BY <4>3, <4>4
    <3>4. CASE /\ said' = said
               /\ \/ sender' = sender
                  \/ sender.pc # "send" /\ sender'.pc # "send"
      BY <1>3, <3>2, <3>4 DEF WholeInv, OnTrack, Whole, Saying
    <3>5. \/ SendPart \/ \E c \in Commands : HandleResult(c)
          \/ /\ said' = said
             /\ \/ sender' = sender
                \/ sender.pc # "send" /\ sender'.pc # "send"
      <4>1. CASE FetchResults \/ SubscribeResults
        BY <4>1 DEF FetchResults, SubscribeResults, SenderAt, channel
      <4> QED BY <1>3, <4>1
              DEF Next, vars, ircBot, MainStep, Connect, Listen, Reconnect, JoinChannels,
                  ReaderStep, HearLine, PublishCommand, PublishChat, SenderStep,
                  DiscordFetches, DiscordHears, DiscordPublishes, Speak, Answer,
                  AckWaitPasses, channel
    <3> QED BY <3>1, <3>3, <3>4, <3>5
  <2> QED BY <2>1, <2>2, <2>3 DEF WholeInv
<1>4. CASE ~FaultStep /\ faults # 0
  <2>1. UNCHANGED faults
    BY <1>4, FaultFree
  <2> QED BY <1>4, <2>1 DEF WholeInv
<1> QED BY <1>2, <1>3, <1>4

\* Until something fails nothing of an answer is left out but the spaces it is
\* cut at, for all texts, every length and whatever is delivered again.
THEOREM AnswersAreSaidWhole == Spec => []NothingIsLeftOut
<1>1. WholeInv => NothingIsLeftOut
  BY DEF WholeInv, OnTrack, NothingIsLeftOut
<1>2. BotsInv /\ OnceInv /\ WholeInv /\ [Next]_vars => WholeInv'
  BY WholeStep
<1> QED BY <1>1, <1>2, WholeInit, OnceInvariant, PTL DEF Spec

------------------------------------------------------------------------------
LEMMA CutStep ==
  ASSUME BotsInv, CutBetweenWords, [Next]_vars
  PROVE  CutBetweenWords'
<1>1. ASSUME UNCHANGED said
      PROVE  CutBetweenWords'
  <2>1. \A c \in Commands : said[c] # <<>> => results'[c].text = results[c].text
    BY ResultsStep DEF Begun
  <2>2. \A c \in Commands : \A i \in DOMAIN said[c] : said[c] # <<>>
    OBVIOUS
  <2> QED BY <1>1, <2>1, <2>2 DEF CutBetweenWords
<1>2. CASE SendPart
  <2> PICK c : c = sender.answer
    OBVIOUS
  <2> PICK part : part = [from |-> sender.start,
                          to   |-> EndOfPart(results[c].text, sender.start)]
    OBVIOUS
  <2>1. /\ c \in Commands /\ part \in Part /\ UNCHANGED results
        /\ said' = said \/ said' = [said EXCEPT ![c] = Append(@, part)]
        /\ part.to - part.from <= MaxLength
        /\ \/ part.to \in results[c].text.spaces \union {results[c].text.len}
           \/ /\ part.to - part.from = MaxLength
              /\ results[c].text.spaces \intersect part.from..part.to = {}
    BY <1>2, PartSaid
  <2>2. CASE said' = [said EXCEPT ![c] = Append(@, part)]
    <3>1. ASSUME NEW d \in Commands, NEW i \in DOMAIN said'[d]
          PROVE  \/ i \in DOMAIN said[d] /\ said'[d][i] = said[d][i]
                 \/ d = c /\ said'[d][i] = part
      <4>1. CASE d = c
        <5>1. Len(said[c]) \in Nat
          BY <2>1, <2>2, SaidAppend, LenProperties
        <5> QED BY <2>1, <2>2, <3>1, <4>1, <5>1, SaidAppend
      <4>2. CASE d # c
        BY <2>1, <2>2, <3>1, <4>2, SaidAppend
      <4> QED BY <4>1, <4>2
    <3> QED BY <2>1, <3>1 DEF CutBetweenWords
  <2> QED BY <1>1, <2>1, <2>2
<1> QED BY <1>1, <1>2, SaidStep

\* No part is longer than allowed, and none ends within a word that could have
\* been kept whole, for all texts and every length.
THEOREM AnswersAreCutBetweenWords == Spec => []CutBetweenWords
<1>1. Init => CutBetweenWords
  BY DEF Init, CutBetweenWords
<1> QED BY <1>1, CutStep, BotsInit, BotsStep, PTL DEF Spec

------------------------------------------------------------------------------
(* What is recorded.  Lines only go forward, from the channel to the inbox, *)
(* from there to the reader and on to the stream; and until something fails *)
(* they leave no gap: what is in the inbox, with the reader and recorded    *)
(* last are lines that were said one after the other.                       *)

Records == reader.pc = "chat" \/ (reader.pc = "command" /\ reader.records)

OrderInv ==
    /\ \A i, j \in DOMAIN chat :
         i < j /\ Recorded(i) /\ Recorded(j) => chat[i].id < chat[j].id
    /\ \A i \in DOMAIN chat : Recorded(i) =>
         /\ chat[i].id \in Nat /\ chat[i].id <= spoken
         /\ Records => chat[i].id < reader.line
         /\ \A k \in DOMAIN inbox : chat[i].id < inbox[k]
    /\ \A k, l \in DOMAIN inbox : k < l => inbox[k] < inbox[l]
    /\ \A k \in DOMAIN inbox : /\ inbox[k] <= spoken
                               /\ reader.pc # "idle" => reader.line < inbox[k]
    /\ reader.pc # "idle" => reader.line <= spoken

\* The line before the first of the inbox.
Previous == spoken - Len(inbox)

NoGap ==
    /\ main = "start" => link = "down"
    /\ link # "joined" =>
         /\ inbox = <<>> /\ reader.pc = "idle"
         /\ \A i \in DOMAIN chat : ~Recorded(i)
    /\ main # "listening" => ~Records /\ \A i \in DOMAIN chat : ~Recorded(i)
    /\ \A k \in DOMAIN inbox : inbox[k] = Previous + k
    /\ reader.pc # "idle" => reader.line = Previous
    /\ \A i \in DOMAIN chat : Recorded(i) =>
         /\ reader.pc # "idle" => Records
         /\ (\A k \in (i + 1)..Len(chat) : ~Recorded(k)) =>
              chat[i].id = IF reader.pc = "idle" THEN Previous ELSE Previous - 1
    /\ \A i, j \in DOMAIN chat :
         /\ i < j /\ Recorded(i) /\ Recorded(j)
         /\ \A k \in (i + 1)..(j - 1) : ~Recorded(k)
         => chat[j].id = chat[i].id + 1

RecordInv == OrderInv /\ (faults = 0 => NoGap)

LEMMA SequenceTypes ==
  ASSUME BotsInv
  PROVE  /\ DOMAIN inbox = 1..Len(inbox) /\ Len(inbox) \in Nat
         /\ \A k \in DOMAIN inbox : inbox[k] \in Nat
         /\ DOMAIN chat = 1..Len(chat) /\ Len(chat) \in Nat
         /\ spoken \in Nat
         /\ reader.pc # "idle" => reader.line \in Nat
<1>1. inbox \in Seq(Lines) /\ chat \in Seq(Event) /\ Lines \subseteq Nat
      /\ spoken \in {0} \union Lines /\ Commands \subseteq Lines
      /\ reader \in Reader
  BY ChatBotsAssumption DEF BotsInv, TypeOK, Lines
<1>2. DOMAIN inbox = 1..Len(inbox) /\ Len(inbox) \in Nat
      /\ DOMAIN chat = 1..Len(chat) /\ Len(chat) \in Nat
  BY <1>1, LenProperties
<1>3. \A k \in DOMAIN inbox : inbox[k] \in Nat
  BY <1>1, <1>2, ElementOfSeq
<1>4. reader.pc # "idle" => reader.line \in Lines
  BY <1>1 DEF BotsInv, ReaderInv, Reader
<1>5. spoken \in Nat
  <2>1. spoken = 0 \/ spoken \in Lines
    BY <1>1
  <2> QED BY <1>1, <2>1
<1>6. reader.pc # "idle" => reader.line \in Nat
  BY <1>1, <1>4
<1> QED BY <1>2, <1>3, <1>5, <1>6

LEMMA ChatGrows ==
  ASSUME BotsInv, NEW event \in Event, chat' = Append(chat, event)
  PROVE  /\ DOMAIN chat' = 1..(Len(chat) + 1) /\ Len(chat') = Len(chat) + 1
         /\ \A i \in DOMAIN chat : chat'[i] = chat[i]
         /\ chat'[Len(chat) + 1] = event
<1>1. chat \in Seq(Event)
  BY DEF BotsInv, TypeOK
<1>2. chat' \in Seq(Event) /\ Len(chat') = Len(chat) + 1
      /\ (\A i \in 1..Len(chat) : chat'[i] = chat[i])
      /\ chat'[Len(chat) + 1] = event
  BY <1>1, AppendProperties
<1> QED BY <1>1, <1>2, LenProperties

LEMMA RecordHeard ==
  ASSUME BotsInv, RecordInv, HearLine
  PROVE  RecordInv'
<1> DEFINE line == Head(inbox)
           records == main = "listening"
<1>1. /\ UNCHANGED <<chat, spoken, faults, main, link>>
      /\ reader.pc = "idle" /\ inbox # <<>> /\ inbox' = Tail(inbox)
  BY DEF HearLine, channel, streams
<1>2. /\ Len(inbox) > 0 /\ line = inbox[1] /\ Len(inbox') = Len(inbox) - 1
      /\ DOMAIN inbox' = 1..(Len(inbox) - 1)
      /\ \A k \in DOMAIN inbox' : k + 1 \in DOMAIN inbox /\ inbox'[k] = inbox[k + 1]
  <2>1. inbox \in Seq(Lines)
    BY DEF BotsInv, TypeOK
  <2>2. /\ Tail(inbox) \in Seq(Lines) /\ Len(Tail(inbox)) = Len(inbox) - 1
        /\ \A k \in 1..Len(Tail(inbox)) : Tail(inbox)[k] = inbox[k + 1]
    BY <1>1, <2>1, HeadTailProperties
  <2>3. Len(inbox) \in Nat \ {0} /\ Head(inbox) = inbox[1]
    BY <1>1, <2>1, EmptySeq
  <2> QED BY <1>1, <2>1, <2>2, <2>3, LenProperties
<1>3. \/ /\ reader'.pc # "idle" /\ reader'.line = line
         /\ Records' <=> records
      \/ reader'.pc = "idle" /\ ~Records' /\ ~records
  BY <1>1 DEF HearLine, Records, IdleReader
<1> HIDE DEF line
<1>4. 1 \in DOMAIN inbox
  BY <1>2, SequenceTypes
<1>5. OrderInv'
  <2>1. UNCHANGED <<chat, spoken>> /\ \A i \in DOMAIN chat : Recorded(i)' <=> Recorded(i)
    BY <1>1 DEF Recorded
  <2>2. \A k \in DOMAIN inbox' : line < inbox'[k] /\ inbox'[k] <= spoken
    BY <1>2, <1>4, SequenceTypes DEF RecordInv, OrderInv
  <2>3. \A k, l \in DOMAIN inbox' : k < l => inbox'[k] < inbox'[l]
    BY <1>2, SequenceTypes DEF RecordInv, OrderInv
  <2>4. \A i \in DOMAIN chat : Recorded(i) =>
          chat[i].id < line /\ \A k \in DOMAIN inbox' : chat[i].id < inbox'[k]
    BY <1>2, <1>4 DEF RecordInv, OrderInv
  <2>5. line <= spoken
    BY <1>2, <1>4 DEF RecordInv, OrderInv
  <2>6. reader'.pc # "idle" => reader'.line = line
    BY <1>3
  <2>7. Records' => reader'.line = line
    BY <1>3
  <2> QED BY <2>1, <2>2, <2>3, <2>4, <2>5, <2>6, <2>7 DEF RecordInv, OrderInv
<1>6. ASSUME faults' = 0
      PROVE  NoGap'
  <2>1. NoGap /\ link = "joined"
    BY <1>1, <1>6 DEF RecordInv, NoGap
  <2>2. Previous' = Previous + 1 /\ Previous \in Int /\ line = Previous + 1
    BY <1>1, <1>2, <1>4, <2>1, SequenceTypes DEF NoGap, Previous
  <2>3. \A k \in DOMAIN inbox' : inbox'[k] = Previous' + k
    BY <1>2, <2>1, <2>2, SequenceTypes DEF NoGap
  <2>4. UNCHANGED chat /\ \A i \in DOMAIN chat : Recorded(i)' <=> Recorded(i)
    BY <1>1 DEF Recorded
  <2>5. records \/ \A i \in DOMAIN chat : ~Recorded(i)
    BY <2>1 DEF NoGap
  <2>6. \A i, k \in Nat : Recorded(i)' <=> Recorded(i)
    BY <1>1 DEF Recorded
  <2>7. \A i \in DOMAIN chat :
          Recorded(i) /\ (\A k \in (i + 1)..Len(chat) : ~Recorded(k))
          => chat[i].id = Previous
    BY <1>1, <2>1 DEF NoGap
  <2>8. \A i \in DOMAIN chat' : Recorded(i)' =>
         /\ reader'.pc # "idle" => Records'
         /\ (\A k \in (i + 1)..Len(chat') : ~Recorded(k)') =>
              chat'[i].id = IF reader'.pc = "idle" THEN Previous' ELSE Previous' - 1
    <3> SUFFICES ASSUME NEW i \in DOMAIN chat, Recorded(i)
                 PROVE  /\ reader'.pc # "idle" => Records'
                        /\ (\A k \in (i + 1)..Len(chat) : ~Recorded(k)) =>
                             chat[i].id = IF reader'.pc = "idle" THEN Previous'
                                                                ELSE Previous' - 1
      BY <2>4 DEF Recorded
    <3>1. records /\ reader'.pc # "idle" /\ Records'
      BY <1>3, <2>5
    <3> QED BY <2>2, <2>7, <3>1
  <2>9. \A i, j \in DOMAIN chat' :
         /\ i < j /\ Recorded(i)' /\ Recorded(j)'
         /\ \A k \in (i + 1)..(j - 1) : ~Recorded(k)'
         => chat'[j].id = chat'[i].id + 1
    BY <1>1, <2>1 DEF NoGap, Recorded
  <2>10. main' # "listening" => ~Records' /\ \A i \in DOMAIN chat' : ~Recorded(i)'
    BY <1>1, <1>3, <2>1, <2>4 DEF NoGap
  <2>11. reader'.pc # "idle" => reader'.line = Previous'
    BY <1>3, <2>2
  <2> QED BY <1>1, <2>1, <2>3, <2>8, <2>9, <2>10, <2>11 DEF NoGap
<1> QED BY <1>5, <1>6 DEF RecordInv

\* A callback ends: the line is still to be recorded if there is one more.
LEMMA CallbackMoves ==
  ASSUME BotsInv, reader.pc # "idle", NextCallback
  PROVE  \/ /\ reader.pc = "command" /\ reader.records
            /\ reader'.pc = "chat" /\ reader'.line = reader.line
            /\ Records /\ Records'
         \/ /\ reader.pc = "chat" \/ (reader.pc = "command" /\ ~Records)
            /\ reader'.pc = "idle" /\ ~Records'
<1>1. reader \in Reader
  BY DEF BotsInv, TypeOK
<1>2. CASE reader.pc = "command" /\ reader.records
  <2>1. reader' = [reader EXCEPT !.pc = "chat"]
    BY <1>2 DEF NextCallback
  <2>2. reader'.pc = "chat" /\ reader'.line = reader.line
    BY <1>1, <2>1 DEF Reader
  <2> QED BY <1>2, <2>2 DEF Records
<1>3. CASE ~(reader.pc = "command" /\ reader.records)
  <2>1. reader'.pc = "idle"
    BY <1>3 DEF NextCallback, IdleReader
  <2> QED BY <1>1, <1>3, <2>1 DEF Records, Reader
<1> QED BY <1>2, <1>3

\* The order of what is recorded does not depend on the rest: the reader may
\* drop its line, and the inbox what it holds.
LEMMA OrderKept ==
  ASSUME BotsInv, OrderInv, UNCHANGED <<chat, spoken>>,
         inbox' = inbox \/ inbox' = <<>>,
         \/ reader' = reader
         \/ reader'.pc = "idle" /\ ~Records'
         \/ Records /\ reader.pc # "idle" /\ reader'.line = reader.line
  PROVE  OrderInv'
<1>1. CASE inbox' = inbox
  BY <1>1 DEF OrderInv, Recorded, Records
<1>2. CASE inbox' = <<>>
  <2>1. DOMAIN inbox' = {}
    BY <1>2
  <2> QED BY <2>1 DEF OrderInv, Recorded, Records
<1> QED BY <1>1, <1>2

LEMMA RecordCommand ==
  ASSUME BotsInv, RecordInv, PublishCommand
  PROVE  RecordInv'
<1>1. UNCHANGED <<main, link, inbox, chat, spoken, faults>>
      /\ reader.pc = "command" /\ NextCallback
  BY DEF PublishCommand, channel
<1>2. \/ /\ reader'.pc = "chat" /\ reader'.line = reader.line
         /\ Records /\ Records'
      \/ reader'.pc = "idle" /\ ~Records' /\ ~Records
  BY <1>1, CallbackMoves DEF Records
<1>3. OrderInv'
  BY <1>1, <1>2, OrderKept DEF RecordInv
<1>4. NoGap => NoGap'
  <2>1. CASE Records
    BY <1>1, <1>2, <2>1 DEF NoGap, Recorded, Previous
  <2>2. CASE ~Records
    BY <1>1, <1>2, <2>2 DEF NoGap, Recorded, Previous
  <2> QED BY <2>1, <2>2
<1> QED BY <1>1, <1>3, <1>4 DEF RecordInv

LEMMA RecordChat ==
  ASSUME BotsInv, RecordInv, PublishChat
  PROVE  RecordInv'
<1> PICK n : n = Len(chat) + 1
  OBVIOUS
<1>1. /\ UNCHANGED <<main, link, inbox, spoken, faults>>
      /\ reader.pc = "chat" /\ NextCallback /\ Records
      /\ chat' = Append(chat, [from |-> "irc", id |-> reader.line])
  BY DEF PublishChat, channel, Records
<1>2. reader'.pc = "idle" /\ ~Records'
  BY <1>1, CallbackMoves
<1>3. [from |-> "irc", id |-> reader.line] \in Event
  BY <1>1 DEF BotsInv, ReaderInv, Event
<1>4. /\ DOMAIN chat' = 1..n /\ Len(chat') = n /\ DOMAIN chat = 1..(n - 1)
      /\ n \in Nat
      /\ \A i \in DOMAIN chat : chat'[i] = chat[i]
      /\ chat'[n] = [from |-> "irc", id |-> reader.line]
  BY <1>1, <1>3, ChatGrows, SequenceTypes
<1>5. /\ \A i \in DOMAIN chat : Recorded(i)' <=> Recorded(i)
      /\ Recorded(n)' /\ chat'[n].id = reader.line
  BY <1>4 DEF Recorded
<1>6. \A i \in DOMAIN chat' : i \in DOMAIN chat \/ i = n
  BY <1>4
<1>7. OrderInv'
  <2>1. reader.line \in Nat /\ reader.line <= spoken
        /\ \A k \in DOMAIN inbox : reader.line < inbox[k]
    BY <1>1, SequenceTypes DEF RecordInv, OrderInv
  <2>2. \A i \in DOMAIN chat : Recorded(i) => chat[i].id < reader.line
    BY <1>1 DEF RecordInv, OrderInv
  <2>3. \A i, j \in DOMAIN chat' :
          i < j /\ Recorded(i)' /\ Recorded(j)' => chat'[i].id < chat'[j].id
    BY <1>4, <1>5, <1>6, <2>2 DEF RecordInv, OrderInv
  <2>4. \A i \in DOMAIN chat' : Recorded(i)' =>
          /\ chat'[i].id \in Nat /\ chat'[i].id <= spoken
          /\ \A k \in DOMAIN inbox : chat'[i].id < inbox[k]
    BY <1>4, <1>5, <1>6, <2>1 DEF RecordInv, OrderInv
  <2> QED BY <1>1, <1>2, <2>3, <2>4 DEF RecordInv, OrderInv
<1>8. ASSUME faults' = 0
      PROVE  NoGap'
  <2>1. NoGap
    BY <1>1, <1>8 DEF RecordInv
  <2>2. /\ reader.line = Previous /\ UNCHANGED Previous /\ main = "listening"
        /\ link = "joined"
    BY <1>1, <2>1 DEF NoGap, Previous
  <2>3. \A i \in DOMAIN chat : Recorded(i) /\ (\A k \in (i + 1)..(n - 1) : ~Recorded(k))
          => chat[i].id = Previous - 1
    BY <1>1, <1>4, <2>1 DEF NoGap
  <2>4. ASSUME NEW i \in DOMAIN chat', NEW j \in DOMAIN chat', i < j,
               Recorded(i)', Recorded(j)',
               \A k \in (i + 1)..(j - 1) : ~Recorded(k)'
        PROVE  chat'[j].id = chat'[i].id + 1
    <3>1. i \in DOMAIN chat /\ Recorded(i)
      BY <1>4, <1>5, <2>4
    <3>2. \A k \in (i + 1)..(j - 1) : k \in DOMAIN chat /\ ~Recorded(k)
      BY <1>4, <1>5, <2>4
    <3>3. CASE j \in DOMAIN chat
      BY <1>4, <1>5, <2>1, <2>4, <3>1, <3>2, <3>3 DEF NoGap
    <3>4. CASE j = n
      <4>1. chat[i].id = Previous - 1
        BY <2>3, <3>1, <3>2, <3>4
      <4> QED BY <1>4, <1>5, <2>2, <3>1, <3>4, <4>1, SequenceTypes DEF Previous
    <3> QED BY <1>6, <3>3, <3>4
  <2>5. \A i \in DOMAIN chat' :
          Recorded(i)' /\ (\A k \in (i + 1)..Len(chat') : ~Recorded(k)')
          => chat'[i].id = Previous'
    BY <1>4, <1>5, <1>6, <2>2
  <2>6. \A k \in DOMAIN inbox' : inbox'[k] = Previous' + k
    BY <1>1, <2>1, <2>2 DEF NoGap
  <2> QED BY <1>1, <1>2, <2>2, <2>4, <2>5, <2>6 DEF NoGap
<1> QED BY <1>7, <1>8 DEF RecordInv

LEMMA RecordSpoken ==
  ASSUME BotsInv, RecordInv, Speak
  PROVE  RecordInv'
<1>1. /\ UNCHANGED <<main, link, reader, chat, faults>> /\ spoken' = spoken + 1
      /\ inbox' = IF link = "joined" THEN Append(inbox, spoken') ELSE inbox
  BY DEF Speak, streams
<1>2. CASE link = "joined"
  <2>1. inbox \in Seq(Lines) /\ spoken' \in Lines
    BY <1>1, ChatBotsAssumption DEF Speak, BotsInv, TypeOK, Lines
  <2>2. /\ Len(inbox') = Len(inbox) + 1 /\ DOMAIN inbox' = 1..(Len(inbox) + 1)
        /\ \A k \in DOMAIN inbox : inbox'[k] = inbox[k]
        /\ inbox'[Len(inbox) + 1] = spoken + 1
    <3>1. /\ inbox' \in Seq(Lines) /\ Len(inbox') = Len(inbox) + 1
          /\ \A k \in 1..Len(inbox) : inbox'[k] = inbox[k]
          /\ inbox'[Len(inbox) + 1] = spoken'
      BY <1>1, <1>2, <2>1, AppendProperties
    <3> QED BY <1>1, <3>1, LenProperties, SequenceTypes
  <2>3. \A k \in DOMAIN inbox' : k \in DOMAIN inbox \/ k = Len(inbox) + 1
    BY <2>2, SequenceTypes
  <2>4. OrderInv'
    BY <1>1, <2>2, <2>3, SequenceTypes DEF RecordInv, OrderInv, Recorded, Records
  <2>5. UNCHANGED Previous
    BY <1>1, <2>2, SequenceTypes DEF Previous
  <2>6. NoGap => \A k \in DOMAIN inbox' : inbox'[k] = Previous + k
    BY <2>2, <2>3, SequenceTypes DEF NoGap, Previous
  <2> QED BY <1>1, <1>2, <2>4, <2>5, <2>6 DEF RecordInv, NoGap, Recorded, Records
<1>3. CASE link # "joined"
  <2>1. OrderInv'
    BY <1>1, <1>3, SequenceTypes DEF RecordInv, OrderInv, Recorded, Records
  <2>2. NoGap => NoGap'
    <3>1. NoGap => DOMAIN inbox' = {}
      BY <1>1, <1>3 DEF NoGap
    <3> QED BY <1>1, <1>3, <3>1 DEF NoGap, Recorded, Records
  <2> QED BY <1>1, <2>1, <2>2 DEF RecordInv
<1> QED BY <1>2, <1>3

\* What is fetched and said, and what becomes of results, leaves the lines alone.
LEMMA RecordUntouched ==
  ASSUME RecordInv,
         UNCHANGED <<main, link, inbox, reader, chat, spoken, faults>>
  PROVE  RecordInv'
BY DEF RecordInv, OrderInv, NoGap, Recorded, Records, Previous

LEMMA RecordMain ==
  ASSUME BotsInv, RecordInv, MainStep
  PROVE  RecordInv'
<1>1. UNCHANGED <<inbox, reader, chat, spoken, faults>>
  BY DEF MainStep, Connect, SubscribeResults, Listen, Reconnect, JoinChannels,
     channel, streams
<1>2. OrderInv'
  BY <1>1, OrderKept DEF RecordInv
<1>3. NoGap => NoGap'
  BY <1>1 DEF MainStep, Connect, SubscribeResults, Listen, Reconnect,
     JoinChannels, NoGap, Recorded, Records, Previous
<1> QED BY <1>1, <1>2, <1>3 DEF RecordInv

\* What is written on Discord comes between the lines.
LEMMA RecordPost ==
  ASSUME BotsInv, RecordInv, NEW p \in Posts, DiscordPublishes(p)
  PROVE  RecordInv'
<1> PICK n : n = Len(chat) + 1
  OBVIOUS
<1>1. /\ UNCHANGED <<main, link, inbox, reader, spoken, faults>>
      /\ chat' = Append(chat, [from |-> "discord", id |-> p])
  BY DEF DiscordPublishes, ircBot, channel
<1>2. [from |-> "discord", id |-> p] \in Event
  BY DEF Event
<1>3. /\ DOMAIN chat' = 1..n /\ Len(chat') = n /\ DOMAIN chat = 1..(n - 1)
      /\ n \in Nat
      /\ \A i \in DOMAIN chat : chat'[i] = chat[i]
      /\ chat'[n] = [from |-> "discord", id |-> p]
  BY <1>1, <1>2, ChatGrows, SequenceTypes
<1>4. /\ \A i \in DOMAIN chat : Recorded(i)' <=> Recorded(i)
      /\ ~Recorded(n)'
  BY <1>3 DEF Recorded
<1>5. \A i \in DOMAIN chat' : Recorded(i)' =>
        i \in DOMAIN chat /\ Recorded(i) /\ chat'[i] = chat[i]
  BY <1>3, <1>4
<1>6. OrderInv'
  BY <1>1, <1>5 DEF RecordInv, OrderInv, Records
<1>7. ASSUME faults' = 0
      PROVE  NoGap'
  <2>1. NoGap
    BY <1>1, <1>7 DEF RecordInv
  <2>2. \A i \in DOMAIN chat' : Recorded(i)' =>
          /\ reader'.pc # "idle" => Records'
          /\ (\A k \in (i + 1)..Len(chat') : ~Recorded(k)') =>
               chat'[i].id = IF reader'.pc = "idle" THEN Previous' ELSE Previous' - 1
    <3> SUFFICES ASSUME NEW i \in DOMAIN chat, Recorded(i)
                 PROVE  /\ reader.pc # "idle" => Records
                        /\ (\A k \in (i + 1)..n : ~Recorded(k)') =>
                             chat[i].id = IF reader.pc = "idle" THEN Previous
                                                               ELSE Previous - 1
      BY <1>1, <1>3, <1>5 DEF Previous, Records
    <3>1. (\A k \in (i + 1)..n : ~Recorded(k)') =>
            \A k \in (i + 1)..Len(chat) : ~Recorded(k)
      BY <1>3, <1>4
    <3> QED BY <2>1, <3>1 DEF NoGap
  <2>3. ASSUME NEW i \in DOMAIN chat', NEW j \in DOMAIN chat', i < j,
               Recorded(i)', Recorded(j)',
               \A k \in (i + 1)..(j - 1) : ~Recorded(k)'
        PROVE  chat'[j].id = chat'[i].id + 1
    <3>1. /\ i \in DOMAIN chat /\ j \in DOMAIN chat /\ Recorded(i) /\ Recorded(j)
          /\ chat'[i] = chat[i] /\ chat'[j] = chat[j]
      BY <1>5, <2>3
    <3>2. \A k \in (i + 1)..(j - 1) : ~Recorded(k)
      BY <1>3, <1>4, <2>3, <3>1
    <3> QED BY <2>1, <2>3, <3>1, <3>2 DEF NoGap
  <2>4. \A i \in DOMAIN chat' : Recorded(i)' => \E k \in DOMAIN chat : Recorded(k)
    BY <1>5
  <2> QED BY <1>1, <2>1, <2>2, <2>3, <2>4 DEF NoGap, Previous, Records
<1> QED BY <1>6, <1>7 DEF RecordInv

\* After a failure there may be gaps; the order is kept.
LEMMA RecordFault ==
  ASSUME BotsInv, RecordInv, FaultStep
  PROVE  RecordInv'
<1>1. faults' # 0
  <2>1. faults' = faults + 1
    BY DEF FaultStep, Fault, IRCBotRestarts, Disconnect, PublishFails, AckFails
  <2>2. faults \in Nat
    BY ChatBotsAssumption DEF BotsInv, TypeOK
  <2> QED BY <2>1, <2>2
<1>2. UNCHANGED <<chat, spoken>> /\ (inbox' = inbox \/ inbox' = <<>>)
  BY DEF FaultStep, IRCBotRestarts, Disconnect, PublishFails, AckFails, channel,
         streams
<1>3. \/ reader' = reader
      \/ reader'.pc = "idle" /\ ~Records'
      \/ Records /\ reader.pc # "idle" /\ reader'.line = reader.line
  <2>1. CASE IRCBotRestarts
    BY <2>1 DEF IRCBotRestarts, IdleReader, Records
  <2>2. CASE PublishFails
    BY <2>2, CallbackMoves DEF PublishFails
  <2>3. CASE Disconnect \/ \E c \in Commands : AckFails(c)
    BY <2>3 DEF Disconnect, AckFails
  <2> QED BY <2>1, <2>2, <2>3 DEF FaultStep
<1>4. OrderInv'
  BY <1>2, <1>3, OrderKept DEF RecordInv
<1> QED BY <1>1, <1>4 DEF RecordInv

LEMMA RecordStep ==
  ASSUME BotsInv, RecordInv, [Next]_vars
  PROVE  RecordInv'
<1>1. CASE MainStep
  BY <1>1, RecordMain
<1>2. CASE ReaderStep
  BY <1>2, RecordHeard, RecordCommand, RecordChat DEF ReaderStep
<1>3. CASE SenderStep
  <2>1. UNCHANGED <<main, link, inbox, reader, chat, spoken, faults>>
    BY <1>3 DEF SenderStep, FetchResults, HandleResult, SendPart, channel, streams
  <2> QED BY <2>1, RecordUntouched
<1>4. CASE \/ \E c \in Commands : DiscordFetches(c) \/ Answer(c) \/ AckWaitPasses(c)
           \/ \E p \in Posts : DiscordHears(p)
           \/ UNCHANGED vars
  <2>1. UNCHANGED <<main, link, inbox, reader, chat, spoken, faults>>
    BY <1>4 DEF DiscordFetches, Answer, AckWaitPasses, DiscordHears, ircBot,
       channel, streams, vars
  <2> QED BY <2>1, RecordUntouched
<1>5. CASE \E p \in Posts : DiscordPublishes(p)
  BY <1>5, RecordPost
<1>6. CASE Speak
  BY <1>6, RecordSpoken
<1>7. CASE FaultStep
  BY <1>7, RecordFault
<1> QED BY <1>1, <1>2, <1>3, <1>4, <1>5, <1>6, <1>7 DEF Next

LEMMA RecordInit == Init => RecordInv
<1> SUFFICES ASSUME Init PROVE RecordInv
  OBVIOUS
<1>1. DOMAIN inbox = {} /\ DOMAIN chat = {} /\ reader.pc = "idle" /\ ~Records
  BY DEF Init, IdleReader, Records
<1> QED BY <1>1 DEF Init, RecordInv, OrderInv, NoGap

LEMMA RecordInvariant == Spec => []RecordInv
<1>1. BotsInv /\ RecordInv /\ [Next]_vars => RecordInv'
  BY RecordStep
<1> QED BY <1>1, RecordInit, BotsInvariant, PTL DEF Spec

\* The lines of the channel are recorded in the order in which they were said,
\* none twice, and as long as nothing fails without a gap: for any number of
\* lines, and whatever the Discord bot writes in between.
THEOREM LinesAreRecordedInOrder == Spec => []RecordedInOrder
<1>1. RecordInv => RecordedInOrder
  BY DEF RecordInv, OrderInv, NoGap, RecordedInOrder
<1> QED BY <1>1, RecordInvariant, PTL
==============================================================================
