------------------------------- MODULE ChatBots -------------------------------
(***************************************************************************)
(* The Go bots.  The IRC bot reads a channel and publishes each line to a  *)
(* stream of chat and, if it is addressed to the bot, to a stream of       *)
(* commands as well.  Someone answers commands on a stream of results,     *)
(* from where the bot says the answers in the channel, in parts if they    *)
(* are long.  The Discord bot publishes to the same stream of chat and     *)
(* takes results from the same durable consumer as the IRC bot.            *)
(*                                                                         *)
(* In the IRC bot three things go on at once:                              *)
(*                                                                         *)
(*   main    connects, subscribes to the results, listens                  *)
(*   reader  runs the callbacks of one line after the other                *)
(*   sender  fetches results and handles one after the other               *)
(*                                                                         *)
(* JetStream gives a result again when its ack wait passes, to whichever   *)
(* bot asks then, and takes an acknowledgement however late it comes.      *)
(***************************************************************************)
EXTENDS Naturals, Sequences, FiniteSets

CONSTANTS MaxLines,   \* bound on the lines said in the channel
          Commands,   \* the lines that are addressed to the bot
          Posts,      \* the messages others write on Discord
          Texts,      \* the answers there are
          MaxLength,  \* maxMessageLength
          MaxFaults   \* bound on the faults in a behaviour

Lines == 1..MaxLines

\* A text is how long it is and where its spaces are.
ASSUME ChatBotsAssumption ==
    /\ MaxLines \in Nat
    /\ Commands \subseteq Lines
    /\ MaxLength \in Nat \ {0}
    /\ MaxFaults \in Nat
    /\ \A text \in Texts : /\ text.len \in Nat
                           /\ text.spaces \subseteq 0..(text.len - 1)

VARIABLES
  \* The IRC bot, and the line to the channel: the lines the server sent it and
  \* the callbacks have not seen.
  main, link, inbox, reader, sender,
  \* The channel: the lines said in it, and the parts of answers.
  spoken, said,
  \* JetStream: the three streams.
  chat, commands, results,
  posts,    \* what the Discord bot does with a message
  acksLost, \* whether an acknowledgement was lost after Ack returned
  faults

ircBot == <<main, link, inbox, reader, sender>>
channel == <<spoken, said>>
streams == <<chat, commands, results>>
vars == <<ircBot, channel, streams, posts, acksLost, faults>>

------------------------------------------------------------------------------
Links == {"down", "up", "joined"}

\* The reader has a line and what is still to be done with it.
Reader == [line : {0} \union Lines, pc : {"idle", "command", "chat"},
           records : BOOLEAN]
IdleReader == [line |-> 0, pc |-> "idle", records |-> FALSE]

\* The sender has the results it fetched, and one it is saying, from `start` on.
Sender == [pc : {"off", "fetch", "handle", "send"}, batch : SUBSET Commands,
           answer : {0} \union Commands, start : Nat]
SenderAt(pc) == [pc |-> pc, batch |-> {}, answer |-> 0, start |-> 0]

\* The result of a command: an answer, or something no bot can decode.
NoText == [len |-> 0, spaces |-> {}]
Result == [status : {"none", "waiting", "irc", "discord", "acked"},
           text : Texts \union {NoText}, garbled : BOOLEAN]
NoResult == [status |-> "none", text |-> NoText, garbled |-> FALSE]

Part == [from : Nat, to : Nat]
Event == [from : {"irc", "discord"}, id : Lines \union Posts]

Init ==
    /\ main = "start" /\ link = "down" /\ inbox = <<>>
    /\ reader = IdleReader
    /\ sender = SenderAt("off")
    /\ spoken = 0
    /\ said = [c \in Commands |-> <<>>]
    /\ chat = <<>> /\ commands = {}
    /\ results = [c \in Commands |-> NoResult]
    /\ posts = [p \in Posts |-> "none"]
    /\ acksLost = FALSE
    /\ faults = 0

------------------------------------------------------------------------------
(* The IRC bot's main, and its connection.                                 *)

\* The three handlers are made, and the adapter connects.  If one of them
\* cannot be, the program ends and is started again.
Connect ==
    /\ main = "start"
    /\ main' = "connected" /\ link' = "up"
    /\ UNCHANGED <<inbox, reader, sender, channel, streams, posts, acksLost,
                   faults>>

\* The goroutine that subscribes to the results runs beside main.
SubscribeResults ==
    /\ main # "start" /\ sender.pc = "off"
    /\ sender' = SenderAt("fetch")
    /\ UNCHANGED <<main, link, inbox, reader, channel, streams, posts, acksLost,
                   faults>>

\* Listen adds the callback that publishes chat; from then on the loop also
\* takes up a connection that was lost.
Listen ==
    /\ main = "connected"
    /\ main' = "listening"
    /\ UNCHANGED <<link, inbox, reader, sender, channel, streams, posts,
                   acksLost, faults>>

Reconnect ==
    /\ main = "listening" /\ link = "down"
    /\ link' = "up"
    /\ UNCHANGED <<main, inbox, reader, sender, channel, streams, posts,
                   acksLost, faults>>

\* The connect callback, once the server has greeted the bot.
JoinChannels ==
    /\ link = "up"
    /\ link' = "joined"
    /\ UNCHANGED <<main, inbox, reader, sender, channel, streams, posts,
                   acksLost, faults>>

MainStep == Connect \/ SubscribeResults \/ Listen \/ Reconnect \/ JoinChannels

------------------------------------------------------------------------------
(* The reader.                                                             *)

\* The callbacks for a line are those registered when it is taken up.
HearLine ==
    /\ reader.pc = "idle" /\ inbox # <<>>
    /\ inbox' = Tail(inbox)
    /\ LET line    == Head(inbox)
           records == main = "listening"
       IN  reader' = IF line \in Commands
                     THEN [line |-> line, pc |-> "command", records |-> records]
                     ELSE IF records
                     THEN [line |-> line, pc |-> "chat", records |-> records]
                     ELSE IdleReader
    /\ UNCHANGED <<main, link, sender, channel, streams, posts, acksLost, faults>>

\* A callback ends; the one that publishes chat comes second.
NextCallback ==
    reader' = IF reader.pc = "command" /\ reader.records
              THEN [reader EXCEPT !.pc = "chat"] ELSE IdleReader

\* The callback of Connect publishes the command.
PublishCommand ==
    /\ reader.pc = "command"
    /\ commands' = commands \union {reader.line}
    /\ NextCallback
    /\ UNCHANGED <<main, link, inbox, sender, channel, chat, results, posts,
                   acksLost, faults>>

\* As PublishChat, but the line is looked up after the reader has moved on.
PublishLineLate ==
    /\ reader.pc = "chat"
    /\ NextCallback
    /\ chat' = Append(chat, [from |-> "irc", id |-> reader'.line])
    /\ UNCHANGED <<main, link, inbox, sender, channel, commands, results, posts,
                   acksLost, faults>>

\* The callback of Listen publishes the line.
PublishChat ==
    /\ reader.pc = "chat"
    /\ chat' = Append(chat, [from |-> "irc", id |-> reader.line])
    /\ NextCallback
    /\ UNCHANGED <<main, link, inbox, sender, channel, commands, results, posts,
                   acksLost, faults>>

ReaderStep == HearLine \/ PublishCommand \/ PublishChat

------------------------------------------------------------------------------
(* The sender: CloudEventsNATSHandler.Listen with main's handler, and Send. *)

\* Fetch asks for ten, more than an instance has.
FetchResults ==
    LET waiting == {c \in Commands : results[c].status = "waiting"} IN
    /\ sender.pc = "fetch" /\ waiting # {}
    /\ sender' = [SenderAt("handle") EXCEPT !.batch = waiting]
    /\ results' = [c \in Commands |-> IF c \in waiting
                       THEN [results[c] EXCEPT !.status = "irc"] ELSE results[c]]
    /\ UNCHANGED <<main, link, inbox, reader, channel, chat, commands, posts,
                   acksLost, faults>>

\* The handler returns: the next of the batch, or the next batch.
Returns(batch) ==
    sender' = IF batch = {} THEN SenderAt("fetch")
              ELSE [SenderAt("handle") EXCEPT !.batch = batch]

\* As HandleResult, but what cannot be decoded is not left behind.
HandleUntilDecoded(c) ==
    /\ sender.pc = "handle" /\ c \in sender.batch
    /\ ~results[c].garbled
    /\ results' = [results EXCEPT ![c].status = "acked"]
    /\ sender' = [sender EXCEPT !.pc = "send", !.answer = c,
                                !.batch = @ \ {c}]
    /\ UNCHANGED <<main, link, inbox, reader, channel, chat, commands, posts,
                   acksLost, faults>>

\* As HandleResult, but nothing is acknowledged: the Discord bot's handler.
HandleWithoutAck(c) ==
    /\ sender.pc = "handle" /\ c \in sender.batch
    /\ IF results[c].garbled
       THEN Returns(sender.batch \ {c})
       ELSE sender' = [sender EXCEPT !.pc = "send", !.answer = c,
                                     !.batch = @ \ {c}]
    /\ UNCHANGED <<main, link, inbox, reader, channel, streams, posts, acksLost,
                   faults>>

\* A result is acknowledged before it is said.  One that cannot be decoded is
\* not, and will be delivered again.
HandleResult(c) ==
    /\ sender.pc = "handle" /\ c \in sender.batch
    /\ IF results[c].garbled
       THEN Returns(sender.batch \ {c}) /\ UNCHANGED results
       ELSE /\ results' = [results EXCEPT ![c].status = "acked"]
            /\ sender' = [sender EXCEPT !.pc = "send", !.answer = c,
                                        !.batch = @ \ {c}]
    /\ UNCHANGED <<main, link, inbox, reader, channel, chat, commands, posts,
                   acksLost, faults>>

\* As EndOfPart, but the length decides.
HardCut(text, start) ==
    IF start + MaxLength > text.len THEN text.len ELSE start + MaxLength

\* Where the part that begins at start ends: at the end of the text if that is
\* near, else at the last space within the length, if there is one.
EndOfPart(text, start) ==
    LET end    == start + MaxLength
        spaces == {s \in text.spaces : start <= s /\ s < end}
    IN  IF text.len <= MaxLength \/ end > text.len THEN text.len
        ELSE IF spaces = {} THEN end
        ELSE CHOOSE s \in spaces : \A t \in spaces : t <= s

\* As StartAfter, but what a part ends at is taken for a space.
SkipOne(text, end) == end + 1

\* The space a part ends at is not said.
StartAfter(text, end) == IF end \in text.spaces THEN end + 1 ELSE end

\* One Privmsg of Send.  A part goes nowhere if the bot has not joined the
\* channel; if there is no connection it is an error, and Send gives up.
SendPart ==
    LET c    == sender.answer
        text == results[c].text
        end  == EndOfPart(text, sender.start)
        next == StartAfter(text, end)
    IN  /\ sender.pc = "send"
        /\ said' = IF link = "joined"
                   THEN [said EXCEPT ![c] =
                            Append(@, [from |-> sender.start, to |-> end])]
                   ELSE said
        /\ IF link # "down" /\ next < text.len
           THEN sender' = [sender EXCEPT !.start = next]
           ELSE Returns(sender.batch)
        /\ UNCHANGED <<main, link, inbox, reader, spoken, streams, posts,
                       acksLost, faults>>

SenderStep == FetchResults \/ SendPart \/ \E c \in Commands : HandleResult(c)

------------------------------------------------------------------------------
(* The Discord bot.                                                        *)

\* Its handler sends a result to Discord, which knows no such channel, and does
\* not acknowledge it.
DiscordFetches(c) ==
    /\ results[c].status = "waiting"
    /\ results' = [results EXCEPT ![c].status = "discord"]
    /\ UNCHANGED <<ircBot, channel, chat, commands, posts, acksLost, faults>>

\* Each message is handled by a goroutine of its own, which publishes it.
DiscordHears(p) ==
    /\ posts[p] = "none"
    /\ posts' = [posts EXCEPT ![p] = "heard"]
    /\ UNCHANGED <<ircBot, channel, streams, acksLost, faults>>

DiscordPublishes(p) ==
    /\ posts[p] = "heard"
    /\ posts' = [posts EXCEPT ![p] = "done"]
    /\ chat' = Append(chat, [from |-> "discord", id |-> p])
    /\ UNCHANGED <<ircBot, channel, commands, results, acksLost, faults>>

------------------------------------------------------------------------------
(* Users, whoever answers commands, and JetStream.                         *)

Speak ==
    /\ spoken < MaxLines
    /\ spoken' = spoken + 1
    /\ inbox' = IF link = "joined" THEN Append(inbox, spoken') ELSE inbox
    /\ UNCHANGED <<main, link, reader, sender, said, streams, posts, acksLost,
                   faults>>

Answer(c) ==
    /\ c \in commands /\ results[c] = NoResult
    /\ \/ \E text \in Texts : results' = [results EXCEPT ![c] =
              [NoResult EXCEPT !.status = "waiting", !.text = text]]
       \/ results' = [results EXCEPT ![c] =
              [NoResult EXCEPT !.status = "waiting", !.garbled = TRUE]]
    /\ UNCHANGED <<ircBot, channel, chat, commands, posts, acksLost, faults>>

AckWaitPasses(c) ==
    /\ results[c].status \in {"irc", "discord"}
    /\ results' = [results EXCEPT ![c].status = "waiting"]
    /\ UNCHANGED <<ircBot, channel, chat, commands, posts, acksLost, faults>>

------------------------------------------------------------------------------
(* Faults.                                                                 *)

Fault == faults < MaxFaults /\ faults' = faults + 1

IRCBotRestarts ==
    /\ Fault
    /\ main' = "start" /\ link' = "down" /\ inbox' = <<>>
    /\ reader' = IdleReader
    /\ sender' = SenderAt("off")
    /\ UNCHANGED <<channel, streams, posts, acksLost>>

Disconnect ==
    /\ Fault
    /\ link # "down"
    /\ link' = "down" /\ inbox' = <<>>
    /\ UNCHANGED <<main, reader, sender, channel, streams, posts, acksLost>>

\* As PublishFails, but what may have been stored is published again.
PublishAgain ==
    /\ Fault
    /\ reader.pc = "chat"
    /\ chat' = Append(chat, [from |-> "irc", id |-> reader.line])
    /\ UNCHANGED <<main, link, inbox, reader, sender, channel, commands, results,
                   posts, acksLost>>

\* The bots go on, and the event is lost.
PublishFails ==
    /\ Fault
    /\ \/ reader.pc # "idle" /\ NextCallback /\ UNCHANGED posts
       \/ \E p \in Posts : /\ posts[p] = "heard"
                           /\ posts' = [posts EXCEPT ![p] = "done"]
                           /\ UNCHANGED reader
    /\ UNCHANGED <<main, link, inbox, sender, channel, streams, acksLost>>

\* Ack fails and the handler returns; or it does not, and its message is lost.
AckFails(c) ==
    /\ Fault
    /\ sender.pc = "handle" /\ c \in sender.batch /\ ~results[c].garbled
    /\ \/ Returns(sender.batch \ {c}) /\ UNCHANGED acksLost
       \/ /\ sender' = [sender EXCEPT !.pc = "send", !.answer = c,
                                      !.batch = @ \ {c}]
          /\ acksLost' = TRUE
    /\ UNCHANGED <<main, link, inbox, reader, channel, streams, posts>>

FaultStep ==
    \/ IRCBotRestarts
    \/ Disconnect
    \/ PublishFails
    \/ \E c \in Commands : AckFails(c)

------------------------------------------------------------------------------
Next ==
    \/ MainStep \/ ReaderStep \/ SenderStep
    \/ \E c \in Commands : DiscordFetches(c)
    \/ \E p \in Posts : DiscordHears(p) \/ DiscordPublishes(p)
    \/ Speak
    \/ \E c \in Commands : Answer(c) \/ AckWaitPasses(c)
    \/ FaultStep

Spec == Init /\ [][Next]_vars

\* The IRC bot gets on, commands are answered, ack waits pass.  Nobody has to
\* speak, and which of the two bots gets a result is up to JetStream.
Fairness ==
    /\ WF_vars(MainStep) /\ WF_vars(ReaderStep) /\ WF_vars(SenderStep)
    /\ \A c \in Commands : WF_vars(Answer(c)) /\ WF_vars(AckWaitPasses(c))
    /\ \A p \in Posts : WF_vars(DiscordPublishes(p))

FairSpec == Spec /\ Fairness

------------------------------------------------------------------------------
(* The bots, the channel and the streams hold values of their types.       *)
TypeOK ==
    /\ main \in {"start", "connected", "listening"}
    /\ link \in Links
    /\ inbox \in Seq(Lines)
    /\ reader \in Reader
    /\ sender \in Sender
    /\ spoken \in {0} \union Lines
    /\ said \in [Commands -> Seq(Part)]
    /\ chat \in Seq(Event)
    /\ commands \in SUBSET Commands
    /\ results \in [Commands -> Result]
    /\ posts \in [Posts -> {"none", "heard", "done"}]
    /\ acksLost \in BOOLEAN
    /\ faults \in 0..MaxFaults

\* Whatever is delivered again, and whoever crashes: no part of an answer is
\* said twice, and the parts come in the order of the text.  Only a lost
\* acknowledgement can undo that.
AnsweredOnce ==
    ~acksLost => \A c \in Commands : \A i, j \in DOMAIN said[c] :
        i < j => said[c][i].to <= said[c][j].from

\* No part is longer than the server takes, and an answer is only cut within a
\* word if the word alone is too long.
CutBetweenWords ==
    \A c \in Commands : \A i \in DOMAIN said[c] :
        LET part == said[c][i]
            text == results[c].text
        IN  /\ part.to - part.from <= MaxLength
            /\ \/ part.to \in text.spaces \union {text.len}
               \/ /\ part.to - part.from = MaxLength
                  /\ text.spaces \intersect part.from..part.to = {}

\* Until something fails nothing of an answer is left out but the spaces it is
\* cut at: it begins with the text, each part goes on where the one before
\* ended, and once the bot turns to something else the text is at its end.
Saying(c) == sender.pc = "send" /\ sender.answer = c
Follows(text, to, from) == from = to \/ (from = to + 1 /\ to \in text.spaces)
Whole(c) ==
    LET text  == results[c].text
        parts == said[c]
        last  == Len(parts)
    IN  parts # <<>> =>
        /\ parts[1].from = 0
        /\ \A i \in 2..last : Follows(text, parts[i - 1].to, parts[i].from)
        /\ ~Saying(c) => Follows(text, parts[last].to, text.len)
NothingIsLeftOut == faults = 0 => \A c \in Commands : Whole(c)

\* The lines of the channel are recorded in the order in which they were said,
\* none twice, and until something fails none is left out between two others.
Recorded(i) == chat[i].from = "irc"
RecordedInOrder ==
    \A i, j \in DOMAIN chat :
        (i < j /\ Recorded(i) /\ Recorded(j)) =>
        /\ chat[i].id < chat[j].id
        /\ (faults = 0 /\ \A k \in (i + 1)..(j - 1) : ~Recorded(k))
           => chat[j].id = chat[i].id + 1

\* Until something fails, every command that was published is answered to the
\* last word in the end, if the answer can be decoded and the Discord bot does
\* not take it away again and again.
Answered(c) == said[c] # <<>> /\ said[c][Len(said[c])].to >= results[c].text.len - 1
EveryCommandIsAnswered ==
    \A c \in Commands :
        \/ []<>(results[c].status = "discord")
        \/ c \in commands ~> (Answered(c) \/ results[c].garbled \/ faults > 0)
==============================================================================
