# Threadr in TLA+

Threadr runs chat bots for many tenants and turns what they read into a
per-tenant database of messages, people, relationships and conversations.  The
specifications in this directory model the parts of it where several processes,
pods or programs share state without a lock or a transaction around what they
do.  Paths below are relative to the repository; line numbers are those of the
`map` and the `hazards` in `PROJECT.json`.

    elixir/threadr/lib/threadr/control_plane/   bots, operations, dispatcher, callbacks
    k8s/operators/ircbot-operator/internal/     the Kubernetes operator
    elixir/threadr/lib/threadr/messaging/       JetStream, Broadway
    elixir/threadr/lib/threadr/tenant_data/     what a tenant's events become
    cmd/bots/, pkg/adapters/                    the older bots, in Go

## 1. Inventory

The flow in one paragraph.  A tenant asks the **control plane** for a bot.  The
request changes the bot's row and inserts an operation into an outbox; the
**dispatcher** works the outbox off and publishes, for each operation, a contract
with an increasing generation.  The **operator**, in Kubernetes, lists the
contracts over HTTP, turns each into a ThreadrBot resource and that into a
Deployment, and reports back what became of it, naming the generation.  The bot
pod connects to IRC or Discord and publishes envelopes to **JetStream**.  A
**status observer** reads the Deployments itself and reports as well.  The
**pipeline** consumes them in batches: chat messages become rows, relationship
weights, graph edges and conversations; commands are recorded and executed.
**Dispatchers** poll the tenants for summaries, reviews and relationships still
to be computed.  An older generation of the system is still in the repository and
still built: bots in Go, and a controller of the operator that runs them from
**IRCBot** resources, without the control plane.

| component | state it keeps | operations | what makes it hard | what makes it correct |
|---|---|---|---|---|
| Bot control plane (`bot.ex`, `changes/*`, `service.ex` bot functions, `bot_reconcile_operation.ex`, `bot_controller_contract.ex`, `bot_operation_dispatcher.ex`, `kubernetes_bot_reconciler.ex`, `bot_image_drift_syncer.ex`) | tables `bots`, `bot_reconcile_operations`, `bot_controller_contracts`; in memory a copy of a row per request and a listed batch per dispatcher | create, update, delete, image-drift pass, status callback, dispatch, retry, give up | every statement is on its own; saves go through from stale copies and write only what the copy changed; the dispatcher may die anywhere; retries republish | no operation is tried twice at once, too often or after it settled; every operation settles; what was acknowledged is published; generations count up and old observations are not taken for new ones |
| Operator (`threadrbot_contract_syncer.go`, `threadrbot_controller.go`, `controlplane/client.go`) | ThreadrBot resources and their status, Deployments; a cache and a work queue in memory | syncer pass (list, apply, delete orphans), reconcile pass (create, update, delete the Deployment, write the status, report it) | two loops write one object; both read from caches that lag; Kubernetes rolls out in its own time; requests fail between two writes | the Deployment ends up as the last contract says; a status is about the spec it stands beside; nothing comes back after a deletion; only orphans are deleted |
| Message pipeline (`messaging/pipeline.ex`, `topology.ex`, `setup.ex`) | the durable consumer's position with every message; the batch a processor has in hand | deliver, handle, acknowledge or refuse | redelivery at any time, also of what is being handled or waits in a slow batch; pods that die with a batch | nothing is lost, nothing is handled for ever |
| Command handler (`handlers/commands.ex`) | `command_executions` | record, claim, execute, finish | a crash between claiming and finishing; two deliveries of one command | a command is executed at most once |
| Tenant ingest (`tenant_data/ingest.ex`, `graph.ex` writes) | actors, channels, messages, mentions, observations, relationships, aliases, graph | persist a chat message or context event | find-or-create in two statements; counters read and written back | a message counts once, whatever is delivered again |
| Status observer (`bot_status_observer.ex`) | none | poll Deployments, report on each bot | a second writer of bot status, with an old copy and no generation | does not take a generation for observed that is not; what it overwrites is put right |
| Tenant migrations (`tenant_migration_dispatcher.ex`) | migration status per tenant | poll, migrate a batch | every pod runs it; the listing is cut before it is filtered | every tenant is migrated, once |
| Conversations (`conversation_attachment.ex`, `pending_item_tracking.ex`) | conversations, memberships, pending items | attach a message, open, satisfy and expire items | messages arrive out of order and again | bounds and counts match the members |
| Summary, cluster-review and relationship dispatchers | "stale" marks on conversations | poll tenants, spend a shared batch budget | a mark set while the work runs; tenants behind busy ones | no mark is lost, no tenant starves |
| IRC agent, Discord consumer | connection state | connect, join, publish events | identifiers that must be the same on a replay | a reconnect neither loses nor doubles events |
| Go bots (`pkg/adapters`, `cmd/bots`) | three JetStream streams (chat, commands, results) and one durable consumer that both bots share; in the IRC bot a connection and three goroutines | connect, join, record a line, publish a command, fetch a result and say it in parts | two callbacks per line, acknowledgement before the answer is said, a consumer shared with the Discord bot, redelivery | an answer is said once and in order, cut between words; lines are recorded in order; every command is answered |
| IRCBot operator (`ircbot_controller.go`) | one Deployment per resource, its status; the Jobs that carry its label are made by others | observe, write the status three times, trim the Jobs, reconcile the Deployment | one copy for the whole pass, caches that lag, events of the resource only | a status is about the spec it stands beside; the Deployment ends up as the spec says |
| Control-plane service, other functions | tenants, memberships, keys, LLM settings | validated single-row writes | authorization, no protocol | out of scope here |
| Web interface and API controllers | none | decode, call, render | none of its own | enters as requests and callbacks |
| Question answering, retrieval, extraction, generation | none that lasts | model calls, ranking | the data decides | nothing a model checker would add |
| Graph snapshots and layout | none | read-only views | none | as above |

`PROJECT.json` lists the hazards of this code at their lines, with the properties
that watch each; where no property does yet, a note says why.

## 2. The modules

| module | models | state ↔ code |
|---|---|---|
| `BotRecord` | one bot's row, its state machine, and what one save writes | `BotRow` ↔ the attributes in `bot.ex`; `Save` writes the fields in which the changed copy differs from the copy that was read, which is what an Ash changeset sends |
| `BotControlPlane` | requests, drift passes, callbacks, the observer and dispatchers over the three tables | `bots`, `ops`, `contracts` ↔ the tables; `calls`, `reports`, `workers` ↔ the processes, each with a `pc` and the copies it holds; one action per database statement, named after the function that makes it |
| `OperationOutbox` | what the outbox promises, one row at a time | abstract: `Insert`, `Claim`, `Dispatch`, `Requeue`, `GiveUp` |
| `ContractFeed` | what the control plane and the operator agree on | abstract: `Publish`, `Record`, `Withdraw`, and which reports are taken (`Accepts`) |
| `BotOperator` | both loops of the operator, its cache, and as much of Kubernetes as they meet | `resources`, `deployments` ↔ the API server; `cache`, `queue` ↔ the manager's; `syncer`, `reconciler` ↔ a pass of each loop; `pods` ↔ what really runs; `feed`, `recorded`, `ended` ↔ the control plane, by `ContractFeed` |
| `IRCBotOperator` | the IRCBot controller, its cache and queue | `bot`, `jobs`, `deployment` ↔ the API server; `pass` ↔ a call of `Reconcile` and the copy it read |
| `ChatBots` | the IRC bot and the Discord bot in Go, the channel and the streams | `main`, `reader`, `sender` ↔ the goroutines; `chat`, `commands`, `results` ↔ the streams; `said` ↔ what the channel got |
| `MessagePipeline` | the consumer, the batch processors, chat ingest and the command handler | `stream` ↔ where the consumer is with a message; `handlers` ↔ a Broadway batch processor; `rows`, `weight`, `edge`, `commands` ↔ the tenant's tables and graph |
| `MC*` | instances for TLC: symmetry, texts, a later start (`ProvisionedInit`) | |
| `*_proofs` | the theorems of section 5 | a proof module beside each of `BotControlPlane`, `OperationOutbox`, `ContractFeed`, `BotOperator`, `IRCBotOperator`, `ChatBots`, `MessagePipeline` |

How they fit together.  `ContractFeed` is the interface between the two programs
that run a bot.  `BotControlPlane` implements it (`ImplementsFeed`: checked in
`lifecycle`, proved as `FeedImplemented`), and `BotOperator` has it as its
environment: `Feed == INSTANCE ContractFeed`, whose actions are the only way its
`feed` changes.  What is shown of the operator is therefore shown against any
control plane that keeps the interface, and this one does.  The two are not
multiplied into one state space; section 8 says what that leaves.

Conventions.  A process is a record with a `pc`; an action is named after the
function whose step it is; a `Fault` is bounded by `MaxFaults`.  Operators
marked *Mutant* (or "As X, but ...") are wrong variants of the definition that
follows them, used to see that a property can fail; no specification uses them.

**BotControlPlane.**  A request is `FetchBot`, `UpdateBot`, `RequestBotReconcile`
(or `BeginBotDelete`) and `EnqueueBotOperation`, four statements with everybody
else's in between.  Creation starts with `CreateBot`.  The drift pass reads bots,
contracts and operations in that order and then goes the way of a request.  A
callback validates against a copy (`FetchAndValidate`) and writes later
(`ApplyControllerBotStatus`, `DestroyBot`).  The observer (`ObserveBot`) writes the
status it found through the copy it listed, without a generation.  The dispatcher is `ListPending`,
`MarkProcessing`, `FetchAndReconcile`, `PersistControllerContract`,
`ApplyBotUpdates`, `MarkDispatched`, and on failure `HandleFailure`,
`MaybeMarkBotError`, `ReportBotError`.  Faults are a failing statement
(`CallFails`, `AttemptFails`, `BookkeepingFails`), a dispatcher that crashes and
is restarted by its supervisor, and a node that restarts, perhaps as a release
with another default image.  `clock` is `inserted_at`; `due` says whether
`next_attempt_at` has passed.

**BotOperator.**  Writes to the API server carry the resource version that was
read, so a write happens only if the object is still as it was in the cache; a
pass whose write is refused is a stutter (the bot goes back on the queue).
`DesiredDeployment`, `NeedsUpdate` and `PhaseFor` are the reconciler's pure
functions.  The control plane appears as `Publish`, `Record` and `Withdraw` of
`ContractFeed`: it publishes a document, and only later records its generation;
until it has, it may publish another document of that generation (`Republish`,
counted as a fault: it takes a failed attempt, says `GenerationNamesDocument`), and
a report about it is refused.  `ReportBotStatus` delivers a report if
`Feed!Accepts` it, and drops it otherwise, as the code does.

**IRCBotOperator.**  `Reconcile` reads the resource from the cache and ends early
if it is gone, being deleted or suspended.  Then come, each a request of its own:
`WriteLastMessageTime`, `WriteActiveJobs`, `DeleteJob` for each of `JobsToDelete`,
`WriteConnected`, and `ReconcileBotDeployment`, which creates or updates the
Deployment found in the cache.  Every status write goes by the copy of the start
and is refused if the resource is no longer that one.  Only events of the resource
queue it (`BotEvent`); the cached Deployment and Jobs follow in their own time
(`DependentEvent`).  Users create, edit, suspend and delete the resource, and make
it again under the same name, a *namesake*; others make Jobs and finish them; the
garbage collector takes a Deployment whose owner is gone.

**ChatBots.**  *main* is `Connect`, `SubscribeResults`, `Listen`, and after a lost
connection `Reconnect` and `JoinChannels`.  *reader* runs the callbacks of a line
one after the other: `PublishCommand` for one addressed to the bot, then
`PublishChat`, if main had registered it when the line came.  *sender* is
`FetchResults`, `HandleResult` (decode, acknowledge) and `SendPart` until the text is
said; `EndOfPart` and `StartAfter` are the arithmetic of the cut.  The Discord bot
publishes posts to the same chat stream and fetches results from the same durable
consumer, keeping them until `AckWaitPasses`.  A text is its length and where its
spaces are.

**MessagePipeline.**  The chats of an instance share author, channel and mentioned
actor, so that they collide in every row they can.  A handler looks for a row
(`Read`), makes it if it did not find it (`Create`, which the unique index may
refuse), and so on through six rows; a new observation makes it read the weight
(`Weigh`), write one more (`WriteWeight`) and hand the relationship to the graph
(`Sync`).  A command is `Find`, `Record`, `Claim`, `Run`, `Finish`.

## 3. The runs

All bounds are constants in the guards.  State counts are of distinct states.

| run | configuration | what it shows |
|---|---|---|
| `lifecycle` (1.61 M) | 1 bot, 2 calls, 1 callback or observation, 1 dispatcher, 1 failed attempt, 1 other fault | from an empty database: types; `GenerationFence`, the published generation is the recorded one or the next; `ObservedNotAhead`, no late callback makes a row claim a generation it does not desire yet; the refinement `ImplementsFeed` |
| `requests` (869 k) | running bot, 2 calls, 2 configs (one pins an image), 2 images, 2 failed attempts, 2 other faults | `AcknowledgedIsPublished`, `GenerationNamesDocument`, `GenerationsCountUp`, and the refinement `ImplementsOutbox` |
| `liveness` (45 k) | 2 calls, 3 failed attempts, no crash, fair | `EveryOperationSettles` |
| `stranded` (violated) | 1 call, 1 crash, fair | finding 1 |
| `undelete` (violated) | 2 calls, no fault | finding 2 |
| `operator_chain` (1.84 M) | 1 bot, 2 generations, 1 fault | types, `AtRestIsUpToDate`, `GenerationMeansContract`, `StatusIsOfSpec`, `SpecsGoForward`, `OnlyOrphansGo` |
| `operator_settles` (462 k) | 1 bot, 2 configs, 2 generations, no fault, fair | `EveryBotSettles` |
| `operator_rollout` (violated) | as above, unfair | finding 3 |
| `operator_deleted` (violated) | 1 generation, fair | finding 4 |
| `pipeline` (370 k) | 1 chat handler, 1 command handler, 2 chats in batches of 2, 1 command, 1 fault, fair | types, `NoMessageCountsTwice`, `AckedIsPersisted`, `CommandRunsAtMostOnce`, `AckedIsExecuted`, `OutcomeIsFinal`, `CountsAreExact`, `EveryMessageIsAcked` |
| `ircbots` (1.86 M) | 2 Jobs, 1 active at a time, history limit 1, 2 edits, 1 fault, fair | types, `AtRestIsDone`, `StatusIsOfSpec`, `BotSettles` |
| `chat_bots` (435 k) | 3 lines, two of them commands, 1 post, parts of 3, texts of 3 and 11, 1 fault, fair | types, `AnsweredOnce`, `NothingIsLeftOut`, `CutBetweenWords`, `RecordedInOrder`, `EveryCommandIsAnswered` |

Some of these are the safety half of a liveness property.  A controller is driven by
events; what it does not do now it does when its queue next has the bot.
`AtRestIsUpToDate` and `AtRestIsDone` say, as invariants, that whatever is not as it
should be is queued, in hand, or has an event coming, which is what fairness of the
queue then turns into `EveryBotSettles` and `BotSettles`.  `AckedIsExecuted` says of
the command handler what `EveryMessageIsAcked` leaves open, that acknowledged
commands have an outcome.  `GenerationMeansContract`, like `GenerationNamesDocument` of
the control plane, holds until something fails: a document that is published again
under its generation (`Republish`) gives it two meanings.

Why these bounds.  *One bot*: bots share nothing but the dispatcher's batch, and
everything that is said is said per bot.  *Two calls*: every known race in the
request code is between two requests, or a request and the dispatcher or a
callback; each call inserts one operation, so two operations queue behind each
other.  *Two attempts, at most three failures*: an operation is retried and is
given up, while the other waits in backoff or is listed with it (`BatchSize = 2`).
*Two other faults*: a crash in the repair of a crash, or a crash and a restart
with another image.  *Two generations* is a replaced spec, the least for a status,
Deployment or report to be of another one.  *Two chats in a batch of two, one
processor*: redelivery of what is at hand, or waits in the batch, needs no second
processor.  What two do to each other is not in the run: of two chat processors it is
covered by the theorems `AcknowledgedArePersisted` and `MessagesCountOnce`, which are for any
number; of two command processors it is assumed away (`OneCommandHandler`).  *One fault* there is a failing statement or a crash at every
row.  *Two Jobs and a limit of one* is one Job too many, and *one active Job* makes
the count the pass found differ from the one recorded, all that it decides (the theorems are
for any number); *two edits* is a
resource that was changed, suspended, or deleted and made again while a pass has the
first in hand.  *Texts of 3 and 11 with parts of 3*: one that just fits, and one
with a word that is too long, spaces at the edge of a part and a last part that
is short.

Deadlock is checked except in `pipeline`, `ircbots` and `chat_bots`, which stop when
every message is acknowledged, when nobody edits any more, and when nobody says
anything; their configurations say so.  In the other modules somebody can always
act (the dispatcher polls, the syncer lists).  Symmetry is used for safety only.

### Fairness

`BotControlPlane`: weak fairness of each request, callback and dispatcher step and
of the backoff.  A dispatcher polls by `Process.send_after` and handles one message
at a time (`bot_operation_dispatcher.ex:29`); a supervisor restarts it; requests
run in processes that nothing suspends.  Making a request and failing are not fair.

`BotOperator`: weak fairness of the syncer (a ticker), the reconciler (a work queue
with retry), each watch event, Kubernetes's controllers, and `Record`: a generation
that was published is recorded.  That is what the dispatcher's next statement
does, and `EveryOperationSettles` says it gets there when no process dies, which is
how `EveryBotSettles` is stated.  Publishing is not fair.

`IRCBotOperator`: weak fairness of the pass (the work queue), of the events and of
Kubernetes.  Users and those who make Jobs need do nothing.

`ChatBots`: weak fairness of main, reader and sender (goroutines in loops), of the
answer to a published command, of the ack wait, and of the Discord bot's publish.  Nobody
need say anything, and which bot gets a result is left open: a Discord bot that
always gets it is the exception that `EveryCommandIsAnswered` names.

`MessagePipeline`: weak fairness of each handler, of the consumer's delivery and of
the ack wait of each message.  Nothing makes a fault, and the bound on faults
means that a statement does not fail for ever.

## 4. Findings

1. *A crash strands an operation* (`stranded`).  The dispatcher marks a row
   `processing` and lists only `pending` ones; nothing takes up a `processing` row
   again, and the drift pass skips its bot.
2. *An update that overlaps a deletion undoes its document* (`undelete`).  In the run
   the update reads a running bot, the deletion writes `deleted`, and the update
   writes `stopped` over it.  The delete operation publishes what the row says:
   operation `delete`, desired state `stopped`.  The other two ways there are an
   update that reads the bot after the deletion's first write and sets it back to
   `running`, and a bot that was stopped and is updated to `running`, which the
   instance, of a running bot, does not start from.  The update need not fail:
   `request_bot_reconcile` looks at the status in its own copy, which is not yet
   `deleting` if it was read before `begin_bot_delete`.
3. *Running is reported before the rollout* (`operator_rollout`).  `phaseFor` reads
   a Deployment status that may still be of the spec before.
4. *Deleted is never reported* (`operator_deleted`).  The operator says `deleting`
   once and nothing else, so the control plane never removes the bot.

More was met and is not a run of its own: no document of the repository says the
opposite in so many words, or a property is stated so that it says what does hold.

* Control plane: the observer may overwrite `deleting` with what it last saw
  (`bot_status_observer.ex:110`).  After a failed attempt one generation may name
  two documents, one after the other.
* Operator: a report that is refused because the generation is not recorded yet,
  or is lost, is not sent again: the resource's status is written before the report
  and is unchanged in the next pass (`threadrbot_controller.go:422`).
  `EveryBotSettles` excepts it for the report, not for the Deployment.
* Pipeline: counts get lost, though never added.  A crash between the observation and
  the weight leaves an observation that a redelivery finds and does not count
  (`ingest.ex:630`), and two pods that read the same weight write the same sum
  (`ingest.ex:762`).  `CountsAreExact` is for one processor without faults,
  `NoMessageCountsTwice` always.
* IRCBot operator: past the limit the cleanup deletes every listed Job, active ones
  too (`ircbot_controller.go:205`).  Its comment speaks of "old jobs exceeding history
  limits" (`:201`), and the field's of "the number of messages to keep in memory"
  (`ircbot_types.go:54`): which Jobs are to stay nobody says, so no property is
  stated of them.  The
  Deployment of a deleted namesake is updated, then garbage collected, and
  nothing makes another (`:186`).  A suspended bot keeps running (`:66`).  The status says
  connected before there is a Deployment, and each write of the time is an event
  that starts the next pass.
* Go bots: the Discord bot takes answers and never acknowledges them
  (`cmd/bots/discord/main.go:56`).  An answer is acknowledged before it is said
  and is lost if the bot stops or is not in the channel.  Commands are published
  with the context of the start-up, which ends after ten seconds
  (`cmd/bots/IRC/main.go:26`); whether that matters depends on the client library.

## 5. What is proved

Every safety property of every passing run is a theorem of its specification, for
all values of the constants that satisfy the module's assumption
(`ControlPlaneAssumption`, `OperatorAssumption`, `IRCBotAssumption`,
`ChatBotsAssumption`, `PipelineAssumption`: limits are positive where zero makes no
sense, bounds are natural numbers, model values are distinct; a text's spaces are
within it).  TLC evaluates them on every run.  Where a theorem needs one
dispatcher, one chat processor or one command processor it says so as a
hypothesis (`OneDispatcher`, `OneChatHandler`, `OneCommandHandler`).

| module | theorem | property | holds for |
|---|---|---|---|
| `BotControlPlane_proofs` | `TypeCorrect` | `TypeOK` | any number of bots, calls, callbacks, dispatchers |
| | `GenerationsStayClose` | `GenerationFence` | one dispatcher |
| | `ObservationsLag` | `ObservedNotAhead` | one dispatcher |
| | `GenerationsNeverFall` | `GenerationsCountUp` | one dispatcher |
| `OperationOutbox_proofs` | `OutboxImplemented` | `ImplementsOutbox` | one dispatcher |
| | `AcknowledgedArePublished` | `AcknowledgedIsPublished` | one dispatcher |
| `ContractFeed_proofs` | `FeedImplemented` | `ImplementsFeed` | one dispatcher |
| | `OneDocumentPerGeneration` | `GenerationNamesDocument` | one dispatcher |
| `BotOperator_proofs` | `OperatorTypeCorrect` | `TypeOK` | any number of bots, generations, faults |
| | `StatusesAreOfSpecs` | `StatusIsOfSpec` | the same |
| | `OrphansOnlyGo` | `OnlyOrphansGo` | the same |
| | `DeploymentsGoForward` | `SpecsGoForward` | the same |
| | `RestIsUpToDate` | `AtRestIsUpToDate` | the same |
| | `GenerationsMeanContracts` | `GenerationMeansContract` | the same |
| `IRCBotOperator_proofs` | `IRCBotTypeCorrect` | `TypeOK` | any number of edits, Jobs, faults, any limit |
| | `StatusesAreOfSpecs` | `StatusIsOfSpec` | the same |
| | `RestIsDone` | `AtRestIsDone` | the same |
| `ChatBots_proofs` | `ChatBotsTypeCorrect` | `TypeOK` | any number of lines, commands, faults, any texts |
| | `AnswersAreSaidOnce` | `AnsweredOnce` | the same |
| | `AnswersAreCutBetweenWords` | `CutBetweenWords` | the same |
| | `LinesAreRecordedInOrder` | `RecordedInOrder` | the same |
| | `AnswersAreSaidWhole` | `NothingIsLeftOut` | the same |
| `MessagePipeline_proofs` | `PipelineTypeCorrect` | `TypeOK` | any number of pods, messages, faults |
| | `AcknowledgedArePersisted` | `AckedIsPersisted` | the same |
| | `MessagesCountOnce` | `NoMessageCountsTwice` | the same |
| | `CommandsRunOnce` | `CommandRunsAtMostOnce` | one command processor, any redelivery and crash |
| | `AcknowledgedAreExecuted` | `AckedIsExecuted` | the same |
| | `OutcomesAreFinal` | `OutcomeIsFinal` | the same |
| | `CountsStayExact` | `CountsAreExact` | one chat processor, any redelivery |

*Types* (`TypeInv`).  `TypeOK` is not inductive: a step reads a process's bot or
message, so the invariant adds that an active call has a bot, a busy dispatcher an
operation and a bot, and a processor a message of its own kind.

*Generations* (`GenInv`).  No statement locks a row, so that the published
generation is close to the recorded one rests on who writes it: only the dispatcher
records a generation.  Its copy's generation is hence the row's until it
records the next, and once it has published it is one ahead of it (`WorkerGen`); a callback was
validated against a row whose generation cannot have fallen since (`ReportGen`).
A save from a stale copy does no harm because it sends only changed fields
(`SaveKept`).  With two dispatchers the first of these fails.

*Outbox* (`OutInv`).  The dispatcher settles an operation from what it remembers of
it.  The invariant says that its memory is what the row says: a claimed operation is
`processing` with the attempts it remembers, and everything left in its batch is
still `pending`.  Every step then is one of `OperationOutbox`, or a stutter
(`OutMove`, `OutStep`).

*Publication* (`AckInv` of `OperationOutbox_proofs`).  That what was acknowledged is
published at the end is a claim about every process's copy at once.  The invariant
says, for a bot that exists: either a publication is still owed, because a
request about it is under way or has failed, or an operation is open that its worker
has not taken the row for yet; or what is about to be published (the copy at `upsert`),
or else the contract, says what the row says.  A request leaves the first
disjunct only by inserting its operation, and the operation only by the worker's
read of the row, which establishes the second.

*The feed* (`FeedInv`, `NamesInv`).  Every statement of the control plane is a step of
`ContractFeed` or a stutter, because the dispatcher's copy has the recorded
generation (`GenInv`) and a row that is gone stays gone.  For the second theorem,
until something fails a document ahead of the recorded generation is about to be
recorded by the dispatcher, whose next publication is then of the next number.

*The operator* (`OperatorInv`, `Ordered`).  A pass's copy of a resource whose
generation is still the resource's has its spec, so the write of a status, refused
otherwise, is about the spec beside it.  A bot that a whole list left out, and that
has a resource, is a withdrawn one, and `ContractFeed` lets none of these come back:
the syncer's orphans are among the ended bots (`SyncerInv`).  `Ordered` is the chain
behind `SpecsGoForward`: contract, listed document, resource and cached resource are
each no older than the next, as far as they are there, and none of them is older than
the Deployment, the last report, or the report under way.

*Rest* (`RestInv` of `BotOperator_proofs`).  `AtRestIsUpToDate` is far from inductive: it
says nothing of a bot that a pass is busy with.  The invariant says of every bot that
it is attended to: it is on the queue; or in hand, with a status to be written to the
resource the cache has; or reported about, and the resource ahead of the cache,
so that its event will queue it; or dealt with.  Dealt with means that the last pass
handled what the cache has (`Handled`): the Deployment is as the cached spec asks, or
has left the cached Deployment behind, and that event queues the bot again.  A
refused write is a stutter or `Retry`, which leaves the bot on the queue.  At rest
the cache is current, which leaves only the last case, without its exceptions.

*Meaning* (`MeansInv`, from `Ordered`).  A document is new to everybody when it is
published: while nothing fails its generation is one more than the last, and all
copies, the Deployment and the reports are of the last at most (`Ordered`).  From
then on what carries its generation was copied from it.

*The IRCBot operator* (`IRCBotInv`).  The copy a pass works from is of a resource that
was neither suspended nor being deleted (`Taken`), and a status write goes through
only if the resource still is that copy.  `RestInv` is as above, with two differences: the
cached Deployment may never catch up, because no event of it queues anything, so the
claim about it is that what is there is of the resource's generation once a pass has
ended; and a Deployment may be a namesake's, which is why the invariant orders the
resources of one name, and the owner of the Deployment among them (`NumbersInv`).

*The Go bots* (`BotsInv`, `OnceInv`, `Cut`, `OrderInv` and `NoGap`).  An answer that was
begun is acknowledged, and what was said of the one at hand ends no later than where
the sender is; the acknowledgement before the first part is what keeps it
so, and why the theorem is about behaviours that lose none.  A part ends at a
space, the text's end, or the length with no space within it, by cases on
`EndOfPart`.  The lines in the stream, the line at hand and the lines in the inbox
are increasing in that order.  That an answer is whole (`WholeInv`) joins the two: until
something fails the bot is in the channel when it speaks (`JoinedFirst`), and the next
part starts where the last one ended, or one further if a space is there
(`OnTrack`); when it is no longer being said, that place is the end of the text.

*Acknowledgement* (`AckInv` of `MessagePipeline_proofs`).  Rows are never deleted, so what a processor has seen
stays true: what it counts as handled is stored, and of the message at hand
every row it is past.  The batch is acknowledged message by message, from that.

*Counting* (`CountInv`).  The weight is read and written in two statements, so the
weight may fall; the claim is that it never exceeds the observations.  The invariant
keeps room for each processor that has made an observation and not yet counted it:
the weight, its edge in the graph, and any weight a processor has read, plus the number
of these processors, is at most the number of observations.  A stale sum is too small, never too
large.

*Exactness* (`ExactInv`).  As long as nothing failed, the weight and the edge equal the
observations except while the one processor is between making an observation and
syncing it: then the weight lags by one until it is written, what it read is the
weight, and the edge lags until it is synced.

*Commands* (`RunInv`).  A command that is not claimed has not run, and the processor
about to run it has claimed it.  Two processors may both find it `received` and both
claim it (`commands.ex` compares nothing), which is why the theorem is for one.  An outcome is that of one run because only the
processor that ran it writes it, and what it has at hand is claimed, never finished.
Until something fails a claimed command is being run (`ExecInv`), so no processor
finds one claimed and calls it handled; after a crash one may, and the command is
acknowledged without having run: `AckedIsExecuted` says so by leaving it out.

## 6. What is only model-checked

The five liveness properties (`EveryOperationSettles`, `EveryBotSettles`,
`EveryMessageIsAcked`, `BotSettles`, `EveryCommandIsAnswered`): proofs under
fairness are out of the prover's reach.  Everything else that a passing run checks
is proved too.

## 7. What is not modelled, and why

* *Two dispatchers.*  `mark_processing` compares nothing, so two would claim one
  row; the deployment avoids it (one replica, `Recreate`; the worker's configuration
  turns the dispatcher off).  The model allows any number; properties and theorems
  that need one say so.
* *A missing bot row.*  `fetch_bot` falls back to the payload; what then happens
  is left open in `FetchAndReconcile` (crash, failure or dispatch).
* *Documents.*  A contract is the desired state, the settings, the image and the
  generation; a chat has one mention; a Go bot's text is its length and its
  spaces, and characters of several bytes are not told apart.  Aliases, context
  events, co-mentions, embeddings, extraction and timestamps are left out of the
  ingest; what follows the relationship's edge cannot fail the message (its
  errors are logged).
* *Kubernetes, JetStream, Broadway and the IRC library* are modelled from how the code
  uses them and are marked external.  The consumer has no delivery limit
  (`topology.ex:86`).
* *Namespaces, resources made by hand, malformed payloads*: no state of theirs
  meets the rest.
* *Code that no program runs*: `pkg/adapters/messages/batch_processor.go`, the Mistral
  handler and the composite message handler are constructed nowhere.
  `pkg/api/user/user.go` is imported by nothing and does not compile, and the
  `natsctl` commands call a package the repository does not have.
* *Code without state of its own*: the API's middleware and claims (Firebase),
  `zz_generated.deepcopy.go` (generated), `cmd/threadrbot-smoke` (drives a test
  against a live cluster), the web interface, retrieval, extraction and generation, graph views.

## 8. Plan

In this order:

1. `BotSystem`: `BotControlPlane` and `BotOperator` composed over `ContractFeed`,
   for the end-to-end liveness that neither shows alone: what is acknowledged is
   running.  Safety carries over by the interface already.  Abstract
   specification `DesiredBot`: request, converge, report.
2. `Conversations`: attachment and pending items under reordering and replay, with
   the bounds of a conversation against its members.
3. `TenantDispatchers`: the migration dispatcher's cut listing and the shared budget
   of the three conversation dispatchers; starvation and lost marks.  The outbox's
   own cut listing (`bot_operation_dispatcher.ex:84`) as a case of it.
4. `ChatAgent`: the Elixir IRC agent and Discord consumer, with the identifiers of
   their events over reconnects.

Theorems to come: the refinement of `DesiredBot`; bounds of a conversation; no mark
lost by a dispatcher.  Runs that have said what they had to say are merged with
later ones, to keep the whole quick to run.
