# A verification project for AutoService

AutoService lets a customer talk to a Claude Code agent while human operators
watch, advise, or take over. This directory holds TLA+ models of the parts that
run concurrently and of the rules the sequential parts decide by, the TLC
configurations that check small instances of them, and theorems that TLAPS checks
for every instance.
Paths below are relative to `src/`.

## 1. The system

Everything runs in asyncio: a coroutine runs alone until it awaits something
that really suspends. So the interleavings are those of the code between awaits,
and the state read before an await may be stale after it.

| Component | State | Operations | Talks to | What is hard |
|---|---|---|---|---|
| Conversation engine, `autoservice/conversation_engine/local_engine.py` | conversations (state, mode, participants, resolution), messages and events with per-conversation counters, timers, one mode lock per conversation, subscribers | create, close, set_csat, join, leave, switch_mode, send/edit/delete_message, handle_command, timers, subscribe, hooks | plugins (hooks, awaited), gateway, timers' own tasks | calls suspended in a hook while others change the conversation; the mode lock held across hooks; timers firing around a close; numbering across re-creation |
| Instance pool, `socialware/pool.py`, `autoservice/cc_pool.py` | queue of available instances, dictionary of all, sticky bindings, two locks | start, shutdown, checkout, checkin, acquire/release_sticky, health loop, refill | Claude Code processes (factory, disconnect) | two locks, none of them held over a whole call; failing factories; a health loop and a shutdown that race with calls |
| WebSocket gateway, `autoservice/web_gateway.py`, `autoservice/gateway/` | open sockets, subscription registry with a fan-out task each, reply and rating tasks; in the browser the last-seen cursor | handshake and replay, frames of customers and operators, broadcast, agent reply, csat push | engine, squad plugin, pool, `frontend/packages/ws-client` | dead sockets in the middle of a broadcast, reconnects, backlog against live events, visibility |
| Event bus, `conversation_engine/event_bus.py` | write queue, SQLite log, subscribers | emit, subscribe, query, flush, close | aiosqlite's thread | batches in flight at a query or a close, backlog against live events |
| Feishu channel server, `channels/feishu/channel_server.py`, `channel.py` | instances, exact/prefix/pool routes, observers; remembered message ids, chat modes, discuss sessions, streamed replies | register, route, observe, commands, stream and edit replies | Claude Code instances over WebSocket, the pool, Feishu | both ends of a connection notice its loss at their own time; routes by name; duplicate deliveries; overlapping calls of Feishu |
| Web channel, `channels/web/` | access codes, tokens, bridge to the channel server, chat sockets | login, logout, purge, relay, save and load | channel server, browsers | expiry against use, crashes between and within saves |
| Knowledge base, `skills/knowledge-base/scripts/` | SQLite table of chunks, full-text index kept by triggers | ingest files and sites, search | agents, `plugin_kb.py` | several processes, documents that change, death between delete and save |
| Proposals and canary, `proposal_pipeline.py`, `canary*.py`, `rollback_command.py`, `low_peak_scheduler.py`, `memory_pool.py`, `morning_push.py` | turns, proposals, rollout stage and clock, quiet-period flag | record, run, approve, reject, advance, roll back | `api_routes.py`, SQLite | runs that overlap in the analyzer, clocks reset or not, restarts |
| Reply generation, `triage.py`, `model_router.py`, `placeholder_stream.py`, `sentiment.py` | placeholders and answers of a conversation | classify, route, reply, edit | engine's messages | weights and thresholds that never decide; the slow model failing after the placeholder |
| Question routing, `skills/*/scripts/route_query.py` | - | route | knowledge base | keyword tables, order of rows |
| Monitoring and billing, `sla_aggregator.py`, `alert_engine.py`, `billing*.py` | ring buffers, last alerts, counters, month snapshots | record, evaluate, close month, bill | - | readers that trim shared buffers, cooldowns, counting once |
| Rules, permissions and compliance, `rules.py`, `socialware/permission.py`, `domain_permission.py`, `compliance/` | rule files, dialogues | /rules, check, scan | `api_routes.py` | dialogues over files that change; which list wins; missing fields |
| Plugins, `autoservice/plugins/` | squad assignments, lifecycle records, metrics | hooks | engine | order of hooks, exceptions |
| CRM and onboarding, socialware framework, i18n and CLI, front ends, deployment | mostly sequential data | - | - | little a model checker adds to a test |

Correctness, per component:

* *Engine*: a message the gate lowered to `side` is never public again; events are
  numbered densely, also over a re-creation; mode changes are serialised and
  plugins are told of one before the next is made; a closed conversation has no
  timer; copilot means there is an operator; every call ends.
* *Pool*: no instance in two hands; none destroyed under its caller; none
  forgotten, neither counted without being reachable nor connected without being
  counted; the size stays between its limits; locks are always freed.
* *Gateway*: subscriptions live no longer than their session; each subscriber gets
  each customer message; event streams have no gap; customers see what they may
  see, and all of it; sends end.
* *Event bus*: the table has the events in the order of emission, once each; a query
  finds all that was emitted before it while the bus has a connection; a subscription misses no more than what falls
  between reading the past and joining; everything is stored some time.
* *Channel server*: routes lead to what is registered; nobody gets a message twice;
  a client that lost its connection comes back; a message is handled once while
  it is remembered; the final text of a reply is shown.
* *Accounts*: one session per code; what ended stays ended, also after a crash; codes
  are freed.
* *Knowledge base*: a search finds what is stored, and of a document all or nothing.
* *Operations*: no widening unobserved; one run per quiet period; approvals start the
  rollout.
* *Replies, routing, monitoring, rules, permissions*: sequential; what each function
  decides, stated as theorems (section 5).

`PROJECT.json` lists the hazards one by one, with the line where each bites and the
property that would notice, or the reason why there is none yet.

## 2. Modules

| Module | Models |
|---|---|
| `ConversationContract` | what clients of the engine may rely on: life cycle, resolution, automatic mode changes (docs/contracts/conversation-engine.md, sections 3 and 7.1) |
| `ConversationEngine` | `LocalEngine` for one conversation id, in detail |
| `ConversationEngineProofs` | theorems about it |
| `AsyncPool`, `AsyncPoolProofs` | `AsyncPool` as `CCPool` uses it; theorems |
| `Gateway` | the gateway, the engine's subscribe, and the customer's and operators' browsers |
| `GatewayProofs` | theorems about it |
| `EventHistory` | what `query_events` promises its callers |
| `EventBus`, `EventBusProofs` | the event bus over the connection's thread, shown to implement `EventHistory`; theorems |
| `ChannelServer` | registration, routing and observers of the channel server, composed with its clients (`channel.py`) and the web bridge (`websocket.py`) |
| `Feishu` | its Feishu side: intake, commands, discussions, streamed replies |
| `ChannelProofs` | theorems about `ChannelServer` and `Feishu` |
| `Accounts`, `AccountsProofs` | access codes and tokens of the web channel (`auth.py`) with browsers and crashes; theorems |
| `KnowledgeBase` | ingests and searches (`kb_ingest.py`, `kb_search.py`) over SQLite |
| `Operations`, `OperationsProofs` | turns, pipeline, scheduler, approvals, rollout; theorems |
| `Rules` | rule files and /rules dialogues |
| `Policies` | permissions, compliance, the morning message's choice, as functions |
| `Replies` | triage, model routing, placeholders, mood |
| `Monitoring` | windows, alerts, counters, bills |
| `QueryRouter` | `route` of `route_query.py` as a function of the question |
| `DecisionProofs` | theorems about the five modules above and about `KnowledgeBase`, one part for each |
| `MC...` | definitions the configurations need |

Conversations do not share state apart from the dictionaries that hold them, so
one id is enough; its re-creation after a close is modelled.

**ConversationEngine.** `Tasks` are the calls in flight. A call runs up to a hook, where
`pc` says which one and `ctx` what its locals were: the mode and state the `conv`
object had *before* the hook, which the code uses *after* it. `SuspendingHooks` says
which hooks really suspend: `PluginHook` is an async protocol, so all of them may;
with the plugins shipped only the created and closed hooks do. A hook that does not
suspend keeps the event loop (`LoopFree`). `lockq` is the FIFO of `asyncio.Lock` for
the mode. `_emit` is synchronous, hence `Publish` is part of each action. Timers hold
their `on_expire` action; `TimerExpires` runs it in the timer's task. A task cancelled
inside a call is not modelled.

**AsyncPool.** A call is suspended at the factory, a disconnect, the queue, or a lock;
`pc` says where. The health loop takes one stage per step and the sweep of a shutdown
one instance per step. Clients become `worn` (`needs_recycling`) or `dead` at any time.
Which waiter gets a released lock first is left open. Instance ids are reused only
when nothing refers to the old one. A shutdown may begin while `start` still awaits a
factory, and `start` then goes on adding instances. `on_sticky_release` (never set) and a
start after a shutdown are left out.

**Gateway.** Only the squad plugin is registered there, and its hooks do not
suspend, so an engine call is one step. A handler or task suspends at each send.
A *session* is one connection; `phase` says where `_handle_connection` is, `wire` if
the socket is up. The handshake is one step (nobody sends to a session before it
subscribes); a failing server_hello leaves the session `lost`, still registered.
`Drop` takes the socket down at any time; the server learns of it when it
receives or sends next, and a send to a dead socket raises or is lost. A session's
number is used again once no handler, task or broadcast refers to it, so clients
may reconnect for ever within `MaxSessions`. Every broadcast
is one step per receiver, its audience fixed when it begins. `_fanout` with the engine's
`subscribe` is `FanoutStarts`, `FanoutBacklog`, `FanoutLive`: the backlog is read from
the list object the conversation had at the start, and the queue is joined in the
step that finds the backlog empty, since no await lies between. A task whose send fails ends
and leaves its registry entry; the engine's subscriber stays too, but its queue, which
nobody reads, is not kept. For the customer's tab the cursor, the cursor it says hello with
(fixed at page load, `Reload`), and the messages it was sent are kept. One customer, and one
csat task at a time. `Inputs` says which frames browsers use in a run; creating a
conversation publishes its five events in the step that creates it.

**EventBus.** aiosqlite runs the operations of all tasks on one thread in the order
they were handed over (`thread`); a task is resumed when its operation is done and hands
over its next one. `_write_loop`, `flush` of a query or subscription, and `close` all
drain the same queue. A failing insert, a close and a crash take events; the
history variable `lost` says which. An event is its place in the order of emission.
A query of a bus without a connection answers nothing (`FindsNothing`).
`Initialize` after a crash finds what was committed (`OnDisk`). Failing commits, filters
by type and squad, and the default `:memory:` database, which keeps nothing, are left out.

**ChannelServer.** A connection is `open`, `lost` to the server yet, or `ended`; the
server reads what was sent before the loss, then unregisters. `route_message` is
`Begin` (exact, prefix or pool route), `Acquired`, then one `Observe` per observer; the
list of observers is the live one, as in the code, so a step may skip one. `TabOpens` to
`TabFails` and `LoopEnds` are the bridge: one connection for all browser sessions, opened
by whichever session finds none. **Feishu** is the same process seen from the other
side. The intake runs in a thread of its own, also while the consumer, which awaits each
message's routing, lists the known chats (`Lists`): a chat that becomes known then ends the
consumer. Every message of a pool chat has a task. The tasks of a chat are bound to one
instance: each puts its prompt to it (`Asks`), and all read its one stream, where
each event goes to one of them (`Takes`), and the task that reads a result ends
(`TakesResult`), be the result its own prompt's or not. A task may fail at any await
(`TaskFails`) and an instance may die under its readers (`InstanceDies`). The reply tool's
call (`Replies`) does not depend on who reads. Assumed of Claude Code: an instance
works through its prompts in their order and calls the reply tool once for each. Calls of Feishu
are a set, whose members end in any order. The modules share the shape of
routing, not state: a message's route is nondeterministic in `Feishu`. A callback that is
cancelled when the pool disconnects, and a binding that is released under a reading task,
are left out. Feishu delivers a message again while the set of seen ones was forgotten
`MaxForgets` times at most, and not while something of it waits or is in progress
(`Settled`), which are bounds.

**Accounts.** No handler of `auth.py` awaits between its first read and its save, so a
handler is one action. `Crash` falls between handlers or within a write, which
leaves a torn file. Times are relative to now.

**KnowledgeBase.** Ingests are processes: `Clears` (delete and commit), `ReadsFile` or
`FetchesPage`, `Saves` within a transaction, and `Dies` anywhere. One writer at a time;
readers see what is committed. `Delete` and `SaveChunk` include the triggers. A search is
for one term; which `TopK` chunks rank first is left open, and a query that SQLite
refuses becomes a search for another term, or for none.

**Operations.** One loop; the only await is the analyzer's. A restart keeps the two
SQLite files and loses the rest. What the analyzer suggests is nondeterministic, and so is
which conversations a run takes when there are more than `MaxCount`.

**Rules, Monitoring, Replies** are state machines whose calls do not await (except for
models and notifications); **Policies, QueryRouter** are functions. Regular
expressions and texts are abstracted to which words and substrings a text has;
weights, percentiles and money are integers in hundredths, so that sums are exact.

Definitions under a comment *Defect* (or *a plausible error*) are not part of the
specification. Each is a variant of a definition, as a plausible mistake in the code
would make it, and shows that the property named for it in `PROJECT.json` would notice.

## 3. Runs

TLC, `tlc -config X.cfg M`. Deadlock is not checked: the bounds stop the models. All runs hold.

| Run | Question | Bounds |
|---|---|---|
| `engine` | Do the lock, the log, timers and the gate stay consistent whatever hooks suspend or fail, and does every call end? | 2 calls, agent and operator, one SLA timer, /release and /resolve, 7 events before the last call, 2 incarnations; 569,531 states |
| `engine_contract` | With the hooks as shipped, does the engine implement `ConversationContract`? Is there an operator in copilot? | 2 calls, agent and 2 operators, 7 events; 113,617 states |
| `pool` | Exclusive, live, neither leaked nor orphaned instances? | a plain and a sticky call, `max_size` 1, 3 ids, 1 refill; 1.3 million states |
| `pool_live` | Do calls end, does the pool refill? | 2 plain calls; 77,331 states |
| `gateway` | Do subscriptions end with sessions, does every subscriber hear each message, do sends end? | 3 sessions at a time of a customer and an operator, all frames but unsubscribe, squad subscriptions, 2 messages, 8 events; 551,412 states |
| `gateway_events` | Are event streams gapless over close and re-creation, is the squad right? | 2 sessions at a time, subscriptions to the conversation from now on, from 0 and from 7 (which may lie ahead), unsubscribe, 2 messages, 10 events, 2 incarnations; 2.8 million states |
| `event_bus` | Does the table keep the order, does the bus implement `EventHistory`, what can a subscriber miss, is everything stored? | a query and a subscription that may ask again, 3 events (one `side`), a limit of 2, one failing write, one close or crash; 262,588 states |
| `channel` | Do routes and registrations agree, is nobody sent a message twice, do clients come back? | an agent that observes as well, a developer, the bridge with one browser session, two connections each, 1 message in all, 1 lost connection, pool mode; 168,828 states |
| `feishu` | Is a message handled once, is the final text of each reply shown, and does the event loop's part go on? | 2 messages in an ordinary and an administrator's chat, with all commands (not /improve and /production, which only set a chat's mode), routed to the pool, replies in 2 pieces; 1 failing call; the set of seen messages is cleared as soon as it holds one, twice at most; 791,469 states |
| `operations` | Is every widening observed, does a quiet period start one run, does an approval start the rollout? | 2 conversations and 2 tasks (symmetric), a batch of 1, 1 proposal, 2 transitions, 2 days; a run's cap is not reached; 1.2 million states |
| `knowledge` | Does a search find exactly what is stored, and of a file all or nothing? | an ingest of two files and one of a site, 2 runs each, 2 versions of each document, 1 change, a `top_k` of 2; 342,182 states |
| `accounts` | One session per code, no return of the dead, codes freed? | 2 codes, 2 browsers, 2 tokens, life of 3 ticks, idle after 1, 1 crash; 245,677 states |

The bounds are the least at which the races occur. Two calls are enough for every race
between a call and the state it read before a hook, and for a queue at the mode lock;
7 events allow create, join, message, close and a second life that begins while a call is still
at its message hook, whose report then lands in the wrong log. A pool of one is the
one where a destroyed, bound or held instance makes the difference between serving and
waiting at once; three ids let an instance be replaced while its predecessor is
being disconnected. Three sessions are two operator connections beside the
customer's, as a dead receiver before a live one takes (or a session and its
reconnect); 10 events reach create (5), join (2), close (2) and another create.
Three events are one committed, one in the write loop's hands and one queued, more than
the limit of a query. Two connections per process are a lost one and the next, whose
registration meets the routes of the first. Two messages of a pool chat are two tasks that read
one stream, and calls still in threads for a state that the second task has
replaced, and also a discussion begun and ended while the idle checker reminds of it, or a
chat's first message while a command lists the chats; the second clearing lets a message be
taken in again. Two transitions of the rollout are a change and what must wait for it; a life
of three ticks lets a token be idle (after one), replaced, and its successor expire. Each mutant in `PROJECT.json`
breaks its property within these bounds, which is the evidence that they are not too
small for the case.

## 4. Properties

*Engine.* `ModeLock`: the queue of the lock is exactly the calls inside `switch_mode`,
holder first. `EventsDense`: the log is numbered without a gap. `LogIsFaithful`: who
replays the log ends with the engine's mode (the mode changes form a chain), every message
it can fetch, and no downgrade before its message, if that is of the same life.
`ModeStableWhileAnnounced`: nothing changes the mode
while plugins hear of a change. `NoTimerOnClosed`. `GateIrreversible`. `CallsEnd`.
`CopilotHasOperator` and `ContractSpec` hold with the shipped hooks only. (With a
joined hook that awaits, an operator who leaves during it leaves copilot behind.)

*Pool.* `Exclusive`, `PoolSound` (plain callers; the instance of a sticky caller *is*
destroyed under it when its binding is idle too long), `NoLeak` (until shutdown, calls
that do not share a key: two calls that do, leak), `NoOrphan` (until
shutdown), `CallsEnd`, `MinSizeRestored`.

*Gateway.* `SubscriptionsOfLiveSessions`, `SubscribersHear`, `AssignedWhileOpen`,
`FanoutGapless`, `SendsEnd`.

*Event bus.* `WrittenInOrder`: table, operations on their way and queue are one line in
the order of emission, without repetition, and what is in none of them was lost to a
failed write, a close or a crash. `HistorySpec`: a refinement of `EventHistory`, whose
answers hold everything that was emitted before the question, and nothing if the bus has no
connection. `SubscriberMissesTheWindowOnly`
names what the code does lose: events between reading the past and joining (the gateway's
subscriptions have no such window: `FanoutGapless`). `EventuallyStored`.

*Channel server.* `RoutesAreOwned`, `CopiedOnce`, `ClientsReturn`; on the Feishu side
`HandledOnce` (one more for each time the seen messages were cleared), `FinalTextShown`,
`LoopsGoOn` (every accepted message is handled unless an exception has ended the consumer, and the
idle checker goes on even then). Without that exception,
as the docstring of `_run_feishu` has it, the property fails (section 6).

*Accounts.* `OneSessionPerCode` holds of the memory and of any file a restart may read;
`GoneForGood`; `CodesAreFreed`. *Knowledge base.* `SearchIsExact`, `DocumentsAreWhole`
(ingests of different sources). *Operations.* `RestBeforeWidening`, `OneRunPerLowPeriod`,
`ApprovalStartsRollout`.

The type invariants of pool, bus, channel server, Feishu, knowledge base, accounts and
operations are conjuncts of `PoolSound`, `WrittenInOrder`, `RoutesAreOwned`, `HandledOnce`,
`SearchIsExact`, `OneSessionPerCode` and `OneRunPerLowPeriod`.

**Fairness.** Engine: hooks return and the loop runs what is ready (weak fairness of the
steps that resume a call); nobody has to call, and hooks need not fail. Pool: the same
for calls, the health loop and refills; strong fairness for lock waiters, whose
order the model leaves open where asyncio's FIFO serves each in turn, and for a
factory that is tried for ever and works again some time, without which
no pool can be refilled. Gateway: sends return or raise (the server's WebSocket pings
close a stalled connection) and tasks run; the agent's thinking is *not* fair, since
`session_query` has no time limit, and neither are clients. Event bus: the write loop
takes what is queued and the connection's thread runs what it is handed. Channel server:
clients try again after three seconds, handlers and receive loops go on, and
`acquire_sticky` answers, since it waits with a timeout; connections need not fail. Feishu:
the consumer and the idle checker are loops of their own, listing the chats does not await, and
routing and reminders return, since a send does; neither the streams nor Feishu need answer. Accounts: time
passes, the purge loop comes round, and a server that died is started again. Operations
and the knowledge base have no liveness property and no fairness.

## 5. Proofs

All checked by `tlapm`, for all values of the constants that satisfy the module's
assumptions.

**Engine** (`ConversationEngineProofs`), for any number of calls, participants, timers and
incarnations, and any set of hooks that suspend:

| Theorem | Statement |
|---|---|
| `TypeCorrect` | `Spec => []TypeOK` |
| `LockCorrect` | `Spec => []ModeLock` |
| `ModeHeldWhileAnnounced` | `Spec => ModeStableWhileAnnounced` |
| `LogIsDense` | `Spec => []EventsDense` |
| `LogTellsTheTruth` | `Spec => []LogIsFaithful` |
| `ClosedHasNoTimer` | `Spec => []NoTimerOnClosed` |
| `GateNeverUndone` | `Spec => GateIrreversible` |
| `CopilotIsAttended` | `ShippedHooks`, not `Unattended`: `Spec => []CopilotHasOperator` |
| `EngineKeepsContract` | `ShippedHooks`: `Spec => ContractSpec` |

The inductive invariant is `TypeOK /\ ModeLock`. Types alone are not inductive: the
step that frees the lock takes the `Tail` of its queue, which is a sequence of calls
only if the queue is not empty, and that is what `ModeLock` says of a call at the mode
hook. `ModeHeldWhileAnnounced` follows from it: a call that switches the mode is at the
head of the queue, and so is the one that announces. The log theorems rest on lemmas
about `Numbered` and `Publish`; every action is shown to be a `LogStep`
(it publishes, starts a new log, or leaves the log alone) once, together with its typing.
`GateNeverUndone` needs the strengthening `MessageIds`: no two messages of
an incarnation share a number, and none is above the counter. `LogTellsTheTruth` needs that
and two more: a mode change on its way starts where the chain of the log ends, and an
event names no message above the counter.

`ShippedHooks` says that the mode, joined and message hooks do not suspend, which holds of
the plugins in the repository (they await nothing that does). With them nobody waits
for the lock, and what a call read before a hook still holds after it (`Undisturbed`).
`ClientView` then says what each step looks like to a client, in eight cases, and
the contract and the copilot are both read off it: each case is a step of the
contract or a stutter. `Unattended` are the configurations where copilot without
an operator is what the code means to do: a timer whose `on_expire` action sets it, or an
observer, who may give the command.

**Gateway** (`GatewayProofs`), for any operators, squads, frames, sessions and bounds:
`TypeCorrect`, `SubscriptionsEndWithSessions`, `OpenIsAssigned`, `SubscribersHearAll`,
`StreamsHaveNoGap`.
Most steps are `Quiet`: they add no subscription, no socket and no customer's message.
`Steps` says so once, and leaves connections, handlers, customers' messages
and subscriptions to look at. `Served` makes the subscriptions theorem inductive: a
session that is served is registered, and only operators subscribe.
`SubscribersHear` speaks of the end of a broadcast and is not inductive;
`HearsOrWill` says where a session stands before: it has heard the message or is in
the rest of the audience of the handler that sends it. That the audience is the right
one when the broadcast begins is `AssignedWhileOpen`, and that a receiver with a live
socket is still registered when its turn comes is `Served`.
`StreamsHaveNoGap` rests on `StreamsRunOn`: the queue of a live subscription is a run of
numbers up to the counter; the last event sent ends where the queue begins, unless the
conversation was created anew before the backlog was through; each incarnation's list
ascends; and before the first creation there is nothing to send.

**Pool** (`AsyncPoolProofs`), for any callers, keys, sizes, bounds and behaviour of the
factory: `InstancesAreExclusive`, `CallersHoldLiveInstances`, `NoClientIsForgotten`, and
`NothingLeaks` if no two calls share a key (`OwnKeys`, without which it is false: section 6).
The invariant `Core` is `TypeOK`, `Control` (which calls have an instance, a key or the
sticky lock, and what the stages of pool and health loop imply) and `Books`: each instance is
in one place (`Placed`: queue, bindings, hands), and while the pool runs what is in a place is
tracked and connected, and what is connected and not tracked is about to be disconnected by a
named call or the health loop (`Sound`). Both are stated with a call `u` and
an instance `i` set aside: while `u` moves `i` from one place to another the
others are in their places, so that a step is "take out, put in" and each half is
one lemma. `NothingLeaks` adds that a call that seeks an instance for its key finds the key
free when it binds (`KeyOwned`, `Kept`).

**Event bus** (`EventBusProofs`), for any stream, requests and limits:
`EventsAreWrittenInOrder`, `SubscribersMissTheWindowOnly`, and the refinement
`QueriesReadTheHistory`: `Spec => HistorySpec` (complete while the bus has a connection, nothing
without). The invariant says that rows, operations in the
thread and queue, in this order, are one increasing sequence of event numbers without
repetition (`Order`); that a reader has one operation with the thread (`ReaderOps`); that
each event emitted before a reader asked is in the rows, lost, or in an insert ahead of its
operation, and once its select ran among the rows that this found (`PastRead`); and, for each
subscriber, what it has been told so far (`Sub`).

**Knowledge base** (in `DecisionProofs`): `SearchesAreExact` and `OnlyWholeDocuments`, if no source
is ingested twice at a time (`OneIngestPerSource`; section 6 says what happens otherwise), and
`SearchesMissNothing` without that condition. `Base`: each chunk, committed or in the
transaction, has its index entry. `Apart`: no chunk of a source is committed while it is
ingested, so that rowids are not reused under an entry. `Whole`: what is read and not yet
saved is the rest of one version, and what the transaction holds its beginning.

**Accounts** (`AccountsProofs`): `CodesHaveOneSession`, `EndedStaysEnded`. The invariant is that the
dictionaries have their types and agree (`Consistent`), that the file is missing, torn or
such a state, that every token in either was drawn (numbers up to `issued`, so that a new
one is new), and that none that ended is in either.

**Channel** (`ChannelProofs`). `Feishu`, for any chats, contents, pieces and bounds:
`MessagesAreHandledOnce` (the queue's messages differ; for each, how often it was handled and
whether it waits add up to no more than the times it was forgotten, and once more
if it is in the set) and `RepliesAreShown`, however many tasks read the stream, fail or are cut
off (`CallsAreSound`: each call has the text its kind says, and what is remembered as shown last
was shown; `PromptsAreSound`: each prompt is of a message that arrived). `ChannelServer`, for any
clients, chats, observers, tabs and connections: `RoutesHaveOwners` and
`NobodyGetsTwoCopies`. The first needs what an ended connection leaves behind, nothing, and
that the one register frame of a connection is read before anything is registered for it; a
lemma about lists says what removing one member leaves. The second needs that nobody who is
not registered has a copy, so that who joins late has none, and that a connection
with a copy of a message on its way is of the handler's process or lies before the
loop's index: a removal moves the members behind it towards the front only.

**Operations** (`OperationsProofs`), for any conversations, tasks, batch size, analyses,
readings and day: `WideningIsObserved`, `RunsOncePerPeriod`, `ApprovalHolds`. The
invariant adds to the properties that the stage's clock is when the stage was
entered, or was set back with no stage left to go to (`RolloutOK`); that the history's times
lie between the start of the process and now; and that a run is counted exactly while
its period is marked (`PeriodOK`).

The following modules have theorems and no run (all in `DecisionProofs`): they are sequential, and
their theorems were explored with TLC over small tables before they were proved.

**Rules**, if every category has its file: `ConfirmationsAreComplete`
(the fallbacks of `_apply` are dead code) and `RulesChangeByConfirmation`. The invariant
says of each dialogue which of its fields are set in which of its states.

**Policies**, functions: `StricterRulesAllowLess`,
`SmallerAmountsStayAllowed`, `RefundsAreDecidedByAmount`, `UnnamedAmountsAreNotChecked`,
`RiskDecidesBlocking`, `UnreadableSoulBlocks`, `ActivatedTenantIsSandboxed`,
`ProposalsNeverPass`, `TheMostUrgentAreShown`. Those on the default tables expand
them; the others hold for every table.

**Replies**: what triage and the router decide
(`RouterIsSureOfKeywords`, `KeywordsArePlaceheld`, `UrgencyOrKeywordsDecide`,
`OnlyUrgencyIsMixed`, `FallbackOnlyWhenUnclear`, `FirstAngerIsNotFlagged`), by bounding
the weighted sums case by case; and of the placeholder protocol `RepliesFindTheirPlace` and
`AnswersAreFinal`, whose invariant says where each question's placeholder is.

**Monitoring**, for tables that fit (`TablesFit`):
`ReadersSeeTheirWindow` (a buffer, trimmed by whichever readers, still holds each
point of the window among the newest `Capacity`), `AlertsKeepTheirDistance`,
`AlertsAreCaused` (an interpolated percentile lies between two values),
`TakeoversBilledOnce`, `TakeoversStayCounted`, `ConversationsAreBilledOnce` (the loop of
`TieredBilling.calculate` unfolded over the default tiers equals a price per
conversation, for every number of them), `BillsGrow`, `NoTierListIsRefused`.

**QueryRouter**, for every question: `AnswersKnowTheirSubject`,
`BroadRegionsAreTelecom`, `ConfidenceNeedsACountry`, `DirectNumbersAreLocal`, and two
about rows that shadow others, `InIsIndia` and `TheEmiratesAreTelecom`.

Every invariant, action property and refinement the runs check is the statement of one of
these theorems. Model-checked only is liveness: both `CallsEnd`, `SendsEnd`,
`MinSizeRestored`, `EventuallyStored`, `ClientsReturn`, `LoopsGoOn` and `CodesAreFreed`, since
TLAPS does no liveness under fairness and no `ENABLED`. Where a proof needs induction (over
the next rowid, an instance id that is free, the least index at which something happens, a
sum over a list), it is an argument about a least element, from `WellFoundedInduction`, since
the induction theorems of the library take an operator that the provers here cannot
instantiate.

## 6. Where the code and its documents disagree

Met while modelling. The models follow the code.

* *Engine.* "`Closed`" is final (docs/plans/2026-04-15-prd-gap-v2.md:348), but
  `send_message` decides from the `conv` it read before its hooks (local_engine.py:466):
  a close in between is undone. And the report of a gated message is emitted after those hooks
  (459): when the conversation was created anew meanwhile, it lands in the log of the
  next life, about a message that life does not have. Both take a plugin whose `on_event` awaits.
* *Pool.* docs/cc-pool.md:213 promises `max_size` processes at most; `start()` warms up
  without a size check while calls are served (pool.py:204). Two concurrent first calls
  of `acquire_sticky` for a key each check out an instance, and the second
  overwrites the binding (pool.py:394, docstring 346).
* *Gateway.* In takeover the agent's reply is stored as a side message and pushed to the
  customer all the same (message_router.py:787; docs/contracts/conversation-engine.md:491).
  The request for a rating goes to operators at most (727, docstring 712). An operator's
  message in takeover is not pushed to the customer, and the next reply moves the
  cursor past it (455; docs/contracts/frontend-ws-schema.md:213).
* *Event bus.* `close` "flushes pending writes" (event_bus.py:73), but cancels the loop with
  a batch in its hands.
* *Channel server.* `_chat_index` (channel_server.py:1507, for
  `/status` and `/inject #N`) iterates the known chats on the event loop while `on_message` inserts
  into them in Feishu's thread (1005). The `RuntimeError` ends the consumer, which catches
  only `CancelledError` (1203); `_run_feishu_safe` logs it (895), and messages are accepted and
  never handled, though `_run_feishu` is to "consume messages and route them" (899): `LoopsGoOn`
  without its exception is violated by just that. The end of an old connection removes the prefix the next one has
  registered (channel_server.py:1304). `on_sticky_release` is never wired, so pool routes
  outlive bindings (389). A browser's message is routed by prefix back to the
  web application (docs/plans/2026-04-06-channel-server-design.md, from line 403). Two
  `ensure_connected` at once make two bridge connections (websocket.py:36). The idle
  checker brings a discussion back that ended while it was sending (1423).
* *Knowledge base.* Two ingests of one source interleave into a mixture of both; files and
  URLs that are not in the list share the ids `adhoc` and `adhoc_web`.
* *Operations.* `update_status` accepts any transition (docstring, proposal_pipeline.py:218).
  `canary_advance` names `CanaryStage`, which is never imported, and raises
  instead of the 423 its docstring has (api_routes.py:396, 404). Nothing in the deployment
  calls `monitor_and_act`. The compliance check of proposals fails all rules always.
* *Replies.* The router notifies below a confidence no message with a keyword has
  (docstring of model_router.py, step 3). A failed slow model leaves its placeholder.
* *Monitoring.* Invoices bill the same live counts for each month that is not closed;
  closing a month twice replaces its counts by zeros; the check of a tier list compares a
  cap with itself (docstring, billing.py:32).
* *Accounts.* Activity is not saved, so that a restart may take an active session for an
  idle one; a chat socket outlives its token, which is looked at only when it opens.
* *Question routing.* The word "in" is India; "uae" expands to a name that contains "rate".

## 7. Not modelled

Admin sockets and global subscriptions, filters by event type, malformed frames,
`csat_response` and the REST endpoints for commands in the gateway, and a second subscription of
one session to one scope, which is another task of its own; the command `/abandon`, a `/resolve` with
another outcome; cancellation of a task in the middle of an engine
call; acknowledgement reactions, files and user names on the Feishu side; session files of
the web channel (`session_persistence.py`); what the metrics plugin counts; formats, prompts,
texts. `record` of the metrics with a timestamp in the past, which no caller passes: points out of
order would break `WindowsAreExact`. The components with status `not_modelled` in `PROJECT.json` have no interleaving
to explore: front ends, shell scripts, mock data, loaders and command lines.
`crm.py`, `customer_manager.py` and `sim_customer.py` are one-statement handlers
or scripted dialogues.

## 8. Plan

1. **Composition** of `Feishu` with `AsyncPool`: a reply's stream while its binding expires
   or its instance is replaced, and the route that outlives the binding
   (channel_server.py:1346).
2. **More of the engine's hazards** as properties: the `conv` read before a hook
   (local_engine.py:466), a hook that calls `switch_mode` for the conversation whose lock it holds
   (418).
3. **The last-seen cursor** (message_router.py:455): what a customer is owed after a
   reconnect, stated so that the known exception is named.
4. **Safety halves of liveness**: that no step disables what a waiting call waits for, where it
   can be said without `ENABLED`.
