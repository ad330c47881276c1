# darkling: TLA+ models of the runtime, the replicated state and the Guide

These modules model the parts of darkling in which order, failure and waiting
matter: the service runtime (`packages/runtime`) and the service bus the deployed
page still uses (`packages/service-bus`), the replicated state built on each
(`packages/runtime`, `packages/state-manager`), the Guide's agent loop, budget and
turns (`packages/guide`), how the page feeds the Guide and how its requests reach
the backend (`apps/frontend`, `apps/backend`), and the compilation and retrieval of
content (`apps/backend`, `packages/knowledge-base`).  TLC checks the models on small
instances; TLAPS proves what matters most of ten of them (the service host, the
broker, the service bus, the replicated state of either generation, the agent loop, its
turns, the page's session, the access to the backend and its content) for every value
of their constants.
`PROJECT.json` maps every definition to the lines it stands for.

## 1. Inventory

| component | state | operations | hard because |
|---|---|---|---|
| service host (`runtime/src/service-host.ts`) | entries of active services: activation state, queue, promise chain, implementation | `activate`, `deactivate`, `dispatch`, `handleMessage`, `notifySlicesLoaded` | an initializer bypasses the queue, queues are drained while chains run, an entry may be replaced under its own chain |
| service broker, clients, transports (`service-broker.ts`, `runtime-client.ts`, `worker-*.ts`, `in-process-transport.ts`, `runtime.ts`) | registrations, hosts, service-to-host table, call origins; pending calls with timers | route, launch, register, activate locally, stop; call, behaviour, answer, time out | routing is suspended on a launch, launches fail, host workers crash, answers race timers |
| state authority, local copies, store builder (`authority.ts`, `local-copy.ts`, `store-builder.ts`, `broadcast.ts`) | slice value and sequence number; copies with a buffer of patches; basis of a mutation | mutate, snapshot, patch, gap re-fetch, optimistic retry | patches and replies come on different channels in any order, patches are lost, fetches fail, two writers have one basis |
| Guide budget and agent loop (`guide/src/budget.ts`, `agent-loop.ts`) | carry-over, pressure, undispatched calls, working memory; the budget of the run | a run: turns of the model, parallel tool calls, overspend gate, report | calls of a turn are weighed before any is charged; what one run leaves is another run's input |
| page events (`frontend/src/events/event-queue.ts`, `ui/darkling-app.ts`) | queue, busy flag, held flush, the runInteraction call | add an event, flush, proxy ready, end of an interaction | a flush may precede the service client; the call's 30 s timer ends the wait and not the interaction |
| Guide tools and LLM providers (`guide/src/tools.ts`, `agent-self.ts`, `llm-provider.ts`, `openrouter-provider.ts`, `backend/src/llm-proxy.ts`) | the registry, the loop's working memory, the results of the last turn | validate and dispatch a call, build a request, read an answer | calls settle in any order and may share an id; memory is one field that overlapping runs share |
| service bus (`service-bus/src`, with its Lit element) | the element's bus, client and provider; routing and hosts as in the runtime, without its table of origins | connect, disconnect, change options, restart; call, route, launch, answer, dispose | a restart awaits while the element is disconnected, two launches for one service, calls under a bus that goes |
| state manager (`state-manager/src`, with its Lit element) and the `navigate` tool (`frontend/src/tools/ui-control-tools.ts`) | the element's copy and its subscriptions, the slice, proposals and their bases | make and drop copies, fetch, patch, propose, navigate | authorities come and go with the bus, snapshots and patches race, a check on a copy precedes an awaited change |
| service worker (`frontend/src/sw.ts`) | token, expiry, pending secret, exchange in flight | fetch, exchange, extract the secret | a secret is single-use, concurrent requests share one exchange, two clocks |
| backend access (`backend/src/auth.ts`, `cost-controls.ts`, `llm-proxy.ts`) | spend per session, time stamps per tier | exchange, verify, enforce, record, forward | a sliding window that forgets, shared by all sessions |
| content (`backend/src/compile.ts`, `store.ts`, `retrieval.ts`; `knowledge-base/src`) | block store and four indexes, modification times | compile, load, query, invalidate | loads overlap; the block store is not cleared with its indexes |
| configurator (`configurator/src`) | the builder's accumulated parts | configure, resolve, instantiate | merges only; no application uses it |
| UI components, avatar tools, observability, lint configuration, content files | rendering and logging | | no state a property relates |

What makes the components correct, in short: a host runs nothing before a
service's initializer, loses and reorders nothing and answers each call once; a
broker brings every answer to its caller and hands each host the messages of a
sender in order; a copy is always a prefix of one agreed order of mutations and
a mutation is applied to what its caller's copy showed, or, for a caller that has no
value yet, to the initial value; a budget is bounded
over any number of interactions and overspent by a roll only; an event of the
page reaches the Guide exactly once; what an index of the content finds the
block store serves, whatever compilations overlapped, and an invalidation list
names what has changed; every tool call has one true answer, and working memory is
what the last update made it; the page never loses a bus, and shows what the state
behind the bus is; the Guide never takes away a document the visitor has in front; a
visitor keeps one session while his token is good, and no window of a tier holds more
calls than its limit.

## 2. Modules

| module | models | composed of |
|---|---|---|
| `ServiceHost` | one host and its entries | `Selection` |
| `ServiceHostProofs` | theorems about it | `ServiceHost`, `SequenceLemmas` |
| `ServiceBroker` | clients, channels, broker and hosts (each reduced to a serial chain per service) | implements `RemoteCall` |
| `ServiceBrokerProofs` | theorems about it | `ServiceBroker`, `SequenceLemmas` |
| `RemoteCall` | what a caller may rely on | |
| `StateSync` | authority, copies and stores of one slice | implements `ReplicatedSlice` |
| `StateSyncProofs` | theorems about it | `StateSync`, `SequenceLemmas` |
| `ReplicatedSlice` | what threads sharing a slice may rely on | |
| `GuideBudget` | the arithmetic of `budget.ts` | |
| `AgentLoop` | runs of the loop | extends `GuideBudget` |
| `GuideTurns` | what the model is told in overlapping runs, and what becomes of its answers | extends `AgentLoop`, `Selection` |
| `GuideTurnsProofs` | theorems about it, and about `AgentLoop` | `GuideTurns`, `SequenceLemmas` |
| `GuideSession` | page, event queue, client timer and the loop behind them | instance of `AgentLoop` |
| `Compiler` | what a list of source files compiles to | `Selection` |
| `ContentStore` | compilation jobs, the stores, queries, a consumer with a cursor and one with a `since` | extends `Compiler` |
| `ServiceBus` | the element, its buses, and their brokers and hosts | implements `RemoteCall` |
| `ServiceBusProofs` | theorems about it | `ServiceBus`, `SequenceLemmas` |
| `StateManager` | the element, its copies, the authorities behind the bus, navigation | `Selection` |
| `PageProofs` | theorems about it, and about `GuideSession` | `StateManager`, `GuideSession`, `SequenceLemmas` |
| `BackendAccess` | service workers, tokens, the backend's limits | implements `CallWindow`; `Selection` |
| `BackendProofs` | theorems about it, and about `CallWindow` and `ContentStore` | `BackendAccess`, `ContentStore`, `SequenceLemmas` |
| `CallWindow` | what a rate limit promises | |
| `Selection` | `Array.filter()` | |
| `SequenceLemmas` | facts about sequences, queues and filters | `Selection` |

`MC<module>` gives constants their values.  Definitions whose comment begins
with "Mutant" are plausible bugs; `PROJECT.json` names the property that finds
each of them.  A module with several small invariants joins them in one
(`QueueSound`, `AnswersArrive`, `GapsClosed`, `RetrievalSound`, `ElementSound`,
`CopySound`, `TokensHonoured`, `GateHolds`), the type invariant among them.

**ServiceHost.**  An entry is a record of the host's `services` map.  Because
`deactivate` and `activate` make a new record while promises of the old one go
on, entries have an identity of their own (`Entry`) and `services` points at one
of them.  `chain` is the promise chain of an entry, its head being what runs or
will run next, `queue` its queue.  `Dispatch` chains or queues or bypasses;
`Invoke`, `Succeed`, `Fail` and `Refuse` are the callbacks of the chain, in the
pieces its awaits make of them; `Succeed` includes the drain of the queue that
the success of an initializer causes, and `NotifySlicesLoaded` the one queued
initializer it takes out of the queue.

**ServiceBroker.**  An endpoint has one channel to the broker and one back.
`RouteCold` is `routeCall` up to its await of a launch and `Resume` the rest:
between them other messages are routed, and may launch a host of their own.
`InProcess` selects which broker factory is modelled; in the in-process one all
parts share an event loop and a message may be handled between two microtasks.
`Invoke` begins a method and `Finish` is its answer; `Reject` is what
`handleMessage` does when it does not get to the method (undeclared function,
parameters that do not parse, no such method): it answers "rejected" and nothing runs.
Which messages are rejected is left open.  `Crash` is a worker that dies without a word: the spawner listens for no error
after start-up, so only the timers of callers notice.  `Timeout` settles a call
and nothing else: the message is still delivered and its late answer dropped.

**StateSync.**  A value is the sequence of the mutations that made it; a
transition's patch carries the mutation (`Raw`), the authority commits what the
schema parsed (`Parsed`), which differs for mutations in `Normalised`.
A patch need not be what was committed, so `AppliedToWhatWasSeen` compares what a
caller saw with the authority's value, mutation by mutation, and not only their
authors.  `Submit` sends basis 0 for a caller whose copy has no snapshot yet.  Patches
travel on the broadcast channel, requests and replies on the transports, so a
copy sees the two in any relative order.  `FetchFails` covers every way
`getSnapshot` rejects.  A re-fetch replays the buffer one patch per microtask
(`ReplayPatch`), a first snapshot all at once, as the code does; each of the patches
so gone through may fail to apply on its own.

**AgentLoop.**  State of the loop and state of a run are told apart, because
nothing in `runInteraction` keeps two runs from overlapping.  `TurnCalls` passes
the calls of a turn through the gate against the same remainder, as
`dispatchTurn` does, and starts the admitted ones; `CallSettles` charges;
`DispatchEnds` collects what was not dispatched (`dispatchTurn` and the push into
`pendingUndispatched`, which the runs share).  `Next` adds the host that
waits for one run before it starts another; `LoopStep` is used without that
guard by `GuideSession`.

**GuideTurns.**  The steps of `AgentLoop` with the data that goes round: each action
conjoins a step of the loop with what it does to working memory, the status object
and the results.  Here the host does not wait, so runs overlap as they do after a
timeout of the page.  A value of working memory is the call that carries it.
`TurnSettles` is everything that happens between an answer of the model and the next
await: `parseResponse`, the gate, the handlers of `update_working_memory`, which run
at once and in the order of the calls.  `buildRequestBody` is what goes upstream, so
that `CallsAnswered` speaks of the messages a model sees.

**GuideSession.**  A flush while the client is not there is held
(`pendingFlush`); `Settles` includes the roll for queued events that the end of
an interaction makes.  A roll is a free choice between the two outcomes, except
for the event types whose probability is 0 or 1.

**Compiler, ContentStore.**  `Compiler` is the compiler as operators: headings
become blocks by a recursive function over their places, which keeps the stack and the
counters of `collectSections`; relationships are admitted and slugs told apart over all
files.  A title stands for title and body of a section.  In `ContentStore` a job
reads one file per step (`ReadFile`); the step that reads the last one also
compiles and loads, since nothing is awaited between.  `BulkLoad` sets entries in the
maps of the block store (`Overlaid`, `MapOf`) and removes none, `model` is what the four indexes hold, being replaced.  A load may
happen in the millisecond of the one before it (`Load`).  `seen` and `pager` are
consumers: one that remembers the `asOf` of a response, one that follows cursors.
`queryDocuments` and `queryBlocks` are the property queries, with the criteria
reduced to titles, slugs and documents; `RetrievalSound` compares their answers with the
model that was loaded.

**ServiceBus.**  `ref` and `provided` are the element's two fields that must agree:
its bus, and the client its descendants have.  `Updated` stops the bus and
`RestartBus` starts another, in a later microtask; everything else may come between.
Buses have identities, so that calls, hosts and answers of an old bus go on beside
the new one.  `DisposeCalls` and `StopBroker` are the two kinds of dispose: a worker
broker is terminated with its hosts, an in-process one closes its end of the
transports, and its hosts finish what they have.  `HandleCall` refuses a call or runs
it: which calls a declaration rejects is left open.  `RouteCold` and `Launched` are
`routeCall` before and after the await of a launch.  A call of a service goes from its
host to the client of the page, which does not heed it (`ClientReceive`); only its
timer settles it.

**StateManager.**  The bus is a channel to a broker, and a new bus means a new
authority with the initial value.  The bus is of the in-process kind, the only one
where this service comes up (section 6), and its `stop()` stops neither authorities nor
launches: `BusStops` drops what was on its way to the broker or to the page, and leaves
what an authority has been handed (`inbox`) or waits for (`launching`).  `owner` tells
whose authority it is, and `Post` reaches the copy there is from any of them.  The
timers of `getSnapshot` are `FetchTimesOut`, after which a first fetch is not made
again and a re-fetch may be, and `ReadTimesOut`.  `mishaps` is history: whether, since
the copy was made, a fetch was given up or an authority of an earlier bus has posted.  `Restart` and `Requests` are written for several
restarts in a row because each connection of the element adds a consumer that
restarts (`consumers`).  A copy that was stopped may still be answered
(`live = FALSE`).  A patch that is applied to another value than it was made for may
apply or throw: both are tried.  `Navigate` decides on the copy, and sends what the
code sends for a basis: the value of the slice, which no authority takes for a
number unless it is still undefined.  `ReadSnapshot` and `ProposeOnSnapshot` are a
client that proposes as the package's tests do.

**BackendAccess, CallWindow.**  A visitor's worker passes requests through
`FetchWithCached` or `FetchAwaiting`; of several that wait one has the exchange, and
`Resume` lets all of them go on together.  `Exchange` is the backend's half and
`ExchangeArrives` the way back, so that an answer may be lost between.  `Terminate` is
the browser ending an idle worker.  `EnforceCostControls` keeps the time stamps it
needs; `CallWindow` keeps all of them and says when a window is full.

## 3. Runs

| run | instance | shows |
|---|---|---|
| `host` | 2 services (with and without initializer, both with slices), 2 entries, 5 messages of which 2 initializers | `InitializerFirst`, `DeliveryOrder`, `AnsweredOnce`, `NothingStranded`, `ActiveServes` |
| `broker` | worker broker, 3 hosts, a call, a behaviour, a nested call, a racing registration; launch failure, crash, timer, disposal | `AnswersArrive`: replies can be routed and a call has one answer; `HostDeliveryOrder`; that the broker implements `RemoteCall` |
| `broker_local` | in-process broker, one service on the local host, without faults or timers | `CallsSettle`: routing and double launches lose nothing |
| `sync` | 2 copies, 2 writers, one mutation rewritten by the schema; loss, failed fetch, timeout, disposal | `CopyFaithful`, `AppliedToWhatWasSeen`, and that the protocol implements `ReplicatedSlice` |
| `sync_gaps` | 2 copies, 3 mutations in a row, one lost patch, fetches succeed | `GapsClosed`: one fetch at a time, and a buffer that is released; `HeardIsShown` |
| `loop` | 2 successive runs, 3 calls (always affordable, affordable from savings, ruinous), 2 turns, 2 calls a turn | `SavingsBounded`, `GateHolds`, `RunsEnd` |
| `turns` | 3 runs that may overlap, 3 calls (a free update, one over the base budget, one with broken arguments and the id of another), 2 turns, 2 calls a turn | `CallsAnswered`, `MemoryOfLastUpdate`, `UndispatchedOfPrevious`, `ToldOnce` |
| `session` | 3 events (start, direct address, scroll), 2 tool calls, timeouts and refusals | `QueueSound`: each event is sent once, and deferred only while the page is busy; `AddressHeard`; until a timeout, `OneRunAtATime`: the page drives the loop as `AgentLoop` expects |
| `content` | 2 paths, 4 contents of a file (a plain one, the same retitled, one with skipped levels and two roots, one without headings), any initial source, one edit, 2 jobs | `RetrievalSound`, `ModifiedListed`, `QuietCompileCurrent` |
| `bus` | 2 buses of either kind, 2 hosts, a call with a call inside and a call beside it, of which a host may refuse any; one later change of options, to the in-process kind, two connections or disconnections | `ElementSound`, `AnsweredInTime`, and that the bus implements `RemoteCall` |
| `interface` | 1 navigation, 1 document opened by the visitor, 2 authorities, 2 buses, one connection or change of options, with an earlier connection or without; fetches given up, authorities of a stopped bus that go on | `CopySound`, `PrecedenceKept`, `ShownInTheEnd` |
| `access` | 2 visitors with 2 and 1 requests, 2 tiers, a known and a forged secret, window 1, lifetime 2, clock to 3, one termination | `TokensHonoured`, `RateLimited`, `SessionStable`, `AnsweredInTheEnd`, and that the backend implements `CallWindow` |

Why these bounds.  A race in the host needs one entry being replaced while its
chain runs (2 entries), a bypassing initializer, a queued one, and a plain
message on either side of it.  A double launch needs two messages to a cold
service and a third host for the nested call.  A gap needs a lost patch and a
later one; a gap found while the buffer is replayed needs three mutations.  The
gate needs a second run, begun under the pressure the first has left, and a turn
of two calls.  A deferred roll needs an event during the interaction, an overlap
a second flush.  An edit between two reads tears a compilation, two jobs let the
older one load last, and two times of loads separate what is listed from what
is not; the initial source already ranges over all contents.  Memory that is
overwritten out of order needs an update denied or rejected between two that are not;
calls told of in two runs need a third that ends between them.  A lost bus needs two
restarts suspended at a time (options incomplete at first, and then changed), and a
double launch two hosts.  A reconnection during a restart needs a third move, which
`bus` has no room for: `BusIsHeld` (section 5) is for any number of moves.  A connection
that restarts several times needs a consumer of an earlier one, which the element of
`interface` may have to begin with.
An authority that survives its bus needs a second bus, and an authority for each.  A limit of 1 with a window of 1 tick lets the same
tier be full, emptied and full again by clock 3, and a token that expires before
that is exchanged again.  `MaxLost` (1), `MaxTurns`, `MaxBatch`, `MaxEdits`, `MaxClock`, `MaxLoadTime`,
`MaxOptions`, `MaxMoves`, `MaxBus`, `MaxStops` and the finite sets of
messages, mutations, events, requests and tool calls are all the bounds there are; no
state constraint is used.  `CHECK_DEADLOCK FALSE` is given everywhere because
every instance has a finite number of messages and then really stops.

Symmetry is used for the identities of hosts in `broker`, of jobs in `content` and of
runs in `turns` only, where no liveness is checked.

## 4. Fairness

Weak fairness is assumed of what an event loop or a timer does by itself:
promise callbacks, message events, the loading of a module, `setTimeout`.  It is
assumed of handlers, of the model and of tools that they settle (either way)
where a run asks about progress (`host`, `broker_local`, `loop`); the code puts
no bound on them.  `session` assumes nothing of the Guide: the timer of the
client alone makes `AddressHeard` true.  `bus` assumes that channels deliver, that
launches settle, and that a method settles once the calls it awaits have, but nothing
of timers: `AnsweredInTime` shows which calls do without, and excuses only the death of
the host a call has come to, or that the broker's map names for its service.
`interface` assumes the same of channels and launches, that authorities take
in what they are handed, and that the timer of a fetch fires.  `access` assumes that the network and the model
settle every fetch, with an answer or without.  Nothing is assumed of visitors, of
senders, of faults, of clocks, of the browser, or of `notifySlicesLoaded`.

## 5. Proofs

TLAPS proves, for any constants that satisfy the modules' assumptions:

* `ServiceHostProofs`, from `HostAssumption`.  `TypeCorrect`, `InitializersRunFirst` and
  `QueuesDrain`: neither property is inductive, since that only an initializer can be
  running depends on what the chain holds, which depends on the state of the entry, on
  how queues are drained and on who owns the entry; `IInv` says so.
  `HandledInTheirOrder`: `InOrder` says that what an entry has handled, chained and
  queued, put together and without the initializers that bypass the queue, is what it
  has accepted.  `CallsAnsweredOnce`: `AnswerInv` says that a message is held once,
  and a call answered exactly when no entry holds it any more.
* `ServiceBrokerProofs`, from `BrokerAssumption`.  `AnswersFindCallers`: by `PlaceInv` a
  message is in one place only, in a channel, waiting for a launch or with a host, as
  itself or as the answer to it, and each place says what is known of it there: its
  home and the broker's table of origins agree, and its method has run or not.  A step
  moves one message and leaves the others (`Left`), which makes the proof one lemma per
  kind of move.  `BrokerKeepsPromise`: the same invariant maps every step to one of
  `RemoteCall`, registrations apart, which the broker answers itself.  A refusal, by the
  broker or by a host, is an answer to a call whose method has not run; a return or a
  failure is one to a call whose method has.  `HandledAsSent`:
  what a handler sends has one home, since a method runs once and in one place
  (`HomeInv`); a host that is being launched has been handed nothing and one message at
  most waits for it (`HostInv`); and what is still in a channel was sent after whatever
  of its flow has left the channels (`OrderInv`).
* `StateSyncProofs`.  `CopiesAreFaithful` and `NothingIsOverwrittenUnseen` rest on one
  invariant in four parts: every copy, patch and snapshot agrees with the authority's
  history up to its number (`Data`); a copy has one snapshot under way at most
  (`Fetch`); a mutation is sent once and answered with what became of it (`Calls`); and
  its basis is the number of what its caller saw, which agrees with the history up to
  there and differs from it by what the schema rewrote only, or is 0 if the caller had
  no value (`Bases`, with `Saw` and `Drifts`).  The module assumes that the value for
  none is no value of the slice (`NoneAssumption`).  `EveryGapIsClosed` is for fetches that do
  not fail, as in the run.  `SliceIsReplicated` is the refinement of `ReplicatedSlice`.
* `GuideTurnsProofs`, about `AgentLoop` and `GuideTurns`, from `LoopAssumption`.
  `TypeCorrect` (pressure is never negative and a carry-over a whole number) and
  `Frugal`: a budget is at most `2 * (Base + MaxPremium)` because a carry-over is at
  most `Base + MaxPremium`, and that because `min(spent, total - spent)` is at most half
  of the total.  `GateDecidesOnce`: in `GateInv` one run goes on at a time, whose
  pressure stays what its gate saw, and what is weighed in a turn is what an overspend
  will charge, unless calls of the turn went together.  `NoCallToldTwice`: what is
  carried is in one place and of a turn that is over.  `MemoryIsTold` (`MemoryInv`):
  memory is the last update among those issued that was not denied.  `PreviousIsTold`
  (`CarryInv`): while runs do not overlap, what the loop carries is what the last run
  that ended has lost.  `ResultsAnswerCalls` (`ResultsInv`): the results of a turn are
  those of its calls, in whatever order they settled.
* `PageProofs`, about `GuideSession`.  `QueueIsSound`: `InOnePlace`, an event is queued,
  held or carried once, and rolls are deferred while a call is waited for
  (`OneAtATime`).  `RunsDoNotOverlap`: until a call has timed out, the page waits
  exactly while the loop runs (`WorkerInv`).
* `PageProofs`, about `StateManager`, from `StateAssumption` and `UndefinedAssumption`
  (`undefined` is no value of another kind).  `CopyIsSound`: as long as its bus has
  launched one authority and none of an earlier bus has posted on the channel since the
  copy was made, the copy, the patches it holds back and those in its channel agree with
  the log of that authority (`AgreeInv`); snapshots come from authorities of the bus
  (`SnapshotInv`), an authority belongs to the bus that launched it even when that has
  stopped (`BusInv`, `LogInv`), and whatever is live was asked for by the present copy
  (`RequestInv`), so that a replay of the buffer, which `StepByStep` takes patch by patch,
  ends in the log again.  Both exceptions are in the property; without either of them
  TLC finds a copy that disagrees with the authority its bus has.  `VisitorsPrecedence`: a proposal of `navigate` has
  the basis 0 or none (`RequestInv`), and an authority, of whatever bus, accepts the one
  only before a visitor has opened anything and the other never.
* `ServiceBusProofs`.  `BusIsHeld`: the element's bus is running and the provider has
  that bus or none.  `BusKeepsPromise`: `TravelInv` says that a call is under way in one
  place, unanswered and not run until it has been taken in, and that an answer on its
  way is true; every step is then one of `RemoteCall`.
* `BackendProofs`, about `BackendAccess`.  `TokensAreKept`: whoever has an exchange under way is the one
  his visitor's other requests wait for.  `TokensCount` (`TokenInv`): who waits, waits
  for an exchange that goes on, and a token in a cache is good by the backend's clock.
  The module assumes that no secret is the value for none.  `BackendLimits`: what the
  backend has kept of a tier's time stamps is the tail of the whole history, and
  nothing before it is in the window (`KeepsRecent`), so that it implements
  `CallWindow`; `WindowHolds`: calls are admitted in the order of time and any two with
  at least `Limit - 1` between them are spread (`WindowInv`), so no window holds more
  than the limit.
* `BackendProofs`, about `ContentStore`, from `StoreAssumption` and `NullAssumption`.
  `QuietCompilesAreCurrent` has two parts.  Of the headings (`AccInv`): the stack of
  `collectSections` holds earlier headings in their order, and every heading that has
  left it was followed by one still there with a level no greater (`StackOf`), so the
  heading above the next one is the last on the stack of a smaller level; the
  counters know every path given out and are never behind the paths below it
  (`CountersOf`), so no path is given out twice.  Of the jobs (`QuietInv`): a job that
  nothing has disturbed has read a part of the listing as the source is now, and has
  the rest of the listing before it.  `InvalidationsNameChanges` (`TimesInv`): whatever
  is in the model has the time of the last load.  `RetrievalIsSound` has the hypothesis
  that no two paths have one document id, without which it is false (section 6).  A
  compiled model is closed (`GoodModel`: an id names one block or document, and what a
  relationship or a root refers to is in the model) because no job reads a path twice
  (`PathsDiffer`); the block store holds the last model whatever it held before
  (`ServedInv`), which is not so of any earlier one; and the cursor of a consumer whose
  blocks have stayed the same is the length of what it has (`PageInv`).
* `SequenceLemmas` holds what these proofs need of sequences and queues.  What a
  recursive function computes is proved there by taking the least place where it fails
  (`LeastNatural`, from the library's theorem on finite sets), in place of an induction
  theorem, which the installed provers cannot instantiate.  `Only` of `Selection` is
  such a function, and stands for `SelectSeq`, which the prover does not unfold;
  `Overlaid` stands for `@@` for the same reason.

An invariant that is not in the tables above was checked by TLC on the instance of its
run before it was proved.

Only model-checked: all liveness (fairness and `ENABLED` are beyond the prover), and
that `Queried` is a sorting of the blocks, which no property states.  Every safety
property of the runs is a theorem.  No module declares a recursive operator.

## 6. What the models leave out

* The resolver and the registry of worker modules, transferable objects, and the
  encoding of envelopes.
* Slices other than one: they share nothing but the channel.  The registry
  pseudo-slice, whose callback no code wires (`authority.ts`, line 168).
* The authority's own queue (`enterQueue`): its service's promise chain already
  serialises the mutations, so it is never found occupied.
* Tools other than `update_working_memory`, whose handlers are a success or a
  failure, except for `navigate` (`StateManager`).  The avatar tools.
* The rest of a prompt, HTTP, signatures of tokens, CORS, and rendering.
* Markdown and YAML parsing, text scores and document trees, the walk of nested
  directories, the compilation report.
* The configurator: merges of configuration objects, which no application calls.
* Lost broadcast messages in `StateManager` (they are in `StateSync`), the focus of the
  interface slice, and patches outside its schema.
* In `StateManager`, the microtask between a navigation's snapshot request and the
  proposal right behind it, in which the two could change places at one host.
* Paths that share a document id: the compiler lets them (`deriveDocumentId` of
  `Compiler` need not be injective), the later file then wins in every map.  The
  instance gives every path its own, and `RetrievalIsSound` assumes it.

Behaviour that was met while modelling and that no property
states follows, so that a
reader of the code need not find it again.

*Runtime.*  `notifySlicesLoaded` is called by tests only, so a deployed service with
required slices stays in `activating_1`; a host whose launch is pending when `stop()`
runs is not closed; `callOrigins` keeps the entry of a call whose host has crashed; a
call to a service whose import is still pending on the local host is answered
`SERVICE_NOT_REGISTERED`; the worker broker has no resolver, so services on its local
host do not load.  Behaviours A and B to one cold service may go to two hosts, B
first, although `runtime.spec.md` (line 424) promises their order:
`HostDeliveryOrder` is what remains of it.  A patch carries the value before the
schema has parsed it (`StateSync`, `Normalised`).  A caller whose copy has not been
initialised sends the basis 0 (`local-copy.ts`, line 92; `store-builder.ts`, line 178),
and its mutation is applied to an initial value it has not seen.  `mutateWithRetry` tests for
`instanceof StaleBasisError` (`store-builder.ts`, line 187), but the error comes back as
a plain `RuntimeError`, so the first stale basis reaches the consumer, against
`runtime.spec.md` (line 921).

*Guide.*  An interaction cut off by a provider failure or `maxTurns` is reported as
`budget-exhausted`; a run that spends nothing under a debt carries the debt over, not
zero.  Several calls of one turn may overspend together without the roll that
`budget.ts` (line 209) promises, since they are weighed before any is charged.  After
the 30 s of the page's client two interactions may overlap, against
`constrained-agent.spec.md` (line 165); the one that ends later then overwrites what
the other had left undispatched (`agent-loop.ts`, line 250), which is why
`UndispatchedOfPrevious` excepts overlaps and `ToldOnce` does not.  A handler whose
value the return schema rejects has had its effect, and is reported as undispatched
and not charged (`tools.ts`, lines 200-207).  Calls that come with another
`finish_reason` than `tool_calls` are dropped.  The assistant message that precedes the
results is made up, with empty arguments, and earlier turns are not sent.  Results of
denied calls never reach the model, because the run ends.  By reading,
`HttpLlmProvider` posts Zod schemas as JSON that the proxy passes to `toJSONSchema`.

*Service bus.*  A disconnection during a restart lets the pending `_startBus` make a
bus for an element that is gone; the provider of a later connection then never gets
its client.  The first update after a connection restarts the bus.  A call made on a
disposed client waits for its timer, and so does one whose launch failed.  A crashed
host stays in `serviceToHost`.  A launch in process that ends after `stop()` leaves a
host behind, and a host that is there goes on with what it has.  The call of a service is forwarded to the client of the page and
ignored there, so that it ends by its timer only, though `host-worker.ts` (line 15) says
that services can call others.

*State manager.*  `stop()` of an in-process bus ends no authority, and nothing calls the
service's `dispose()`, which closes its channel "on deactivation"
(`service-implementation.ts`, line 117).  What an authority had been handed, or waited
for its launch, it then accepts beside the authority of the next bus, and posts on the
same channel name; the new copy takes the patch for its own, against `broadcast.ts`
(line 55, "the authority is the sole poster").  `CopyFaithful` excepts exactly this
(`intruded`), and TLC finds it violated without the exception.  In a host worker the service
never comes up, since its context has no options (`host-worker.ts`, line 54, and
`service-implementation.ts`, lines 73-82).  `navigate` reads the value of the slice as if it were its sequence
number (`ui-control-tools.ts`, line 94), so the authority rejects every navigation once
the slice has a value, against `ui.spec.md` (lines 543-546): `PrecedenceKept` holds for
that reason among others, and would have to be asked again of a corrected tool.  Two
requests that find no authority launch two (`Split`), after which there is no one state
to be faithful to.  A first fetch that fails or is given up after 30 s is never repeated,
and the copy stays without a value.  Each reconnection adds a
`ContextConsumer`.

*Access.*  Requests that come before the worker is active go without token and are
answered 401 (against `ui.spec.md`, lines 406 and 422); a secret in the link of a
returning visitor is never extracted; it is lost when its exchange fails or the worker
is terminated, and gone when its token expires.  There is no retry after a 401, so that
a page whose clock is behind by more than the margin keeps a dead token.  The spend of
a session is never increased and never discarded (`Spend`).  The time stamps of a tier
without limit are never pruned.  An admitted call counts even if its turn fails.

*Content.*  Documents titled to the slugs foo, foo and foo-2 get foo, foo-2 and foo-2,
although slugs must be unique (`authoring-tooling.spec.md`, line 194); a heading that skips a level
becomes a child of the nearest heading before it of any smaller level, against
`authoring-tooling.spec.md` (line 42: of level N-1, or the root); a file with two top
headings has two blocks without a parent, against `content-model.spec.md` (line 130: all but
the referenced one must have a parent), and its tree starts from the second
(`containment-index.ts`, line 39).  `HeadingsContained`, a part of `QuietCompileCurrent`,
states the code's rule, and the instance has both cases in it.  Removed documents stay in the block store,
and are in no invalidation list (`content-first-retrieval.spec.md`, line 317, lists
them); `/toc` is cut off at the default page limit of 20; a webhook whose compilation
is overtaken by an older one leaves the older content until the next; a limit of 0
never ends a walk by cursors.

## 7. Plan

1. (done) `ServiceHost`, `ServiceBroker`, `StateSync`, `AgentLoop`,
   `GuideSession` with their abstract specifications and first proofs.
2. (done) `Compiler` and `ContentStore` with property queries; document trees and text
   search may follow.
3. (done) `ServiceBus`, `StateManager`, `BackendAccess` with `CallWindow`, `GuideTurns`.
4. Page: the reconnection of `darkling-app.ts` with a new event queue, over `ServiceBus`.
5. (done) Proofs of the safety properties of all runs.
