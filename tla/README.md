# SharipovAI: a verification development

SharipovAI is a trading system: AI agents produce decisions, a paper broker
plays them out, a bridge mirrors approved paper trades to the Bybit Testnet
through one guarded gateway, campaigns run that bridge under an owner's
approval, and the installation watches, repairs and updates itself. Mainnet
execution is compiled out. This directory models the parts that keep state,
checks the models with TLC and proves the most important of their properties
with TLAPS.

Paths below are relative to `src/`; `map` in PROJECT.json gives the lines of
every definition.

## 1. Inventory

### The execution path

| Component | State it keeps | Operations | Talks to |
|---|---|---|---|
| Order intent registry (`exchange_connector/bybit_order_identity.py`, `execution_idempotency.py`) | one document: reservations by `orderLinkId` (status, executed quantity, `updated_at_ms`, `order_id`), fingerprints | `reserve`, `bind_submission`, `update_status`, `snapshot`; `mark_submitted`, `bind_accepted`, `mark_rejected`, `sync_private_state` | project database |
| Execution client (`bybit_execution.py`, `execution_contract.py`) | none of its own | `execute`: validate, check switch, check unresolved, preflight, reserve, mark, send, bind | registry, kill switch, exchange |
| Kill switch (`execution_kill_switch.py`) | one document (latched or not), the environment variable `EXECUTION_KILL_SWITCH` | `state`, `assert_open`, `trip`, `clear` | project database |
| Startup reconciler (`autonomous_trading/startup_reconciliation.py`) | none; reads four documents in turn | `reconcile` | registry, private orders, journal, stream gate, kill switch |
| Private order store (`bybit_order_state.py`) and fill ledger (`bybit_execution_state.py`) | each order's status, quantity, `updatedTime`; executions by `execId` | `ingest_message`, `snapshot`, `reconcile` | private WebSocket, reconciler, campaigns |
| Private WebSocket and gate (`bybit_private_order_ws.py`, `private_ws_gate.py`) | connection state, health document | connect, authenticate, subscribe, heartbeat, reconnect; `evaluate` | order store, fill ledger |
| Testnet bridge and shadow bridge (`testnet_bridge.py`, `shadow_bridge.py`) | a record per paper trade, a state document, a cached reconciliation report | `tick`, `_ensure_reconciled`, `_record`, `_set_state` | execution client, reconciler, journal |
| Execution journal (`execution_journal.py`) | rows by event id | `append`, `load` | bridges, reconciler |
| Project database (`storage/project_database.py`) | versioned JSON documents, immutable rows, messages, fixes, decisions | `get_json`, `put_json` (optimistic version), immutable batches | everything durable |
| Order preview and instrument rules (`order_preview.py`) | cached rules | preview, binding | execution client |

### Around it

| Group | Components | What is hard there |
|---|---|---|
| Campaigns | campaigns, scheduler, reports and decisions (`campaigns/core.py`, `orchestrator.py`, `operations.py`, `decisions.py`); scaling authority (`phase10_scaling.py`) | cycle, scheduler and operator on the same documents; a global lock with a finite life; deaths between save, close and bind |
| Market data | ticker stream and verified quote, order book evidence, multi-exchange consensus | out-of-order deltas, damaged messages, a stop beside a reconnect, faulty sources |
| Paper trading | paper broker, council decision, entry and exit, council loop, file-backed virtual account, backtester, walk-forward windows, experiments and promotion | fills staged, consumed, applied and settled in separate database calls; two loops on one account; lookahead |
| Knowledge | memory layer, learning supervisor, development learning, forecast evidence and holdouts, domain store, change ledger, project tables | labels that arrive late, a holdout opened twice, retries after a death between two writes, lock order |
| Installation | self-healing agent and owner gate, deployment from Telegram, approved patches, webhook and identities, worker recovery, system watchdog | files passed between host and container, orphaned agents, redelivered updates, restart budgets |
| Everything else | dashboard, routers, clients, scores, news and AI providers, reports | see `components`: pure functions, I/O or presentation |

The actors are threads of one process (bridges, the campaign scheduler, HTTP
handlers, WebSocket workers), several processes on one database, and the host's
shell services. What is hard: sequences of separate storage calls that two
actors run at once; an exchange that may take a request after its caller has
given up; deaths between any two calls; snapshots read one after the other and
used later; events that are lost, repeated and late. `hazards` in PROJECT.json
lists each one at its line with the properties that would catch it.

### What correct means

| Component | Correct means | Stated as |
|---|---|---|
| execution client | reserved and marked before sent; sent once; after the latch no new submission | `ReservedBeforeSent`, `SubmittedAtMostOnce`, `LatchStopsSubmission` |
| registry and reconciler | a retry never executes beside its predecessor; closed means closed at the exchange with its quantity; a live order is never hidden; final evidence closes its reservation | `OneAttemptExecutes`, `ClosedAgreesWithExchange`, `LiveOrderIsUnresolved`, `EvidenceResolves` |
| project database | a get, change and put under `expected_version` acts at one instant; rows are write-once, lock orders cannot deadlock | `ImplementsAtomicDocument`, `NoLostUpdate`, `ConflictMeansProgress`, `StorageStands` |
| private stream | an open gate has a live, subscribed session behind it; stored orders and fills agree with what was received | `StreamIsSound` |
| bridges | a record of a trade is journaled first, replaced only by a tick that overlapped its writing, and under no campaign younger than the trade | `MirrorIsFaithful` |
| market data | what is usable is fresh, in sequence and agreed | `MarketDataIsSound` |
| preview | a bound order is the one previewed, within its limits | `PreviewIsSafe` |
| campaigns | an ended campaign stays as it ended; approval rests on its report; one authority at most | `CampaignIsSound`, `AuthorityIsExclusive` |
| paper trading | books add up; nothing is traded without a consumed authorization; an entry is paid for; saved is loaded; promotion follows its report; no lookahead | `BooksAreExact`, `CouncilIsSound`, `CouncilIsShared`, `DecisionIsEarned`, `EntryIsSound`, `AccountIsSound`, `PromotionIsEarned`, `ReplayIsHonest` |
| knowledge | evidence is what could be known then; a holdout opens once; known facts do not contradict each other; learning counts outcomes once | `EvidenceIsHonest`, `HoldoutOpensOnce`, `MemoryIsSound`, `LearningIsSound`, `DevelopmentIsSound` |
| installation | actions run once and only when approved, also beside an orphaned agent; reported success happened; updates are handled once; restarts are bounded | `HealingIsAuthorized`, `DeployIsConfirmed`, `PatchIsExact`, `UpdatesOnce`, `RecoveryIsBounded`, `WatchdogIsBounded` |
| threads that run on their own | what was begun ends | `Progress` |

## 2. Modules

### The gateway

* `OrderIntentRegistry`: the registry's document and its mutations as operators
  (`MayReserve`/`Reserve`, `MayBind`/`Bind`, `MayUpdate`/`UpdateStatus`): the
  first of each pair is what the code checks before it raises, the second what
  it writes. An `orderLinkId` is a hash of the intent, so the pair (root,
  attempt) stands for it.
* `PrivateOrderState`: the merge of a private order event into the stored order.
* `ExecutionGateway`: the state machine. `doc`, `latch`, `priv` and `journal`
  are the four documents; `exch`, `sends` the outside world; `pc`, `req`, `t0`,
  `safe`, `view` what the threads hold in memory and lose in a `Crash`. The
  steps of `execute` and of `reconcile` are one action per storage or network
  call.
* `VersionedDocument`: one document under the loop of `get_json`, change,
  `put_json(expected_version)` and retry. On SQLite a put is one action, on
  PostgreSQL its check and its upsert are two, with the row lock between them.
* `AtomicDocument`: the abstract call, which `VersionedDocument` implements and
  `ExecutionGateway` takes each of its storage actions to be.
* `MCDocument`: the document's instance for TLC. `ExecutionGateway` is run as it
  is, with its symmetry sets at its end.

How actions correspond to code, beyond `map`:

* One call that reads a document, changes it and writes it back under
  `expected_version` is one action: a concurrent writer makes `put_json` raise
  `VersionConflict` and the call starts over (`_update`, five times; `trip`,
  three times) or raises (`clear`). Giving up is `StoreFails`, `ReconcileFails`
  or `SyncReservation` with `worked < 2`.
* `Begin` takes any link at any time. The bridges skip paper trades they have a
  record of and always pass attempt 1; the model allows more, as `execute` itself
  does. A thread that runs `tick` for an HTTP request is one more bridge.
* `Send` and `Respond` are apart because the answer is: the exchange decides at
  `ExchangeDecides`, at any time after the request is on the wire, also after
  the caller timed out (`Respond` to `"trip"`).
* `Ingest` delivers the order's current state. A state that was replaced before
  it was ingested is a lost event; a repeated one changes nothing; one that is
  overtaken is refused by `Accepts`.
* `late` is a history variable: the requests a bridge sent since the latch.
* `clock` is both the local clock and the exchange's: they agree, so what the
  runs find is not clock skew.

Assumed of the storage, in the gateway: a call that raised wrote nothing (the
component models of campaigns, scaling, bridge, webhook and council loop do let
a commit lose its acknowledgement), and the row of each document exists on
PostgreSQL before two callers meet on it. The components below whose row is
missing at first do not assume that: there a second first writer goes through.
Assumed of the exchange: an answer carries its `retCode`, a non-zero one means
that no order was created, and a spot market order goes New, PartiallyFilled,
Filled or cancelled.

### The components

| Module | Models | One action is |
|---|---|---|
| `PrivateStream` (with `PrivateOrderState`) | WebSocket session, health document and gate, order store, fill ledger | a call on the socket, one message, one save |
| `TestnetBridge` | both bridges, journal, state document; a state's put may conflict or raise, with or without having written | a storage or gateway call of a tick |
| `VerifiedQuote`, `MarketConsensus`, `OrderBook`, `OrderPreview` | public market data and what is bound to it | a message, an answer, a preview |
| `Campaign` | campaign, schedule, report and decision documents; scheduler, cycle, operator | one storage call; what a cycle's collaborators find is an input |
| `Scaling` | lock and activation records | one storage call, which may raise with or without having written; a first put may cross another |
| `PaperBroker` | account document under `execute` and `mark` | a read or a versioned put |
| `CouncilDecision`, `PaperEntry`, `CouncilLoop` | from a quote to an authorization; from a proposal to a fill and its exit; from a staged fill to a settled trade | a database call of a tick |
| `VirtualAccount` | the engines on one state file with its backup | a file operation |
| `Backtest`, `WalkForward`, `Experiments` | replay of events; windows and chained capital; life of an experiment, champion and challenger | an event, a window, a storage call |
| `MemoryLayer`, `LearningSupervisor`, `DevelopmentLearning`, `ForecastEvidence` | logs to facts, with the extraction on, refused by the policy or off; settlements to policies; outcomes to packs; captured forecasts to labels and readiness | a transaction or a step of a worker; a row's time stamp is a step of its own before its transaction |
| `HoldoutClaims` | the two registries of holdout claims, their runners and what these write | a registry transaction or a file |
| `ProjectTables`, `DomainLedger` | rows, locks, foreign keys; snapshots and changes | a statement or a transaction |
| `SelfHealing`, `DeployControl`, `ApprovedPatch` | host services and the files they share with the application; an agent left by a dead wrapper goes on beside the next one | a file operation or a command |
| `TelegramWebhook`, `WorkerRecovery`, `SystemWatchdog` | updates and logins; worker restarts; bounded recovery | a database call; a step of a tick, of which two threads may have one each |

The components share no document with one another beyond those inside one
module, so they are not composed. Four suites check them together, to share one
run: `MCExchange`, `MCKnowledge`, `MCOperations`, `MCPaper`; `MCProgress` does
the same for liveness. The variable `part` names the component a behaviour is
about; the others keep their initial state, which loses nothing because no
action of one component reads a variable of another.

The components with proofs are *extended* by their suite and by the proof
module, so that a theorem is about the very definition a run checks; their names
carry a prefix (`CampaignInit`, `HealingSpec`, ...), which lets one module
extend two of them. The others are instances, several where a component has
several questions: `Quote`, `QuoteShared`, `QuoteAgain` and `QuoteFaults` (two
callers who wait for a sample, on tickers of different prices, calling again;
one with a fault), `Watchdog` (two threads) and `WatchdogKinds` (a component of
each kind), `Preview` and `PreviewAge`, `Memory` and `MemoryFaults`, `Tables`,
`TablesLite` (SQLite) and `TablesAgents`, `Domain`, `DomainPg`, `DomainEvidence`
and `Change`, `Observer`, `ObserverFaults`, `Labels`, `Readiness` and
`ReadinessDies`, `Entry`, `EntryFaults` and `EntryVetoes`, `Account`,
`AccountAlone` and `AccountLegacy`, `Test` and `TestThin`, `Decision`,
`DecisionInputs` and `Asked`. Of an extended component some parts restrict the
steps instead: `campaign` (two campaigns, no fault) and `campaign_faults` (one),
`bridge` (one trade, a request beside the loop) and `bridge_alone` (two trades),
`webhook` (updates) and `login` (identities), `recovery` (two faults) and
`recovery_budget` (time for every attempt), `council` (a failing call, one
death) and `council_crash` (three deaths), `experiments` (one is run and judged)
and `leadership` (two that are promoted lead), `alpha` (alpha runners and
replaced manifests) and `holdout` (forecast evaluations). `CouncilTwo` is an
instance of the council loop with variables of its own: two processes on one
account.

## 3. Runs

| Run | Instance | Shows |
|---|---|---|
| `gateway_race` | 2 bridges, 1 intent, quantity 2, 1 fault | one request per intent, reserved before it is sent, closed as the exchange closed it, through every race and crash |
| `gateway_retry` | 1 bridge, 2 intents with 2 attempts each, 1 fault | a retry never executes beside its predecessor, an unresolved intent keeps the other one back, a latch outlives restarts |
| `gateway_resolves` | 1 bridge, 1 auditor, 2 timestamps, fairness | live orders stay visible, final evidence closes its reservation |
| `gateway_two_bridges` | 2 bridges, 2 intents | **violated**: two bridges pass the unresolved check together |
| `gateway_late_bind` | 1 bridge, 1 auditor, fairness | **violated**: evidence with an earlier timestamp never resolves |
| `document` | 4 calls, 2 tries, SQLite from the first write on and PostgreSQL over an existing row | the update loop is one atomic call, loses nothing, and gives up only when others got through |
| `paper_exit` | a position near the minimum notional | **violated**: its stop-loss is rejected on every tick |
| `exchange` | `MCExchange` | stream, bridge, market data, preview, campaigns, scaling |
| `knowledge` | `MCKnowledge` | memory, learning, evidence, holdouts, storage |
| `operations` | `MCOperations` | self-healing, deployment, patches, webhook, recovery, watchdog |
| `paper` | `MCPaper` | broker, account, decision, entry, council loop, experiments, replay |
| `progress` | `MCProgress`, fairness | a dropped stream reconnects, a log entry leaves the queue, a deployment request is answered, a claimed repair ends, the windows of a walk-forward run out |

Bounds. Two bridges are all the races there are between an owner of a link and
somebody else; one intent makes them meet, two let them pass each other. Two
attempts are a retry and its predecessor; quantity 2 has a partial fill; two
timestamps order a write before or after an event; one fault puts one crash or
failure at every point. Four calls with two tries let one call be overtaken
twice while a fourth is in the way. In the suites two actors meet wherever the
code has two, faults and deaths are one or two (three deaths for the council
loop, whose staging takes two restarts to go wrong; four for self-healing),
prices and quantities are the few values that fall on either side of each
threshold. The order book keeps two levels of a topic of three, the memory layer
compares with fewer facts than it knows, the watchdog's window is full before
the ticks run out, and readiness gets past the end of its plan, so that each
limit is met. Every bound is a CONSTANT and is given in the suite or its `.cfg`.
The proofs remove them for the properties they state.

Deadlock is checked in the gateway runs: an idle thread can always reconcile, and
a bridge whose report is safe can always begin. It is not checked in the document
and suite runs, where calls, bounded clocks and bounded requests all end.

Fairness. In the gateway only an auditor keeps taking steps of `reconcile`, which
the campaign thread does: its loop calls `run_cycle`, and with it `reconcile`, at
every interval, and `reconcile` has no wait in it. `MCProgress` asks weak
fairness of threads that loop on their own: the stream's worker, the memory
worker and its circuit, the deploy watcher, the self-healing agent, application
and host service, the loop over windows; and strong fairness of `DeployEnds`, a
deployment that is tried again after each death and does not die for ever: a
request older than fifteen minutes is refused
(`deploy/vps/sharipovai-deploy-watcher:295`), which bounds how often. A container
that a deploy left down is started again, by the restart policy or by hand. The
log of `LogEnds` leaves the queue if the extraction is on from some time on: a
policy that refuses and a configuration that is off stand for a whole process. No
fairness is asked of the exchange, Telegram, an operator or the owner.

The violated runs are in `findings`. `UnresolvedBlocksSubmission` holds with one
bridge (`gateway_retry`). `EvidenceResolves` is the form of its claim that the
code keeps: evidence closes the reservation unless the reservation has the later
timestamp.

## 4. Proofs

Hypotheses on constants are named definitions in the proof modules (`Constants`,
`ScalingConstants`, `BridgeConstants`, `BrokerConstants`, `ExperimentConstants`,
`DeployConstants`, `HealingConstants`, `PatchConstants`, `RecoveryConstants`,
`LearningConstants`), or the ASSUMEs of the gateway, the document and the
holdout claims. None restricts how the system behaves: bounds are natural
numbers, a "no value" constant is not one of the values.

### Gateway (`ExecutionGatewayProofs`)

For every set of bridges, auditors and intents, every number of attempts, every
clock and any number of faults: `TypeCorrect`, `Invariants`, and from them
`ReservedBeforeSentHolds`, `SubmittedAtMostOnceHolds`,
`LatchStopsSubmissionHolds`, `ClosedAgreesWithExchangeHolds`,
`LiveOrderIsUnresolvedHolds`, `OneAttemptExecutesHolds`. Assumed:
`MaxAttemptIsPositive`, `NoIdIsNotALink`, `BoundsAreNatural`, `ActorsAreDisjoint`.

None of the properties is inductive alone. `SubmissionInv` adds who *owns* a
link: a bridge between its reservation and its send is the only one there, has
not sent yet, and is past `Reserved` when it gets to the send. That a second
bridge cannot become an owner follows from `reserve` refusing what is reserved;
that an owner has not sent, from `ReservedBeforeSent` itself at the moment of
reservation. `LatchInv` says that a bridge that sent late is not between
preflight and send again. `AgreementInv` follows evidence from the exchange
through the private store into every thread's snapshot: evidence exists only for
orders the exchange took, and final evidence, however old the snapshot, is the
order's last word. `AttemptsInv` says that all attempts below the latest are
closed without a fill; with `AgreementInv` that is what the exchange says too.
The step lemmas `DocumentSteps`, `ExchangeSteps`, `EvidenceSteps` and
`RejectSteps` say once, action by action, what a step may do to the registry, the
exchange, the evidence and the way to a recorded rejection.

### Document (`VersionedDocumentProofs`)

For any number of callers and tries, and `AlwaysLocked` (SQLite, or a row that
exists): `ImplementsAtomicDocumentHolds`, `NoLostUpdateHolds` and
`ConflictMeansProgressHolds`; `DocumentTypeCorrect` needs no such assumption.
`LoopInv` says that every version is one committed put, that what a call read is
what the row holds as long as the version is the same, that a call past its check
holds the lock (the part that fails without a row), and that every failed try was
overtaken by a put. With it each step of the loop is `Apply`, `Raise` or a stutter
of `AtomicDocument`.

### Campaigns, scaling and the bridge (`CampaignProofs`)

`CampaignIsSoundHolds`, for any processes, schedules, requests and faults, with
`MaxCampaigns` a natural number. The property is an invariant and two action
properties. `CampInv` adds to it what a cycle knows at each label: as long as the
version it began with is the campaign's, the campaign has not ended (`Current`);
the process whose save ended it is the only one that closes, reports and binds
it (`Closes`, `OneCloser`); an approval being decided has the report it names
(`Holds`, `Binds`); campaigns are created in order, so that a new one replaces
none (`InOrder`), and schedules name campaigns that exist (`Named`). One lemma per
action; `CampaignWriters` says which actions can touch a campaign at all.

`AuthorityIsExclusiveHolds`, for any operators, activations, times to live and
storage failures, with the lock's row missing at first. On PostgreSQL a second
first writer may then replace the first one's lock; that one wins and that a
revocation takes its own lock is stated until this has happened (`overwritten`),
that what was revoked or raised is refused always. `ScalingInv`: the version an
operator read with the lock says what it may overwrite (`LockInv`); it works on
an activation of its own (`OwnInv`); an authority that was granted, or is about
to be, still holds the lock (`HoldInv`); whatever an activation that raised left
behind cost a failure for each write (`FaultInv`), which is where the property's
"fewer than three failures" comes from; a validation that read a record before
the lock still refuses what was revoked in between (`CheckInv`).

`MirrorIsFaithfulHolds`, for any trades, request threads, ticks, storage
failures and deaths, with `MaxTime` a natural number: the three invariants and
both action properties. `BridgeInv` follows a thread from the read of the
authorization to the record: the trade is no older than the campaign the thread
goes on with, whatever became of the campaign since (`AttachedOK`), and what the
record will say is in the journal and, if it says accepted, was accepted
(`OutcomeOK`). `VersionsOK` is about the version the threads share without a
lock: it is the stored one, unless exactly one thread is between its put and its
assignment, or a put had written although it raised (`unheard`). With `Placed`
(only the loop handles errors) this is what the property says of the end of the
loop's thread: a failing storage ends it, a put that raised after it had
written, or a request at that point, and nothing else. A record is replaced only
by a thread that took the trade up while it had none (`Recording`): two threads'
first puts of it may both succeed on PostgreSQL, which the property allows, and
each uses that up.

### Paper books, the council loop and experiments (`PaperProofs`)

`CouncilIsSoundHolds`: for any processes, decisions, prices, failing calls
(carried out or not) and deaths, no authorized trade is stored without its
consumption, the position is what the trades leave open, and the history is
backed by the account. Assumed: `NoDecision` is not a decision, nor is the
recovery's label `"prot"`. `CouncilInv` is about every copy of the account
document, in the database, in a process and set aside by it: each is sound by
itself (`Sound`), and a copy that may be written back holds every trade of the
document it replaces (`Base`). The property's last conjunct, that a process alone
keeps what it consumed and settles as it traded as long as no call has failed,
needs `AloneInv`: what the process is doing with a staged fill follows from its
label (`Doing`), and whatever is staged still fits the books (`Rest`). TLC showed
why the condition is there: with one failed call, or with two processes,
`ConsumedIsKept` and `SettledAsTraded` are false.

`BooksAreExactHolds`: for any threads, fill ids, prices, fees and funding rates,
cash, positions and costs add up to the fills, a fill id is applied once while the
history is not full, and one id has one answer. `BooksInv`: the books balance in
the stored account and in every local result (`Good`, `GoodLocal`), and what was
applied is among the stored fills (`Remembered`). `Share` and `IntShare` are the
facts about integer division a partial sale rests on. Assumed: typed constants,
and `"none"` is not a fill id.

`PromotionIsEarnedHolds`: for any experiments, workers and numbers of results,
operations and deaths, a completed experiment has its results stored, a promoted one
was approved on an eligible report about the results it still has, there is one
champion, and a champion that is replaced retires for good. In `ExperimentInv` each
document is `WellEarned` by itself; what an operation read is the document it writes
over as long as the version is the same (`WorkOk`); and a run knows at step 2n + 1
that result n is stored, later that it is recorded, and that nobody has judged its
experiment meanwhile (`RunKnows`). Every write of a document goes through one lemma
(`DocumentMoves`), which makes every other reader of it stale. Assumed:
`Missing` is neither an experiment nor a report, `Results` is a natural number, and
what was promoted before is an experiment.

### Telegram (`OperationsProofs`)

`DeployIsConfirmedHolds`: any handlers, confirmations and deaths of watcher and
container; one token starts at most one request, and success is reported only of
a request whose deploy succeeded. A token is a number given out once, and
`TokenInv` says where it is: with the owner, with one handler, or in one
request. That bounds the requests by the tokens, so that the request the watcher
deploys has a counter (`WatcherInv`). Assumed: `MaxRequests` is a natural
number, `Nothing` is neither a number nor `"confirm"`.

`UpdatesOnceHolds`, with no assumption: an update is handled once however often
it is delivered (`UpdateInv`: a claim is spent once, on a worker that routes the
update, a place in the queue, or its handling), the bot's name is asked for once
per cooldown (`NameInv`), and a session is of the account its identity is bound
to (`LoginInv`), unless two first bindings of that identity met on PostgreSQL,
where the second replaces the first (`rebound`).

### Self-healing, patches and worker recovery (`OperationsProofs`)

`HealingIsAuthorizedHolds`: any generations, decisions, corruptions and deaths of
the wrapper, which may leave its agent running. The next wrapper starts an agent
that finds the lock held and ends at once, and goes on: it reads, claims, executes
and terminalizes while the orphan still publishes. An action may end the processes
in the container or leave them. A generation is run at most once
because the authority to run it is in one place, its metadata or the host that
took it (`OnceInv`); a restore is executed by the host that consumed the owner's
approval, which no other step gives back (`OwnerInv`).

`PatchIsExactHolds`: any proposals, deaths of the host and lost answers. A
proposal is bound to the length of the log, and all its commits come later
(`BaseInv`): a patch that passes the check is in no commit, and nothing else
commits until the host is done with it (`HostInv`). A patch left in the worktree
by a death keeps every other out of it (`WorktreeInv`); the manifest names no
decision that was not approved (`QueueInv`). Assumed: `Unset` is neither a
proposal nor an outcome.

`RecoveryIsBoundedHolds`: any processes, deaths and stops, any backoffs and any
time. A verified attempt has had a result since, always. A dead worker is
started three times at most, each attempt after the backoff of the one before,
unless two first claims met on PostgreSQL (`replaced`): the repair document has
no row at first, both claims go through, and the worker is started twice under
attempt 1. `HeldInv` says what a monitor's copy of the document is worth: while
the version is the same, it is the document. `CountInv` counts: every start that
was made, and every monitor on its way to one, has an attempt of its own in the
document, which a death can waste but not return. `ObservedInv` and `DecidedInv`
follow a result from the worker to the published observation and to the
verification. Assumed: backoffs and `MaxFaults` are natural numbers, `MaxTime` a
positive one.

### Knowledge (`KnowledgeProofs`)

`HoldoutOpensOnceHolds`: for any runners, ranges, directories, windows, earlier
receipts, runs and deaths, and with manifests replaced at any time, an opened
range is claimed by the run that opened it and overlaps no other opening, and a
completed claim carries the report of its own run. The claims of runners in the
registry of a dataset do not overlap, and a runner's claim among the receipts of
any directory is in the registry (`AlphaInv`); the scope starts with the sealed
range (`ScopeInv`); an opening has the claim of its run (`OpenedInv`); a report
or an artifact is of a run that got to its verdict, and a run gets there once
(`ReportInv`, `ArtifactInv`). Assumed (`HoldoutAssumption`): ranges are ranges,
earlier receipts are not of a runner of the model, `"sealed"` is not a runner,
bounds are natural numbers.

`LearningIsSoundHolds`: for any workers, decisions, agents, deaths and edits of
settlements, an outcome is counted once for an agent, a challenger is of outcomes
every agent was scored on, and lineage comes before what rests on it. `LearningInv`
says what a pass knows at each step (`PassOk`): an agent's metrics it has read and
that are still fresh lack the outcome it is about to apply, and what it has yet to
repair together with what is applied is its whole summary. Assumed:
`NoLabel` is not a label.

`DevelopmentIsSoundHolds`, with no assumption: examples are fixes that succeeded
and are recorded, and the proposal of a week counts recorded outcomes and is
replaced only by a review that looked before it was there (`Proposing`), which
needs PostgreSQL, whoever records, rebuilds and reviews. The ledger only grows,
so that what a call has read is still true when it writes (`TaskOk`);
`LateReviews` says that each replacement uses up one such review.

### Only model-checked

* Liveness (`EvidenceResolves`, `Progress`): out of the prover's reach.
* `UnresolvedBlocksSubmission`: true with one bridge only.
* `CouncilIsShared`: the council loop's theorem already covers any number of
  processes; the run shows that two do meet.
* `ReplayIsHonest`, `MemoryIsSound`, `StorageStands`, `EntryIsSound`: partly about
  folds and sums over histories, whose induction the provers cannot do.
* `StreamIsSound`, `MarketDataIsSound`, `PreviewIsSafe`,
  `EvidenceIsHonest`, `DecisionIsEarned`, `AccountIsSound`: not proved yet; see the
  plan.
* `WatchdogIsBounded`: how many attempts a sliding window holds is a count over a
  filtered sequence, which again needs induction over data.

## 5. What is not modelled, and what was observed

`components` gives the reason for every part left out. Scoring, statistics and
presentation have no protocol to check; floating point quantities are lots. The
contents of a request are one nondeterministic refusal in `Begin`; the notional
cap and the credentials one in `Preflight`.

Three disagreements between the code and what it says of itself are runs. The
models show, or their making showed, others. They are left out of the runs to keep
these few, and the properties that hold are stated so as not to claim them.

Exchange and campaigns:

* a conflicting `execId` is counted in memory only (`bybit_execution_state.py:134`),
  so that a later reconciliation passes;
* when the first health save of a restarted process fails, the old document keeps
  the gate open until its heartbeat is too old (`bybit_private_order_ws.py:340`);
* after a launch that raised, `tick` goes on with its old list of active campaigns
  and may launch a second one (`campaigns/orchestrator.py:164`);
* a death between a campaign's save and the binding of its report is never made
  good (`campaigns/core.py:156`), and a report requested before the binding is a
  second document (`dashboard/campaign_api.py:205`);
* three storage failures can leave a raised activation authorized
  (`phase10_scaling.py`), hence the bound in `RaisedIsRefused`;
* any error of the storage in the handler of the bridge's loop ends its thread,
  with nothing that starts it again before the next start
  (`testnet_bridge.py:318`); a put that raised after it had written leaves the
  object one version behind, so that the next one conflicts;
* the latch can be cleared with a report that was read before a later trip;
* on PostgreSQL two first writers of a document both return, and the second
  replaces what the first wrote (`storage/project_database.py:295`). Of the
  modelled components this undoes: one winner of the scaling lock
  (`campaigns/phase10_scaling.py:200`), one start for the first attempt of a
  worker (`dashboard/ai_runtime_watchdog.py:120`), one account for a new
  identity (`dashboard/telegram_identity.py:88`), one proposal for a week
  (`learning_engine/development_learning.py:492`), one record of a trade when a
  request ticks beside the loop (`testnet_bridge.py:354`). Their properties are
  stated until it happens, or allow exactly it; the gateway and the update loop
  are run over existing rows. The same lets a portfolio snapshot go back
  (`storage/domain_store.py:156`) and a change be created twice
  (`storage/change_ledger.py:70`), and a change's event may be missing after a
  death (`storage/change_ledger.py:76`);
* `_trim` forgets levels the exchange still has
  (`bybit/order_book_stream.py:127`): with fewer levels kept than the topic has,
  the best price may be wrong once better levels went, which `BestFaithful`
  excepts; a level that does not parse raises without a reset (`:88`), and the
  book's age at evaluation is not looked at
  (`bybit/market_evidence_quality.py:87`);
* a spot sale with a zero balance can be previewed but not bound; `stop` racing an
  acknowledgement of the ticker leaves `connected` set.

Paper trading:

* a fill id older than the bounded history is applied again
  (`trading_core/paper_broker.py:130`); funding may take cash below zero, after
  which the state is refused for ever (`:210`);
* in the council loop, once a call has failed, a consumed authorization may be in no
  document (`council_loop.py:842`), a trade's settlement differ from its price
  (`:712`), the next start refuse its own history (`:1456`), and a staged sale be
  refused for good after a protective exit (`:948`);
* the block reason `protective_forecast_horizon` is in neither reason list of
  `paper_reentry.post_stop_reentry_block`; `REVIEWED_MODELS` is empty, so that as
  shipped no BUY passes;
* `manual_decision` can reject a promoted experiment
  (`experiments/registry.py:294`), and a promotion may lack its event (`:393`);
* the virtual account saves a copy loaded before the quotes were fetched
  (`market_paper_engine.py:53`), and the legacy close adds a fee that was taken
  already (`paper_activity_engine.py:259`);
* `evaluate` splits 60/20/20 where the readiness plan has boundaries at 21, 28
  and 36 days; readiness labels an anchor with the first fitting quote in the
  order of the rows, the evaluation with the one received earliest, so that a
  counted anchor may be no sample (`CountedIsObserved`);
* a row is stamped before its transaction begins (`storage/project_database.py:291`)
  and may become visible later: an opportunity may lack rows that are stamped before
  its decision, and which ones it has is not determined (`AssessedAsOf`);
* `start` of the economic observer racing an exiting thread leaves no
  worker.

Learning and installation:

* the supervisor judges settlements it listed earlier
  (`self_learning_supervisor.py:52`); a death between experiment and challenger
  blocks every retry (`research_challengers.py:104`); two outcomes of one decision
  are both accepted (`development_learning.py:151`), and an older rebuild may
  replace a newer index (`:294`);
* `stop` of a worker can be undone by a recovery that checked before
  (`dashboard/ai_runtime_watchdog.py:124`); two ticks that handle a component at
  once exceed the watchdog's budget (`dashboard/system_watchdog.py:132`) and may
  leave a healthy component in safe mode, which the properties except (`met`);
  that both may take the last attempt out of the window, where one then fails
  with an IndexError (`:131`), is left out;
* a fact is compared with the first hundred facts known
  (`memory_engine/service.py:210`): beyond them it may repeat or contradict one
  (`KnownConsistent` is stated up to that number); where the provider policy
  refuses or the extraction is off, a log stays pending for good
  (`memory_engine/service.py:229`, `:178`);
* self-healing: a claim may hold metadata of no generation and block later claims
  (`tools/self_healing_agent.py:172`), a terminal result clears an action queued
  meanwhile (`:211`), verify mode publishes actions (`:658`), and an executed
  decision stays executing (`development_control/general_controller.py:341`);
* deployment: a later request can be unlinked (`telegram_deploy_control.py:381`)
  and a second one queued while a deploy runs (`:359`); two owners may claim
  (`:152`); a deploy that leaves the container down can neither report nor
  remove its request, which is deployed again
  (`deploy/vps/sharipovai-deploy-watcher:250`);
* patches: a lost answer reverts an applied patch whose ledger entry stays
  (`self-healing-approved-patch.sh:371`), a death leaves a decision approved for
  ever (`:368`);
* webhook: a commit that raised makes its update a duplicate
  (`telegram_update_idempotency.py:38`).

## 6. Plan

Done: the gateway, the document and its refinement, the components above, and
proofs of fourteen components beside the first two.

1. Proofs next: `EvidenceIsHonest` and `StreamIsSound`. A
   component is extended by its suite first, so that the theorem and the run share
   the definition.
2. Models left: learning observations and reputation V2, Telegram's menus as
   far as they write, data integrity and access control of the dashboard.
3. The abstract promise of the gateway (an intent is absent, claimed, sent,
   closed), refined by `ExecutionGateway`, and the bridges composed with it.
