# Open-Falcon: models, checks and proofs

Open-Falcon (falcon-plus) is a monitoring system made of Go processes that talk
net/rpc, HTTP, redis and MySQL. This directory holds TLA+ models of it, TLC
configurations that check them on small instances, and TLAPS proofs of the
results that hold for every instance. Every definition is translated from the
source; `PROJECT.json` ("map") names the lines each one stands for.

## 1. The system

| component | state it keeps | operations | talks to |
|---|---|---|---|
| agent | rpc clients, plugin schedulers, watched metrics | collect, push, report, plugin and metric sync | transfer (rpc), hbs (rpc) |
| transfer | one size-limited send queue and one connection pool per backend node, consistent-hash rings | receive (rpc, http, telnet), push to queues, forward tasks with retries | judge, graph, tsdb (rpc, tcp) |
| connection pool | idle list, table of open connections, counter | Fetch, Release, ForceClose, Call with timeout | used by transfer, gateway, api |
| gateway | one queue, calls in progress per transfer | receive, forward over several transfers | agent, transfer |
| graph | GraphItems (cache of points per series), HistoryCache, index caches, rrd files, flags of the migration | Send, Query, Last, GetRrd, Delete; syncDisk, ioWorker, migration workers, index tasks, CleanCache, shutdown | transfer, api, other graphs, MySQL, disk |
| judge | HistoryBigMap (points per series), strategies, expressions, LastEvents | Send, judge, clean, sync of strategies | transfer, hbs, redis |
| hbs | nine cached tables, agents map | report, strategies and expressions for judge, plugins and metrics for agents, refresh loop, sweep | agent, judge, MySQL |
| alarm | redis queues, event tables | read events, consume, combine, send, record cases | judge via redis, mail/sms/im gateways, MySQL |
| nodata | configuration, items, statuses, mock map | collect, judge, mock, send | graph (via api), transfer, MySQL |
| aggregator | one goroutine per row of the cluster table | refresh, compute, push | api, agent, MySQL |
| api | MySQL (users, sessions, teams, groups, templates, dashboard, cases) | REST handlers | MySQL, graph |
| ctl, status pages | none | start, stop, show | everything |

A metric goes agent -> (gateway ->) transfer -> {graph, judge}. graph caches and
stores it and answers queries; judge keeps the last points, decides on alarms and
pushes events to redis, where alarm takes them, tells the members of a team and
records cases the users of the api decide about. Users configure groups,
templates and plugins in the api; hbs reads them from MySQL and hands them to
judges and agents. nodata and aggregator read points and push points of their own.

### What is hard in this code

* **Goroutines per request.** net/rpc and gin serve each request in its own
  goroutine, and transfer sends batches in parallel and retries them. Points of
  one series arrive repeated, out of order, and are handled at the same time.
* **Locks around single accesses.** Maps and lists have locks, held for one
  access at a time. Look-then-store (`PushFront` of graph, `PushFrontAndMaintain`
  of judge, `SafeListLimited.PushFront`, `LastEvents`, `Agents.Put`, the migration
  flags, the calls in progress of gateway) is not atomic.
* **Rows read, changed and saved.** Handlers of the api check before they open a
  transaction, or open none; alarm and api write the same rows.
* **Timeouts.** A call abandoned by its timeout may still be served later.
* **Stages without a transaction.** A point is in the cache, with a committer, in
  a channel, in a file; an event is in redis, with a reader, with a combiner:
  failures, queries and shutdowns meet it in between.
* **Tables loaded one by one.** hbs answers from a mixture of old and new ones.
* **Memory-only state.** LastEvents, caches and popped messages do not survive a
  restart.

`PROJECT.json` ("hazards") lists these places by line, with the properties that
watch them.

### What makes each component correct

* pool: the books balance, one caller per connection, refusals only when all
  connections are in use;
* transfer and gateway: an item accepted is sent, or counted as failed or
  dropped, exactly once, and neither a queue nor a transfer gets stuck;
* graph: a new point is never lost between cache and file, a query sees it, Last
  is the newest, the shutdown ends; a series that moves keeps its history;
* judge: histories ordered and bounded, episodes that open and close once, also
  over a restart, no point used for two alarms;
* hbs: once the database rests, the answers are what it means, and a host row
  that was written wrong is written again;
* alarm: every member is told everything once, unless a fault took it; a case
  shows the newest decision about it;
* nodata: a silent series is reported, a live one is not;
* aggregator: one goroutine per row, computing what the row says, over the same
  hosts above and below the line;
* agent: sending ends whatever the transfers do; it runs exactly the plugins, and
  keeps exactly the lists, of the last answer it accepted;
* api: a token works for the user it was made for, what was changed stays changed,
  a deleted group gives its hosts nothing, templates and expressions find their
  actions, a link keeps showing what it was made for.

## 2. The modules

| module | models | composed in |
|---|---|---|
| `PermitPool` | abstract: what a caller may rely on in a connection pool | refined by `ConnPool` |
| `ConnPool` | toolkits/conn_pool with the calls of common/backend_pool | extended by `ForwardTask`; `MCProgress` |
| `ForwardTask` | transfer's send queue, its task, retries, and the backend's view | extends `ConnPool` |
| `Judge` | judge's Send path for a series and a strategy, cleaning, restart | |
| `GraphStore` | graph's path from Send to the rrd file for a series, history, index, query, shutdown | |
| `Migration` | a series whose file is still on another graph node | `MCServices` |
| `Gateway` | gateway's queue and its walk over the transfers | `MCServices` |
| `Hbs` | the nine tables, the answers of hbs, the maps of a judge | `MCServices` |
| `AgentPlugins` | what an agent does with the answers of hbs | `MCServices` |
| `HbsAgents` | an agent's reports, the host row, the entry in memory | `MCProgress` |
| `AgentSend` | an agent's goroutines and the clients they share | `MCProgress` |
| `Nodata` | configuration, collecting, status and mocks of a series | `MCProgress` |
| `Alarm` | events through redis to the members of a team | `MCApi` |
| `AlarmCases` | event cases, written by alarm and by the api | `MCApi` |
| `Aggregator` | the cluster table and its goroutines | `MCApi` |
| `Db` | rows and ids of MySQL tables, as the handlers use them | extended by the next four |
| `Uic`, `HostGroups`, `Templates`, `Dashboard` | handlers of the api | `MCApi` |
| `ConnPool_proofs`, `ForwardTask_proofs`, `Judge_proofs`, `GraphStore_proofs`, `Nodata_proofs` | theorems about the module of that name | |
| `Teams_proofs` | theorems about `Uic`, `Alarm` | |
| `Portal_proofs` | theorems about `HostGroups`, `Templates`, `Dashboard`, `AlarmCases`, `Aggregator` | |
| `Services_proofs` | theorems about `Hbs`, `AgentPlugins`, `Gateway`, `Migration` | |
| `MC*` | instances for TLC | |

Operators whose comment begins with "Mutant:" or "Slip:" are deliberate mistakes.
They are not part of any next-state relation; `PROJECT.json` ("mutants") names,
for each checked property, the mistake that breaks it.

Variables described as "history" (`ghost`, `past`, `since`, `told`, `applied`,
`meant`, `crossed`, `lateHosts`, `lateRows`, `named`, `absent`, `lost`, `taken`, ...)
record what happened. No
guard of an operation reads them, except to give each bounded input once.

### ConnPool and PermitPool

State is the pool's own: `active`, `free`, `all`, `cnt`, plus what each caller
holds and what its last call returned. Each method runs under the pool's lock
and is one action; `Fetch` is split by the way it returns (`fetchFree`,
`fetchOverMax`, `newConn`, `newConnFails`). `CallDone` and `CallFailed` are the
branches of the select in `SafeRpcConnPools.Call`. `cnt < MaxCnt` bounds the
number of connections ever made. `PermitPool` has no connections: permits are
granted while fewer than MaxConns are out and refused only when all are.

### ForwardTask

`PushFrontCheck` and `PushFront` are the two lock sections of the limited list,
`PopBackBy` and `AcquireAndGo` the loop of the task, `CallBegin`, `CallReturns`
and `Finish` the goroutine of a batch. `Serve` and `ServeLate` are the backend
receiving a request, the latter after the caller gave up. An item is the pair of
its producer and a number. `Concurrent` is MaxConns, or 1 when less is
configured, as in `startSendTasks`.

### Judge

One series, one strategy `all(#Limit)`. `lists` are all linked lists ever made and
`entry` the one in the map, so a list replaced or deleted while a goroutine still uses
it stays meaningful. `HistoryLen`, `HistoryFront` and `HistoryNext` are the unlocked
walk; `HistoryNil` is the nil element whose value is read. `sendEventIfNeed` reads
LastEvents, `sendEventSet` stores it, `sendEventPush` is the LPUSH, which may fail.
`Restart` empties memory and keeps redis. A point is a timestamp and whether its value
is bad for the strategy. Of an event the model also keeps the timestamps it was decided
on (`used`) and the restarts before it (`life`). `Episodes` speaks of restarts:
LastEvents is lost with the process, so an alarm that was open gets no OK and the next
process begins with PROBLEM 1.

### GraphStore

One series. Handlers follow `handleItems`: `First`, `GetHit`/`GetMiss`,
`Set`/`PushFront`, `IndexHit`/`IndexMiss`, `AddItem`. Committers are syncDisk ("sync"),
`Graph.GetRrd` ("get") and the shutdown ("main"); each pops all points and waits for
`ioWorker`. The file is the set of its timestamps; `update` adds those points of a flush
that are newer than the file and than every point before them in the flush, and skips
the others, as rrdlite does without reporting an error. When a list is due for flushing
depends on the clock and on FLUSH_MIN_COUNT; the model lets any non-empty list be due.
`MaxCleans` bounds the rounds of the daily cleaning. `ghost` records which points were
accepted, which of them were older than an accepted one, which were in a flush that
failed, and which lists were cleaned.

### Migration

One series after the cluster was enlarged. `series.miss` is GRAPH_F_MISS, the only bit
of the flag that is ever read; a worker works on the flag it read when its task began,
which may be stale by then. A worker fetches the file, or sends the points to the old
node while flushing is slow (`Slow`); both may fail and are tried `MaxTries` times.
syncDisk pulls series that miss their file and commits the others, the shutdown commits
all. Files are sets of timestamps that take newer points only, as in `GraphStore`. The
disk of this node may fail: a flush then writes a part of its points or none
(`FlushFails`), and a fetched file is not opened, or left in part (`writeFileFails`),
which nothing can be added to later.

The old node runs the same program. `oldNode` has its file, its list of cached points,
and the requests its goroutines have not handled yet: `Graph.Send` answers before
`handleItems` runs. There, an item that is not newer than the newest in the list is
skipped; so a point whose sending failed and which was pushed back may find a newer one
before it, and is lost. `MigrationKeeps` says that there is no other way, apart from a
newer point in the file, a shutdown and the failing disk. Interleavings inside
handleItems and inside a commit are GraphStore's; here each is one or two steps, and the
disk of the old node does not fail.

### Gateway

A batch is one item. `Push2SendQueue` and `PushFront` are the two lock sections of
the limited list, `PopBackBy` and `AcquireAndGo` the loop of the task. `LookBusy`/
`LookFree` read the number of calls in progress and `CountUp` raises it, two steps
as in the code; `CallOk` and `CallErr` are the rpc call, `Account` the counters at
the end.

### Hbs, HbsAgents, AgentPlugins

`Hbs` follows one host. `loading` walks the tables in the order of `LoopInit`; a
load replaces one table of `cache` by the current rows, or fails and leaves it.
Strategies depend on the templates loaded before them and on the time of day
(`night`). `GetStrategies`, `GetExpressions`, `GetPlugins` and
`GetBuiltinMetrics` compute from `cache`. What the answers should be is defined
apart from the code's way of computing them: `Meant` reads the database directly,
by chains of ancestors. `InheritLimit` is the depth at which `ParentIds` gives up.

`HbsAgents` has the report of one agent, its host row and its entry; `Put` is two
steps with the statement in between, and handlers overlap because a client that
timed out reports again. `DayPasses` makes the entry old, `deleteStaleAgents`
finds and deletes in two steps.

`AgentPlugins` takes any answer hbs could give, in any order of timestamps and
with calls that return nothing. A scheduler told to quit lives until it looks.
`Digest` stands for the checksum of the watched rows.

### AgentSend, Nodata, Aggregator, Alarm

`AgentSend`: clients per transfer are made on first use and shared; `Lock`, the
dial and the call are steps, and a call that hangs ends with its timeout, which
the code reports as success.

`Nodata`: one series, time counted in its steps and kept as ages. Each cron runs
once per step in any order with the others; the sender copies the mock map,
clears it and posts. `MockRows` are contents of table mockcfg, resolved by
`GetMockCfgFromDB` (hosts win over groups, maintenance leaves out).

`Aggregator`: `EditRow` writes a row with the second of the clock, a refresh reads
the table and then starts and stops goroutines, `WorkerRun` computes a value from
any answers of the hosts. Values are integers and the quotient is kept as the
pair of numerator and denominator, so nothing depends on rounding.

`Alarm`: an event owes a message to every member on every channel it has an
address for (`Owed`); a redis list is the set of its messages. A reader holds an
event from the pop to its last write, a combiner holds all messages of a channel;
`Restart` takes what is in memory, and the faults take what the code drops with
them: among them `combineUnlinked`, the short message that names only a number
because the link to its contents could not be made.

### Uic, HostGroups, Templates, Dashboard, AlarmCases

One action per handler that writes. A handler whose check and write are separate
statements is two actions with the request pending in between (`uicPend`,
`grpPend`, `creating`, `inserting`); a handler that opens a transaction around
both is one. A row keeps the columns some check or view reads; the rest of its
columns are one flag.

`Uic`: a request carries a token an answer contained, or any name with the signature of
default_token (`DefaultSig`). `SessionChecking` accepts that one under any name when it
is configured, which the shipped configuration does; `AuthSessionMidd` lets everything
pass under skip_auth. The theorems are about every combination of the four settings in
`Conf`, the run takes four of them. Three handlers save a row they read before
(`SaveRow`); `meant` is what the table would be if each request had been served alone,
and `crossed` the users of whom a row was saved that had changed since it was read.
`ChangesKept` says that nobody else ever loses a change.

`HostGroups`: `DeleteGroup` empties four tables and leaves `grp_tpl`, as
DeleteHostGroup does. hbs joins that table with grp_host and never looks at grp
(`HbsTemplates`, `HbsPlugins`), so a deleted group is silent only as long as no row of
grp_host is left or written for it. `DeletedGroupsSilent` says exactly when one is:
a request was checked before the deletion and wrote after it (`lateHosts`).

`Templates`: parent and action of a new template are whatever the client sends.

`Dashboard`: a string is the sequence of its bytes, and `Less`, `Join`, `Split` do
what the Go functions do, because the key of a temporary graph is put together from
the sorted endpoints, a colon and the sorted counters. The endpoint `a` with the
counter `b:c`, and `a:b` with `c`, are one graph, and names with a bar are read back
as two; `TmpGraphStable` says what a link still guarantees. md5 is taken to be injective.

## 3. The runs

Bounds are named constants. They were chosen as the smallest that make the
interesting case happen (a full queue, a full channel, a list cut at its limit,
a restart in an open episode, two workers on one series, a table loaded before
and after a change), then raised as far as minutes of TLC allow.

| run | shows | bounds |
|---|---|---|
| `forward` | nothing vanishes; sent means received; no try lost to ErrMaxConn | 3 producers, queue of 1, batch 2, 2 connections, 3 tries |
| `forward_live` | the queue passes its limit by fewer than the producers; every accepted item is sent or counted as failed | 2 producers of 2 items, queue of 1, 2 tries |
| `judge_history` | lists and walks ordered and bounded | 2 senders, 3 points, 1 restart, redis failing |
| `judge_sequential` | episodes; points used once, when Sends do not overlap | 1 sender, 5 points, 1 restart |
| `judge_race` (violation) | two Sends decide on the same last event | 2 senders, 2 points |
| `graph_store` | no new point lost; queries complete; Last newest; the series known to the index | 1 handler, 3 points, 1 query, 1 cleaning, channel of 1 |
| `graph_commit` | with three committers a point is lost only by a failed flush or by being overtaken; the cache drains, the shutdown ends | 2 points, 1 GetRrd, shutdown, disk and database failing |
| `graph_race` (violation) | two first points of a series: one is lost | 2 handlers |
| `migrate_null` (violation) | a series the old node does not have is never flushed | 1 worker, 3 tries, no failing call |
| `api` | tokens and changes of users; deleted groups; rows of templates; links to temporary graphs; decisions about cases; the aggregator follows its table and computes means; alarm tells once (1.2 million states) | 4 requests of users and of templates, 5 of groups, 2 of them pending; 2 templates, actions and rules; strings with colons and bars; 4 events and notes; 3 edits of a row; 2 events, 2 members, 2 channels, 1 fault |
| `services` | answers of hbs settle; plugins and lists as told; history readable and points kept while a series moves; the books of the gateway (2.3 million states) | 2 templates, 2 groups, 2 edits, 1 fault; 3 answers; 2 workers, 2 points, 1 failing call or write, 1 shutdown; 3 batches, 2 transfers of 1 call each |
| `progress` | sending returns; a wrong host row heals; a silent series is reported; no mock over a real point; accounting, exclusiveness and limits of the pool, refinement of `PermitPool` | 2 senders, 2 transfers; 2 handlers, 3 versions, 1 fault; ages up to 4, 3 faults; 3 callers, 2 connections, 1 idle, 5 ever made |

The violations are disagreements between the code and a comment of the code,
quoted in `PROJECT.json` ("findings"). The passing graph runs use one
handler, and `judge_sequential` one sender: with two, `graph_race` shows that `NoneLost`
fails, and `judge_race` that `PointsUsedOnce` does.

**Parts explored one at a time.** `MCApi`, `MCServices` and `MCProgress` hold
several components that share no variable. Every behaviour of the whole is an
interleaving of behaviours of the parts, and each property mentions the variables
of one part only, so it is enough to let one part move at a time: `focus`, chosen
at the start and never changed, says which. What connects the parts in the
program is taken as unconstrained input of the receiving part (any answer of hbs
for `AgentPlugins`, any event of judge for `Alarm`, any edit of the tables for
`Hbs` and `Aggregator`), which includes what the other part really does.

Within `Hbs`, `MCServices` also leaves out combinations of edits that cannot meet
(`OnlyWith`): the expressions change by themselves, because their answer is read from
their own table and map, and the rows of plugins change only together with the groups
and the known hosts, the other tables their answer is read from.

Deadlock is checked where a part that cannot move would be a fault: in the forward,
judge and graph_store runs, where a `Quiescent` step covers the end
of the bounded inputs, with its conditions spelled out. The other runs stop when their
bounded requests, events or faults are used up, and say what must come about as liveness
properties where it matters.

### Fairness

* `ForwardTask`: the task pops and starts goroutines, a goroutine continues, and
  a call ends (its select has a timeout branch). Producers and the backend owe
  nothing.
* `GraphStore`: the ticker of syncDisk ticks, the commits of syncDisk and of the
  shutdown go on, ioWorker takes the next task. Sending on a full channel is
  strongly fair: Go queues blocked senders in order. Handlers, the index tasks,
  GetRrd and queries are owed nothing: the properties hold without them.
* `AgentSend`: a goroutine goes on, dialling gives up, a call ends with its
  timeout at the latest. Getting the lock of a client is strongly fair: a Go
  mutex hands itself to a goroutine that has waited for a millisecond. No
  transfer is assumed to answer.
* `HbsAgents`: the agent reports (a loop with a sleep), statements return, days
  pass, the sweep runs (a ticker of a day).
* `Nodata`: the crons run once per step and sending, which has a timeout, ends.
  Nothing is assumed of the agent whose series it is.
* `Migration` (`MigrationFairSpec`, for `migrate_null`): syncDisk's rounds, its commits
  and the workers go on, and no call fails. The counterexample is thus not a process
  that stopped.
* The other specifications state safety only.

In `MCProgress` the fairness is a disjunction over `focus`: the parts that do not
move owe nothing, and the pool, of which only safety is asked, owes nothing at all.

## 4. The proofs

TLC checks the instances of section 3; the theorems below hold for every value of
the constants that satisfies the named assumptions. Those say that bounds are
naturals, that capacities and numbers of tries are positive, that the sets counted
are finite, and nothing about sizes; TLC evaluates them in every run. The sets of
handlers, workers, users, requests, points and rows are arbitrary.

Each theorem has the shape `Spec => []P`. `P` is seldom inductive; the proof
module defines the invariant that is, as a conjunction of named parts, shows
`Init => Inv` and `Inv /\ [Next]_vars => Inv'` action by action, and derives `P`.
Where an invariant is built in layers, a layer is inductive given those before it.

**`ConnPool_proofs`** (`PoolAssumption`). `PoolInv` is types, accounting,
exclusiveness, the limits and `PoolFresh` (numbers of connections were given out).
No part is inductive alone: the count follows a removal only if the removed
connection is known and nobody else has it.

* `PoolCorrect`, `PoolNeverShares`, `PoolWithinLimits`: `PoolTypeOK` and
  `PoolAccounting`, `ConnExclusive`, `PoolBounded`.
* `PoolImplementsPermits`: every step of the pool is a step of `PermitPool` or a
  stutter, the callers with a connection being the holders of a permit. It rests on
  `BusyCount`: when nothing is idle, as many callers are busy as connections are open.

**`ForwardTask_proofs`** (the pool's and `ForwardAssumption`), on top of the pool's proof.

* `TransferPoolSafe`: the tasks only make calls of the pool (`PoolPart`), so the
  pool's invariant is theirs. `TaskInv` adds that the permits of the semaphore are
  the goroutines with a batch and only those hold connections, which gives
  `TriesNeverRefused` (`NeverErrMaxConn`).
* `QueueNearLimit` (`QueueOvershoot`): the queue and the producers that have passed
  the check together stay below the limit plus the number of producers.
* `NothingEverVanishes` (`NothingVanishes`): `PlaceInv`, the queue, the popped batch,
  the goroutines and the counters are pairwise disjoint and without repetition.
* `SentMeansReceived` (`SentWasReceived`): `DeliveryInv`, the deliveries made, in
  progress and still possible after a timeout are no more than the calls made.

**`Judge_proofs`** (`JudgeAssumption`).

* `JudgeSafe`, `WalkStaysOrdered` for any number of senders and restarts:
  `HistoryOrdered`, `WalkOrdered`. The walk is ordered because the element after the
  last one read stands behind it in an ordered list, which needs no lock.
* `AlarmsAreEpisodes`, `AlarmPointsUsedOnce` under `Sequential`: one sender, no failing
  LPUSH, any restarts. Either of the two makes LastEvents and redis part (`judge_race`,
  section 6), so the condition is the code's and not the proof's. `EpisodeInv` says
  where they agree: LastEvents is the last event in redis, or the one about to be
  pushed.

**`GraphStore_proofs`** (`StoreAssumption`), in layers: `TypeInv`, `IdxInv`,
`ChanInv` (a task in the channel is the only one of its committer, which waits),
`ListInv` (which list is in the map, cleaned away, or new), `KeptInv`, `HistInv`,
`OrderInv` and `FlowInv` (points move in order), `QueryInv`.

* `SeriesGetIndexed` (`IndexKnows`) for any handlers, when the statements succeed.
* `AcceptedPointsKept` (`AcceptedKept`) for one handler, any committers and any
  failures of the disk.
* `LastAnswersNewest` (`LastIsNewest`) for one handler.
* `NewestNeverLost` (`NoneLost`), `QueriesSeeAll` (`QuerySees`) for one handler, one
  committer and a disk that does not fail. `FlowInv` says that what is in the file
  is older than what is underway, and that older than what is cached; then `update`
  skips nothing.

  The hypotheses `OneHandler`, `OneCommitter`, `~Fails` are the conditions under which
  the claims are true of the code: `graph_race` shows a point lost between two
  handlers; two committers may overtake each other, which `AcceptedKept` allows for.

**`Teams_proofs`** (`UicAssumption`, `AlarmAssumption`).

* `TokensStayPersonal` (`OnlyLiveTokens`): a signature is spoken of in the session
  table, in answers and in logins underway, and all agree on its user (`SigsAgree`);
  signature 0, of default_token, is never one of a session.
* `UserChangesKept` (`ChangesKept`): `UserInv` says that a pending save carries the
  row it read with one column changed, and that table and history have the same rows
  of a user who is not crossed; a save of a row that has not changed since it was read
  then does what it would have done at once.
* `EveryoneToldOnce` (`ToldOnce`) for any team, contacts, events, workers, failing
  calls and restarts. `ToldOnce` only speaks of the sets of things in each of ten
  places and is not inductive: a thing told by two messages of one queue would
  become two deliveries. `AlarmInv` therefore says where in a place a thing is (in
  which event, which write to come, which message) and that it is at one such spot
  (`Once`), and that what is anywhere is what the pushed events owe (`Covers`).
  `Rearranged` turns every step into three facts: what it does not touch stays, what it
  touches was somewhere, and is at one spot afterwards. The writes of `consume` are a
  list without repetition that tells just what the event owes (`PlanOnce`, `PlanTells`);
  a new event owes new things because its id is new.

**`Portal_proofs`** (`GrpAssumption`, `TplAssumption`, `BoardAssumption`,
`CaseAssumption`, `AggAssumption`, `ExprAssumption`). Lemmas on `Db` say what a save, a
delete and a new id do to keys.

* `DeletedGroupsStaySilent` (`DeletedGroupsSilent`): `GrpInv` adds what a pending
  request looks like, and that one whose group was deleted after its checks is marked
  as late (`PendOwned`), so that the rows it writes are known as such.
* `OwnersFindTheirRows` (`OwnedRowsLive`): `TplInv`, an action has one owner unless a
  client named it, so that deleting with one owner does not take another's.
* `LinksStayStable` (`TmpGraphStable`): a key has one id and an id one key, and two
  keys whose endpoints have no colon are equal only when both columns are (`OneColon`).
* `CasesShowDecisions` (`CaseShowsDecision`): `CaseInv` relates each case to the
  clock the notes are numbered by; the page finds a case because a finite non-empty
  set of rows has a newest one.
* `OneWorkerPerRow` (`WorkersFollow`): `KeysInv` and `ReadInv`, every copy of a row,
  with a goroutine or just read, is an old copy unless its key is the row's own.
* `MeansInRange` (`MeanInRange`): a sum over hosts that answered lies between their
  number times the least and times the greatest value (`SumBounds`, by a smallest
  subset for which it would fail); the division keeps it there.

**`Services_proofs`** (`HbsAssumption`, `AgentAssumption`, `GatewayAssumption`,
`MigrationAssumption`).

* `AnswersDoSettle` (`AnswersSettle`): `HbsInv` relates every table in memory to the
  number of loads since the last edit (`LoadOrder`, `FreshTables`): one that was loaded
  since is the database's. `JudgeTold` says what a judge then got. `ParentIds` climbs
  to the root (`ChainFacts`), its lists are the chains of the definition by ancestors
  (`BucketsAreChains`), dropping lists that are part of another keeps the maximal ones
  (`KeepsMaximal`), and a rule survives along one of those just when no younger
  template of it replaces it (`MeantByChain`, `AnswerMeans`).
* `AgentRunsWhatItWasTold` (`PluginsAsTold`), `AgentChecksumHonest` (`ChecksumHonest`).
* `GatewayKeepsBooks` (`GatewayBooks`): the queue, the goroutines and the counters
  partition what was received, and a counter of calls in progress is the number of
  goroutines between its increment and its decrement.
* `MovedHistoryReadable` (`HistoryReadable`), `MovedPointsKept` (`MigrationKeeps`):
  `FlagInv` (a cleared flag means the file is here, also in a worker's stale copy of
  it), `BodyInv` (a file, also one being written, has the history), `FetchInv`. Stale
  flags are why the invariant speaks of the workers' copies. `MigrationKeeps` holds over
  a skip at the old node and over a failed flush because what skips a point is a newer
  one, and what the disk drops is recorded.

**`Nodata_proofs`** (`NodataAssumption`).

* `NoMockOverReal` (`MockInGap`): mocks are at least `genTs` steps old while they
  wait and while they are sent, the last point of graph is real while a real one is
  that recent, and what was fetched knows what was there.

Sequences are reasoned about through the library's theorems on `Seq`, and "the first
point of a list that is not older" or "the newest row" through least elements of
non-empty sets of naturals. The prover has no induction over data; where a claim needs
one (the climb along the parents of a template, the bounds of a sum over a set) it is
proved from a least counterexample.

**Only model-checked:**

* liveness (`AcceptedSettles`, `CacheDrains`, `ShutdownEnds`, `SendReturns`,
  `HostRowHeals`, `NodataReported`), which needs fairness and ENABLED, beyond the prover.

Every safety invariant and action property of the passing runs is stated by a theorem,
and so is the refinement of `PermitPool`.

## 5. Abstractions and what is not modelled

* Names, tags, hashes, values, formatting and logging are left out: a point is
  its timestamp, and for judge whether its value is bad. The strings of `Dashboard`,
  which a property is about, are kept.
* `Judge`: other functions than `all`, COUNTER differences, expressions, and
  several strategies of a series (they share only the history list).
* `ForwardTask`: the choice of the node, replicas of a graph node, the tsdb task.
* `GraphStore`: `Graph.Delete`, merging of cached and stored values, changes of
  type or step of a series, the full index update.
* `Migration`: the query forwarded to the old node is what `Answering` reads; its
  own retries are not modelled.
* `HbsAgents`: the mode in which the host table is filled from elsewhere
  (`Hosts = "sync"`).
* `Nodata`: points the agent and nodata send are at graph within the step in
  which they are sent.
* `Aggregator`: the text of an expression is taken as parsed.
* The receivers of transfer and gateway validate and normalise one metric at a
  time and keep nothing. The query pages of the api only read. ctl and the status
  pages have no state of their own; the agent's collectors only read /proc.

## 6. Known divergences without a run of their own

Met while modelling; each is left out of a property by a stated condition, or lies
outside the modelled part.

* judge: after a restart the open alarm never gets its OK, and a point alarmed on before
  may be alarmed on again when it is sent again, which is why `PointsUsedOnce` speaks of
  the alarms of one process; the walk without a lock can meet a nil `Next`
  (`linkedlist.go:71`), which the model keeps as `HistoryNil`.
* judge: the interval between alarms is measured between the clock and a point's
  timestamp, two clocks (`judge.go:239`).
* graph: points still in handlers at exit are lost (`graph/main.go:49`); a series
  may be marked as indexed although the statements failed (`index/index.go:40`,
  `index_update_incr_task.go:63`).
* migration: a stale flag can mark a series as missing again whose file is here; the
  next fetch then fails because the file exists. The flush at shutdown begins the file
  although the old node has the history (`past.cut`). Points sent to the old node after
  the fetch stay there; a point sent again after a newer one is skipped there
  (`graph.go:100`). A fetched file that was written in part stays, and every later fetch
  fails on it.
* hbs: a template bound to a host through two groups ends the search for the
  chains that contain it (`hbs/rpc/hbs.go:139`), so a replaced rule may stay; this
  is the `Twice` case of `AnswersSettle`. A chain of ten templates is taken for a
  cycle (`cache/strategies.go:109`). An expression without parentheses stops the
  loading (`db/expression.go:64`).
* hbs agents: the entry's time is not renewed by reports that change nothing, so
  an agent that reports is swept daily (`cache/agents.go`); `HostRowHeals` rests
  on just that.
* alarm: messages of an event without a phone number or address are combined
  with nobody to tell; when the api does not answer, actions and users are taken
  from the last answer, however old.
* nodata: after two steps without a fetch a mock may cover a real point
  (`judge_cron.go:88`), the condition of `MockInGap`.
* aggregator: two edits of a row within a second share a key (`db/reader.go:50`),
  the `twice` of `WorkersFollow`.
* agent: a plugin with a cycle of 0 stops the process (`plugins/scheduler.go:25`).
* gateway: a batch may find every transfer busy in turn and be dropped without a
  call (`send_tasks.go:65`); it counts as failed.
* api: a row saved after another request changed it undoes that change, and one saved
  after a delete brings the user back (`user_controller.go:517`), the `crossed` of
  `ChangesKept`; a host bound to a group while it is deleted keeps getting the templates
  bound to it, on no page (`hostgroup_controller.go:79`), the `lateHosts` of
  `DeletedGroupsSilent`; two temporary graphs may share an id
  (`dashboard_graph_controller.go:31`); `UpdateStrategy` refuses values `CreateStrategy`
  accepts (`strategy_controller.go:138`), which `CheckFormatUpdate` keeps; the answer of
  `IsUserInTeams` is always "true" (`user_controller.go:275`).
