# Formal model of gonitor

gonitor runs shell and script tasks on a cron schedule, on its own machine (the
*master*) and on edge nodes, and shows them live in a browser. This directory
holds TLA+ modules of the parts of it in which several goroutines, requests,
agents or browsers meet, the TLC configurations that check them on small
instances, and proofs, checked by TLAPS, that the safety properties hold for
every value of the constants. `PROJECT.json` lists the runs, the source lines of
every definition, the hazards, the findings and the theorems.

Paths below are relative to the root of the repository.

## 1. The system

One Go process holds everything but the database (gorm over SQLite, MySQL or
PostgreSQL),
the browsers and the agents on the edge nodes. The agent program is not in the
repository; it is known only by the requests the server answers.

| component | source | state | operations | depends on |
|---|---|---|---|---|
| Task manager and schedule | `task/task.go`, `task/taskIns.go` | `TaskList` (instance by task id), one cron entry and one wrapper chain per instance | `Start`, `AddTask`, `DeleteTask`, `StartOnceTask`, `taskInstance.start/stop` | cron library, task table |
| Job goroutines and runs | `task/handler.go`, `taskRunning.go`, `tools.go` | one `ExecJobWrapper` per firing, `RunningInstances` of its instance, the child process, the attempts left | `Run`: `beforeRun`, `run`, retries, `afterRun`, result handler, cleanup | manager, task_log, push |
| Run journal | `model/task_log.go` | one row per run: running, then ended with its result | create, close | written by runs and by agents' reports |
| Task requests | `web/controller/task.go` | none of their own: a copy of a row | `AddTask`, `EditTask`, `StartTask`, `StopTask`, `DeleteTask`, `StartOnceTask` | task table, manager |
| Server process | `cmd`, `bootstrap` | its life | `start`, `stop` (SIGKILL), death | everything |
| Nodes and agents | `web/controller/node.go`, `agent.go`, `model/node*.go` | node table: name, key, status, deletion mark | add, edit, delete, new key; heartbeat, task pull, result and event report | task table, task_log |
| Node deployment | `web/controller/deploy.go` | a copy of a node row for as long as ssh takes | `DeployNode`, `DeployNewNode` | node table, the remote machine |
| Task import and export | `web/controller/task_transfer.go` | a map from old to new keys | `importTaskItems`, `ExportTasks` | task table |
| WebSocket hub | `web/ws`, `task/push.go` | `ClientList`, three channels without buffer; per client a buffered channel and the subscribed topics | register, unregister, broadcast; read, write | runs, push cron, browsers |
| Browser socket | `web/client/src/common/socket` | the WebSocket, reconnect timer and attempts, `messageQueue`, `subscribed` | `useSubscribe`, `openCb`, `messageCb`, `fireSend`, `onReconnect` | hub |
| Accounts, tokens, sessions | `controller/user.go`, `model/user*.go`, `web/middleware`, `web/context`, `screen/login` | users, tokens; the token in the `localStorage` of a browser | register, login, check, logout | database, HTTP client |
| HTTP client | `web/client/src/common/request` | calls under way, 30 s each | send, answer, failure, the interceptors | HTTP interface |
| Task list | `screen/taskList` | the list, a copy of the task in every row, dialogs, spinners | search, refresh, add, edit, delete, start, stop | HTTP client, browser socket |
| Running tab of a task | `screen/taskInfo/TaskRunningLog.js` | the list of runs, a status per row, timers | add by push, follow, leave | HTTP client, browser socket |
| Node list | `screen/nodeList` | the list, dialogs, deployments and connection tests under way | add, edit, delete, new key, test, deploy | HTTP client |
| Paged lists | `screen/userList`, `screen/operationList`, `TaskEndedLog.js`, `model/base.go` | a page of rows, the footer, the user dialogs | page, refresh, add, edit, delete | HTTP client |
| Dashboard, head of a task, settings | `screen/dashboard`, `TaskInfo.js`, `screen/systemSettings` | readings, gauges, charts | ask, follow the pushes | HTTP client, browser socket |
| Operation log | `model/operation_log.go` | rows that are only added | insert, read a page | database |
| Redis lock, limiter | `web/component` | a redis key; a counter | lock, extend, release; allow | redis (nothing calls them) |
| Monitor, health, WeCom | `service`, `controller/system.go` | none that decides anything | read, send | — |
| Layout, mobile application, routes | `screen/layout`, `apps/mobile`, `web/routes` | frame and menu; a client of its own; a table | show, ask, dispatch | HTTP interface |

How they interact. A request changes a row and then the schedule, in several steps.
The cron library starts a goroutine per firing, which passes a Skip or Delay wrapper,
writes a row of task_log, starts a process, retries, closes the row, and takes itself
off the list of its instance. An agent runs the tasks of its node and reports each
run, which writes a row of task_log that is ended from the start. Job goroutines, the
push cron and requests send to the hub over channels, and wait until it takes what
they send. The hub writes to the buffered channel of each client and waits when it is
full. A screen asks for a list over HTTP, keeps what it is answered, and changes it
when pushes, timers and answers to later calls come. A browser subscribes by frames
over its WebSocket, queues them while it has none, and connects again when it breaks.
An agent proves with a key which node it is.

What is hard here:

* **shared maps without a lock**: `TaskList`, `RunningInstances`, `ClientList`
  and the maps of subscriptions are read and written by any goroutine. The model
  takes one access per step; a fatal error of the runtime ("concurrent map
  writes") is one of the reasons for `Crash` and `ServerDies`;
* **whole rows written back**: handlers load a row, work on a copy, and `Save`
  every column of it, so a late one undoes what another did;
* **runs that outlive their instance**: an instance is stopped or replaced while
  its goroutines run, wait for a mutex or sleep before a retry;
* **death at any point**: `stop` is SIGKILL, and no signal is handled while the
  HTTP service runs (`signal.Notify`, `cmd/start.go:69`, is reached only after it returns);
* **waiting in a circle**: publishers wait for the hub, the hub for a client's
  buffer, the buffer for a writer, the writer for the network; a reader that
  leaves waits for the hub;
* **connections that overlap**: the old and the new connection of a page have
  the same id on the server, and the page has timers and loops of both;
* **callbacks that close over an old render**: handlers, timers and answers of a
  screen compute with the list, the dialog or the page number they saw when they
  were made, and several calls are answered in any order;
* **calls that are lost or given up**: a failed call does not reject, its `.then`
  throws on `undefined`, and the server may go on with a request the client has
  given up;
* **copies under keys**: a row of a table keeps its own copy of a task, which
  pushes write, until its React key changes;
* **keys of another database**: an imported file names dependencies by keys that
  here belong to other tasks or to none yet;
* **statements without a transaction**: a login deletes the old tokens and then
  inserts a new one; a page is counted and then read.

What makes each part correct: the strategies exclude as they promise; the
schedule is the one the table asks for; every run is closed, once, by itself;
dependents run after a success; the list of running instances shows what runs;
keys and names of nodes stay apart, reports are filed under their sender; a
connected page is subscribed to what it shows; the hub serves all who wait;
an import keeps the graph of its file; a form is saved to what it was filled
from; nothing on a page waits for nothing; a page shows the changes it made and
the page that was asked for; a browser keeps a token that is accepted.

## 2. The modules

| module | models | composed of | checked by | proofs |
|---|---|---|---|---|
| `Scheduler` | manager, job goroutines, task requests, both tables, death and restart | — | `MCScheduler` | `SchedulerProofs` |
| `RunJournal` | abstract: what task_log promises its readers | instantiated by `Scheduler` as `Journal` | as property `ImplementsJournal` | `TaskLogIsJournal` |
| `Timetable` | abstract: what the schedule promises whoever keeps the task table | instantiated by `Scheduler` as `Table` | as property `FollowsTable` | `ScheduleFollowsTable` |
| `Nodes` | node registry, deployments, agents' requests, node of a task | — | `MCNodes` | `NodesProofs` |
| `WsHub` | server's side of push | — | through `Push` | through `Push` |
| `Push` | browsers | EXTENDS `WsHub` | `MCPush` | `PushProofs` |
| `Http` | calls of a screen: sent, handled, answered, given up | — | through the screens | through the screens |
| `TaskPage` | task list with its dialogs and buttons, against tasks and pushes | EXTENDS `Http` | `MCScreens` | `TaskPageProofs` |
| `TaskLogPage` | running tab of a task | EXTENDS `Http` | `MCScreens` | `TaskLogPageProofs` |
| `NodePage` | node list with dialogs, tests, deployments | EXTENDS `Http` | `MCScreens` | `NodePageProofs` |
| `PagedList` | users, operation log and ended runs, with the server's pagination | EXTENDS `Http` | `MCScreens` | `PagedListProofs` |
| `Panels` | dashboard, head of a task's page, settings | — | `MCScreens` | `ScreensProofs` |
| `Session` | login, tokens, tabs of a browser | — | `MCScreens` | `ScreensProofs` |
| `Screens` | the web client: one page is mounted at a time | EXTENDS the six above | `MCScreens` | `ScreensProofs` |

### Scheduler

`row` and `taskLog` are the two tables, `nextLog` the auto-increment key. `cron`
is the set of entries the cron library fires, `inst` the `taskInstance` made for
each, with its settings and `RunningInstances`; `TaskList[t]` is the entry of the
listed instance of `t`. `busy` holds the Skip tokens taken and the Delay mutexes
held, one per entry because each `getTaskChain` makes its own. `run[r]` is a job
goroutine with the settings it was fired with, `req[h]` an HTTP request with the
copy of the row it loaded.

| code | actions |
|---|---|
| `Manager.Start` | `BootLoad`, `BootAddTask`, `BootDone` |
| the handlers in `controller/task.go` | `StopTask`, `StartTask`, `EditTask`, `AddTask`, `DeleteTask` begin; `Save`, `SyncTaskToNode` go on |
| `AddTask`, `taskInstance.start` | `AddTaskCheck`, `AddTaskLoad`, `AddTaskJob`, `AddTaskPublish` |
| `DeleteTask`, `taskInstance.stop` | `DeleteTaskRemove`, `DeleteTaskKill`, `DeleteTaskUnlist`, `DeleteTaskUnlistAgain`, then `AfterDelete` |
| the loop of attempts, `execTimes` | `Loop`, `ExecTimes`: an int8, so that `RetryTimes` 127 wraps |
| a firing and its wrapper | `Tick`, `Acquire`, with `Take` (external: cron v3), `Leave` |
| `ExecJobWrapper.Run` | `ValidateDependency`, `CreateLog`, `StartProcess`, `AddTaskRunningIns`, `Exit`, `AfterFailure`, `Wake`, `AfterRun`, `Cleanup`; `Panic` for a result handler |
| `StartOnceTask` | `StartOnceTask`: a run whose entry is `NoEntry`, under no wrapper |
| `importTaskItems` | `ImportTasks` |
| the push to the browsers at the end of StopTask and StartTask | `PushFirst`, `AddTaskReturns`, then `PushTask` |
| `AgentReportTaskResult` | `AgentReportTaskResult` finds the task, `CreateReport` writes the row |
| death of the server | `Crash`, and a nil dereference in `Cleanup` outside any Recover |

`lost` and `uncleaned` are history variables: rows whose run died with the
server, and rows whose run the code never takes off a list (a run of
`StartOnceTask`, a run whose result handler panicked); `reported` marks the rows that
reports wrote. A request that is pushing waits until the hub takes the message; here
that is a place where it may stay for any time, and that the hub takes every message
in the end is `HubServesAll` of `Push`. A report reads `task_log` and the schedule not
at all: its row says what the agent says, whatever the task depends on. That an agent
proves its key and reports only its tasks is in `Nodes`. `Save` fails on a row that
was deleted meanwhile, because gorm inserts when the update touches no row, and
the primary key is taken.

An import is one database transaction, hence one action, and one that fails is no
step. A file is a function from the keys its tasks are about to get to items, each
with the key it had where it was exported; `OldToNew` is the map of that name in the
code, in which the last of several claimants of a key stays, and as the order of
the items is abstracted, that is any of them. Imported tasks are disabled and
nothing is scheduled. `Transaction` groups the requests with a single effect on
the table, `DeleteTask` and `ImportTasks`.

`Timetable` is the scheduler without the manager, its list and the steps of requests.
It keeps for each task what the table asks for (`asked`: its settings, or none if it is
disabled, deleted, not there or another node's), what the cron library fires
(`fired`), and whether a request is about it (`touched`). `Scheduler!Table` reads
`fired` off the entries on cron and their instances, so that a second entry of a task,
or an entry with old settings, shows. A request ends (`Finish`) and a start ends
(`Open`) only where the two agree (`Right`); in between, what is fired is taken away or
is what the table asks for at that moment (`Change`). A run, a kill, an import and the
end of a job are stutters.

### Nodes

One step is one database statement. `node` and `task` are the tables as far as
they concern nodes, `filed` is the newest row an agent had made, `req[h]` a
request with its copy. `issued` and `assigned` are history: for which node each
key was made, and which nodes each task ever belonged to. Agents are not in the
repository, so any key ever given out may come at any time and any number of
times, which covers lost, delayed and repeated requests. The search for a name
sees only rows that are not deleted, the unique index sees all.

### WsHub and Push

A send on a channel without a buffer and the hub's receive are one action.
`client[c]` is the Client of connection `c` with the step its handler, reader and
writer have come to. What an update says matters to none of the properties, so
`Message` and `down` count updates. `hub.todo` and `pub[p].todo` are what is left
of a walk through `ClientList`. On the other side an action is one JavaScript
callback: `ws[b]` is the WebSocket with its reconnect timer, `messageQueue[b]`
what the page has still to send, `sender[b]` the pending timers and the running
loops of `fireSend`, `subscribed[b]` the components that show each topic,
`known[b]` the topics that have an entry in `subscribed` (entries are never
removed). `robbed[b]` is history: topics that one component unsubscribed while
another still showed them. `MakeMaps` comes after `StartServices`, as in
`StartAllService`; a frame read between the two writes to a nil map and ends the
server (`ReadPanics`).

### Http and the screens

`Http` says what can become of a call: its record is in one of `MaxCalls` slots
with a `stage`, `none`, `sent`, `done` (handled, the answer under way) or `orphan`
(the client has given it up and the server has not). A call that fails goes through
`.then` with `undefined` (`HttpRequest.js`), so the action for a failure does what
the code before the exception and in `.finally` does. In each screen the actions
are of four kinds: a click or a field of the user, the server handling a request,
a callback of the page (an answer, a failure, a push, a timer), and a change made by
another client. What the user types is one value; what an answer carries is what
the server held when it handled the request.

| module | state | actions |
|---|---|---|
| `TaskPage` | `tasks` (the table) and `taskPushes`; `taskList` (last told), `selfTask` (the copy in each mounted `TaskRow`), `dialog` with its task and the one its form is filled from, `busy` (the call a button waits for) | `HandleSearch`, `RefreshTaskList`, the dialogs and their submits, `StartTask`, `StopTask`; `ServeTask`, `ChangeElsewhere`, `PushRead`, `PushNewestTaskInfo`; `OnTaskPush`, `OnTaskList`, `OnSaved`, `OnDeleted`, `OnButton`, `TaskCallFails` |
| `TaskLogPage` | `logList` (last given to `setLogList`) and `seen` (list of the last render), per row `rowStatus`, `rowOpen`, `timers`, `frozen` (the list a row that has left closes over) | `SendNewTaskLog`, `RunStarts`, `AfterRun`, `RemoveInstance`, `GetTaskRunningList`; `OnRunningList`, `OnLogAdd`, `OnLogInfo`, `RenderLogList`, `ToggleOutput`, `DeleteLog` |
| `NodePage` | `nodeList`, `nodeDialog`, `nodeEditInfo` (the node edited before), `deploying` and `testing` of both deployment dialogs | the dialogs and their submits, `HandleTestConnection`, `HandleDeploy`, `HandleRegenerateKey`; `ServeNode`, `NodeChangesElsewhere`; `OnNodeList`, `OnNodeSaved`, `OnKeyRegenerated`, `OnNodeDeleted`, `OnDeployed`, `OnTested`, `NodeCallFails` |
| `PagedList` | `pageRows`, `pageInfo` (the footer), `userDialog`; the table in `dbRows` | the buttons of the footer, `RowsPerPage`, `RefreshUserList`, the user dialogs; `CountRows`, `FindRows` (two statements), `ServeUser`, `TableChanges`; `OnPageList`, `OnUserSaved`, `OnUserDeleted`, `PageCallFails` |
| `Panels` | `info` per panel, `usedList` (samples of a chart), `blank` | `GetInfo`, `OnInfo`, `OnRefused`, `InfoFails`, `OnReading`, `Tick` |
| `Session` | `valid` tokens, `stored` (the `localStorage` all tabs share), `place` and `ask` of each tab, `login` of each submit | `HandleLogin`, `RefuseLogin`, `DeleteTokens`, `CreateToken`, `CreateFails`, `OnLogin`, `LoginFails`, `LoginElsewhere`, `Expire`, `OpenAdmin`, `LoginOut`, `Ask`, `CheckToken`, `OnAnswer` |

`Screens` has a `route`; the variables of a page that is not mounted stay at an
initial value, and a page is followed from when it is mounted on.

A row of the task list mounts anew when its key, made of the id and `update_time`
(`uniKey`), changes; `RowsFor` says which rows keep their copy. `ver` stands for
`update_time`, whose unit is a second in MySQL, so a save may leave it as it is
(`SaveTask`, which notes it in `tied`). A push carries the name and the enabled state
of the task (`TaskPush`), and `OnTaskPush` merges both into the copy. On a narrow
screen there are cards, which show the list itself and have no subscription
(`isDesktop`).

Nothing in the login form keeps a user from submitting it again, so a tab may have
several submits under way (`Submits`), and the answers come in any order.

History variables, which no action of the code reads: `listFailed`, `pageAstray`
and `astray` (a list call failed, or came out of order), `told` (runs the page was
told of), `late` (runs whose row was mounted as running after the push of their end had
come), `collided` (a list was computed from one that was not the last), `tied` of a
row of the task table (saved twice within a second), `acked`
(the version of a node a change by this page has made), `asked` (page last asked
for), `torn` (a page was counted before a change and read after it), `spoiled` (a
reason for which the stored token may be refused). The properties state the
exceptions with them, so that what is excepted is named and nothing else is.

## 3. The runs

Passing runs (each explores its instance completely):

| run | instance | shows |
|---|---|---|
| `strategies` | one task: of the master, skip, a retry, a result handler; of a node that is not found, parallel; or of an edge node. Two goroutines, one request, two entries, two log rows | `TypeOK`, `StrategyExclusion`, `NoTokenLost`, `AttemptsRight`, `RunningRowHasRun`, `NoOtherLeak`, `EveryEntryListed`, and `FollowsTable`, the refinement of `Timetable`, through edits, deletions, kills, retries, panics, reports, deaths |
| `dependency` | two tasks, one may depend on the other and either may be an edge node's, imported, edited, deleted and reported on; one goroutine, two log rows | `DependentAfterSuccess`, `ImplementsJournal`; `DependencyKnown`, `ImportKeepsGraph` |
| `live` | a delay task with a retry, two goroutines | `StrategyExclusion` and `NoTokenLost` of a mutex; `EveryRunEnds`, `DelayedRunProceeds` |
| `registry` | master, two edge nodes, two names, three keys, one task, two requests | `TypeOK`, `KeysNeverShared`, `FiledUnderOwnNode`, `LiveNamesDistinct`, `DeletedForGood` |
| `push_subscriptions` | one page, two connections, two components that show one topic | `TypeOK`, `SubscriptionsHeld`, `DeadClientsGone`, `SenderAlive` |
| `push_hub` | one connection, two publishers, buffers of one | `HubWaitsForWriter`, `HubServesAll` |
| `screens` | each page with two tasks, runs, nodes, rows or tabs, two calls at a time | `ScreensTypeOK`, and page by page as below |

The properties of `screens`:

| page | property | what would break it |
|---|---|---|
| task list | `EditSavesItsTask` | the form of one task saved to the URL of another |
| | `SpinnersExplained`, `ButtonsExplained` | a skeleton or button that waits for no call |
| | `RefreshRenders` | rows that go on showing an old copy of a task after a list that is up to date, though no second save fell into the same second |
| running tab | `EndedRowTimed` | the closed row of a run that has ended, which nothing will take out, for no reason the property names |
| | `RunKept` | a run that leaves the list before it has ended |
| node list | `DeployDialogHeld`, `TestingExplained` | a result for another dialog; two deployments or tests of one |
| | `ChangesShown` | an old key or a deleted node shown after the change was answered |
| paged lists | `FooterFits` | a footer that speaks of other rows than are shown |
| | `AskedPageShown` | a page that was not asked for |
| session | `StoredTokenGood` | a browser left with a token that is refused, for no reason the property names |

Runs that find a disagreement between the code and what the repository says of
it (section 5): `second_instance`, `stop_panic`, `retry_wrap`, `node_key`,
`stale_unregister`.

### Bounds, and why they are enough

* `Runs`: two goroutines are what it takes for a wrapper to exclude, for one to
  queue behind the other, and for one to outlive an edit. The theorems cover any
  number.
* `MaxEntries`: two entries give an old and a new instance of a task, and a start
  after a death. `StrategyExclusion` concerns one entry only.
* `MaxLogs`: two rows give a dependency and its dependent, or the rows of two
  runs that overlap, or of a run and a report. At the bound no run and no report can
  begin, and everything else goes on.
* `Handlers`: with one request there is still every interleaving with job
  goroutines and death. Two at a time are checked where the property claims
  something about them (`registry`, `second_instance`, `node_key`);
  `EveryEntryListed` and `FollowsTable` are false with two about one task,
  which `second_instance` shows, and proved for any number about different tasks.
* `RetryTimes` is 0 and 1 in the passing runs, none and one, and 127 in `retry_wrap`,
  the value at which the counter of attempts wraps. The theorems take any value an int8
  has, `AttemptsAllMade` any but 127.
* `MaxKeys`, `NodeIds`: two edge nodes are needed to mix up keys or names; three
  keys give each one and a new one.
* `MaxConns`: two connections give the old and the new one of a page, in every
  order of registering and unregistering. `FirstAttempts` and `Attempts` are 1
  where the code has 5 and 10, so that giving up is reached.
* `MaxFrames` bounds what is on its way when a component comes or goes; three
  give subscribe, unsubscribe, subscribe of one topic.
* `MessageCap` and `SocketCap` are 1 where the code has 1024 and the kernel its
  buffers: the full buffer is the interesting case. `push_hub` has one connection,
  because the walk over the clients serves one after the other; that the hub
  waits only for a writer at work is proved for any number.
* `screens`: `Ids` has two values, which are the tasks, runs, nodes or tabs of the
  mounted page. `MaxCalls` 2 lets a call overtake another, be answered after it or
  fail while it goes on. `MaxMoves`, `MaxNodeMoves` and `MaxListMoves` are 1: one
  change, by this page or elsewhere, makes everything held about the row old; it
  may come between any two steps of the calls. `MaxPushes` 1 and `MaxLogPushes` 2
  are pushes under way at a time, of which any number come in the end; two are
  needed for a run to be added and to end before a render. `MaxTimers` 2: a row
  that is opened and closed again has two. `MaxRows` 2 with `Limits` 1 and 2 gives
  two pages, one page, and a page beyond the last. `Window` 2 is 61 in the code.
  `MaxTokens` 2: one to replace and one that replaces it. `MaxSubmits` 2: each tab may
  submit the form again before it has its answer. Two `Levels`.
  The theorems hold for any bounds.
* Symmetry is used only in runs without liveness properties; `FollowsTable`, in
  `strategies`, is a refinement without fairness, and names no goroutine. `screens` does not check for
  deadlock, because a page with all its changes made, no call under way and its
  dialogs closed may have nothing left to do.

### Fairness

* `Scheduler!FairSpec`: weak fairness of every job goroutine, and of nothing else.
  The Go runtime runs every goroutine that can run; a Delay mutex goes to whoever
  waits (with two goroutines one waits). `Exit` is among the fair steps: a command
  ends. Nothing makes a request come or go on, a task fire or the server die; no
  property here says that a request is answered. Its only wait is for the hub, which
  is `HubServesAll`; the rest is a sequence of statements.
* `Push!FairSpec`: weak fairness of a client's handler and writer, of the walk
  over the clients and of the hub; strong fairness of `TakePush` and
  `UnregisterClient`, because `select` chooses among ready channels at random and
  a channel serves its senders in order. A browser takes its updates as long as
  the connection holds; a peer that is silent must be noticed by the network. That
  is an assumption on the environment: neither side sets a deadline, and a write to a
  silent peer lasts as long as TCP lets it, during which the hub serves nobody.

The screens are checked for safety only: a user need not click, the network need
not answer, and a page that is left is not followed further.

## 4. The proofs

All theorems hold for every value of the constants; the assumptions are the
named ASSUMEs of the modules (`ConstantsAssumption`, `NodesAssumption`,
`HubAssumption`, `PushAssumption`, `MaxCallsAssumption`, `TaskPageAssumption`,
`TaskLogPageAssumption`, `NodePageAssumption`, `PagedListAssumption`,
`PanelsAssumption`, `SessionAssumption`, `ScreensAssumption`), which say no more
than which constants are numbers, that `NoTask` is no task, `NoNode` and
`NoEdgeNode` no node and `NoData` no reading, that buffers, pages and charts have
a place, and which names of lists and routes there are.

Eleven theorems have a hypothesis about the behaviour besides. Each is there because
a run, or TLC asked by hand, refutes the conclusion without it; each is a state
predicate or an action formula of the model that says which meeting of two actors
does not take place, and leaves everything else free:

| theorems | hypothesis | what refutes the conclusion without it |
|---|---|---|
| `EntriesListed`, `ScheduleIsTable`, `ScheduleFollowsTable`, `SecondInstanceNeedsTwo` | `RequestsApart`: two requests under way are about two tasks | `second_instance` |
| `SettingsStay` | the same | `SettingsChangeByEdit`, section 5 |
| `TasksExclude` | that, and no `StopTask` or `EditTask` of a task while a run of its schedule is under way (`RunsApartFrom`) | `TaskExclusion`, section 5 |
| `CleanupFinds` | the same of every request that goes through `AddTask` or `DeleteTask` of the manager | `stop_panic` |
| `AttemptsAllMade` | `RetryFits`: no run has settings with `RetryTimes` 127 | `retry_wrap` |
| `KeyChangesWhenAsked` | `RegenerateAlone`: no other request holds a copy of the row | `node_key` |
| `ConnectedStaysListed` | `OldConnectionsGone`: the server has unregistered the old connections of a page when it accepts a new one | `stale_unregister` |
| `TaskPageListed` | `PushesArriveRight`: a push still tells the truth when the page handles it | `AllRendered`, section 5 |

So the five disagreements that have a run are shown twice: TLC finds the behaviour, and
TLAPS proves that there is no other way to it.

**SchedulerProofs.** `TypeOK` is not inductive: to show that a step writes a
well-typed record one must know that a record in use names a task and a run past
`CreateLog` a log row. `TypeOK /\ WellFormed` is, and gives `TypeCorrect`.
On it rest five invariants:

* the journal: `JournalOrder` (rows are written in the order of their keys),
  `RunsOwnRows` (a run's row is its own and open while it works on it),
  `LogRowOwnedOnce`, `VerdictHolds` (between `validateTaskDependency` and the row
  the answer stays true, because rows are never removed and ended rows never
  change), with `RunningRowHasRun` and `DependentAfterSuccess`. The steps are
  sorted first (`JournalSteps`): a step leaves the table alone, makes a row,
  closes one, or is a death. From it follow `RunningRowsHaveRuns`,
  `DependentsAfterSuccess`, `EndedRowsStay` and the refinement `TaskLogIsJournal`;
* the attempts: `AttemptsSoFar` (what is left of the attempts, place by place in
  `Run`, with the wrapped counter) and `RowHasResult` give `AttemptsAllMade`, which
  compares what the counter makes of `RetryTimes` with what the task asks for;
* the wrappers: `InstanceFixed` (a goroutine's settings are those of its
  instance, which nobody changes) and `WrapperHeld` (a goroutine past an exclusive
  wrapper has its token) with pairwise exclusion of holders give
  `StrategiesExclude`. The exclusion alone is not inductive: a new holder must find
  the token taken. The converse, that a token taken has a holder (`TokensAreHeld`),
  is what a task that is skipped for ever would violate;
* the instances: `ListedOnce` (an instance is listed under its own task, at most
  once, and empty when it is listed, even with several requests at work) and
  `RegisteredRight` give `OnlyKnownLeaks`;
* the dependencies: `DependencyKnown` says something of rows only, and a save may
  write any copy. `CopyKnown` says the same of every copy in flight, and it stays
  true because no key is ever free again, however many tasks are deleted between
  the check of a request and its save (`RowsStay`). That gives `DependenciesKnown`,
  for any number of requests; `ImportsKeepGraph` follows from what a map from old
  to new keys is;
* the schedule, for requests that do not meet about one task (`RequestsApart`). While
  no request is about a task its place in the schedule and its row agree, and during
  one they do not; so `SchedInv` says for each place a request may have come to how
  far its task may differ (`RequestRight`), that every other task is listed as its row asks (`TaskRight`),
  that a listed instance is on cron unless it is being removed, and that whatever
  is on cron is listed or about to be (`EntryRight`). A death keeps it because it
  takes schedule and request with it. While the server starts, only the tasks not
  in `bootList` are covered. It rests on `ListedOnce`, `InstanceFixed` and
  `KnownInv`, and gives `EntriesListed`, `ScheduleIsTable` and
  `SecondInstanceNeedsTwo`;
* the refinement of `Timetable`, on that invariant. `RightNow` is `Table!Right` in the
  variables of the scheduler, and `UntouchedRight` derives it for a task that no request
  is about; taken in the state after a step it is what `Finish` and `Open` ask for. One
  lemma per step of the timetable (`TableBegins`, `TableAsks`, `TableChanges`,
  `TableFinishes`, `TableStutters`) says which steps of the scheduler it stands for, and
  one per group of actions (`TableBoot`, `TableRequest`, `TableServe`,
  `TableTransaction`, `TableRuns`, `TableDies`) that there is no other;
  `ScheduleFollowsTable` puts them together;
* the settings: a row in use is written by saves alone (`SettingsSteps`), and the copy a
  stop or a start has in flight has the settings of its row (`CopyCurrent`), because
  nobody else saves that row meanwhile. `SettingsStay` follows;
* runs and the instance of their task: `FromListed` (a scheduled run was fired by the
  instance that is listed for its task, or that a request is about to list) is
  kept by every step except a stop or an edit of that task. With one instance per
  task the exclusion per instance is one per task (`TasksExclude`), and a run that
  ends finds what it dereferences (`CleanupFinds`);
* ranks: `StepsLeft` counts what is left of a run. `RunsAreFinite`: nothing but a step
  of its own moves a run, and each brings it nearer to its end, which is at most
  4 * `Made` + 6 steps away (`Made`: the attempts the counter allows). That is the
  safety half of `EveryRunEnds` and `DelayedRunProceeds`.

**NodesProofs.** The inductive invariant says of every row *and of every stale
copy in flight* that its key was made for that very node (`RowsOwnKeys`,
`CopiesOwnKeys`): that is why writing an old copy back can restore a key but
never share one. `ReportsKnowNode`, `AssignmentsKept` and `FiledKeyIssued` do the
same for reports; `NamesIndexed` is what the unique index keeps.
`FreshCopy`: the copy any other request holds has the key of the table, as long as no
such copy is there when a key is made anew; so only a request for a new key changes a
key, and its save does.
Theorems: `TypeCorrect`, `KeysAreOwn`, `ReportsAreOwn`,
`NamesAreDistinct`, `DeletionIsFinal`, `KeyChangesWhenAsked`.

**PushProofs.** `ClientRight` (a reader comes after the registration, a
subscription after the maps, an update after a subscription), `ListedRight`
(listed means registered and reader not ended), `TimerRight`, `ShownKnown` and
`SubscriptionsComing`. The last generalises `SubscriptionsHeld` to frames still
on their way: for a topic the page shows, the last word on it in the queue of
the page is a subscription, or the queue does not unsubscribe it and the same
holds of the frames under way and then of what the server has. It is kept by
appending, sending and reading frames, which are lemmas on sequences.
`NewestListed`: the newest connection of a page is the one `ClientList` has for it
from its registration until its reader is done; `LinkRight` says that no connection is
newer than the last one the page made, and that a reader leaves only a connection that
is cut. As the old connections are gone, none of them has a step left that touches the
place of the page in the list.
Theorems: `TypeCorrect`, `PagesAreSubscribed`, `ListHasNoDead`,
`ConnectedPagesSend`, `HubIsServed`, `ConnectedStaysListed`.

**TaskPageProofs.** Types need `CallsNamed` and `DialogNamed` (a call or dialog
about a task has one). `EditInv`: the dialog was filled from the task it is for,
so the call it sends is. `SpinnersExplained` and `ButtonsExplained` are inductive
with the types. For `RefreshRenders` the invariant is `KnownInv`: a copy of a task,
in the list, in a row or in an answer, that has the `update_time` of the table has its
fields as well, unless the last save was tied; so a row that keeps its copy under the
same key loses nothing. A push writes the name and the enabled state of the copy and
not its key, so the invariant leaves these two out, except (parameter `full`) where
every push is right when it arrives.
Theorems: `TaskPageType`, `TaskPageEdit`, `TaskPageSpinners`, `TaskPageButtons`,
`TaskPageRefresh`, `TaskPageListed`.

**TaskLogPageProofs.** `PushesTrue` and `EndsTrue`: a push or an answer that says
a run has ended, a row that shows it and a timer that takes it out are right about
that; with it `RunKept` is inductive. `OffRowTimed`: a closed row that shows the end of
its run has a timer. `WaitInv`: a row that still shows its run as running, though it
has ended, has the push of the end before it, behind every push that would mount it
again, or is one of `late`. The two give `EndedRowTimed`.
Theorems: `TaskLogPageType`, `TaskLogPageTimers`, `TaskLogPageRuns`.

**NodePageProofs.** `DeployDialogHeld` is inductive with the types.
`TestingExplained` counts calls; `TestInv` says the same with quantifiers (there is
a test, and no two), and the two are related by cardinalities. `VersionInv` (no
answer and no acknowledged change is newer than the table) and `FreshInv` (while
the list is older than what was acknowledged, a list call is under way that was not
handled yet or brings it) give `ChangesShown`.
Theorems: `NodePageType`, `NodePageDeploy`, `NodePageTesting`, `NodePageChanges`.

**PagedListProofs.** `AskInv`: as long as no two list calls were under way, there is
one at most and it asks for the page last asked for. `FitInv`: an answer under way
fits its own total as the footer on screen does; that a page of a table has as many
rows as its footer says comes from `RankRight` (the ranks of the rows of a finite
set are the numbers from 1 to their count, each once) and `PageFits` (so the rows of
a page are in bijection with an interval). Theorems: `PagedListType`,
`PagedListAskedPage`, `PagedListFooter`.

**ScreensProofs.** `TokenInv`: as long as nothing has spoiled it, one submit of one
tab is under way at most (`OneLogin`), the token in its answer is valid (`NewTokenValid`), and
the stored one is until the old tokens are deleted (`OldTokenValid`). `ScreensPages`
composes: a behaviour of the client is a behaviour of the specification of every
page, so that each page's theorems hold in the client; `ScreensType` puts the types
together and `ScreensPromises` the twelve other properties of the `screens` run. Theorems
besides: `PanelsType`, `SessionType`, `SessionStoredToken`.

**Only model-checked:** the liveness properties. `HubServesAll` wholly; of
`EveryRunEnds` and `DelayedRunProceeds` what the ranks leave over: that a run that is
not finished has a step enabled or waits for one that has (ENABLED), and that fairness
makes it take that step. Both are out of the prover's reach. Every invariant and action property of the passing runs is stated by
a theorem, `ImplementsJournal` and `FollowsTable` by the refinement theorems.

## 5. What the code does otherwise than the repository says

With a run that shows it, and a theorem (section 4) that says when it cannot happen:

| run | property | source | what |
|---|---|---|---|
| `second_instance` | `NoSecondInstance` | `task/task.go:38` | two StartTask requests leave an entry on cron that nothing can remove |
| `stop_panic` | `CleanupFindsInstance` | `task/handler.go:31` | stopping a skip task during a run ends the server |
| `retry_wrap` | `AttemptsRight` | `task/handler.go:37` | a task with `RetryTimes` 127 is never attempted: `execTimes`, an int8, wraps to -128 |
| `node_key` | `KeyChangesOnRequest` | `controller/agent.go:67` | a heartbeat saves the old key back over a new one |
| `stale_unregister` | `ConnectedIsListed` | `web/ws/ws.go:33` | the late unregistration of an old connection removes the new one |

Met while modelling, in the model or plain to see, without a run:

* An edit during a run gives the task a second wrapper (`controller/task.go:356`),
  and runs of a skip or delay task overlap. `Scheduler.TaskExclusion` states the
  exclusion per task; TLC refutes it if it is added to `SchedulerStrategies.cfg`, and
  `TasksExclude` proves that it takes a stop or an edit during a run.
* `DeleteTask` deletes the row and leaves the entry on cron until the next start
  (`README.md:523`). `Timetable` promises nothing of a deleted
  task before that for this reason.
* A task can belong to a deleted node, against the answer at `node.go:156`: it is
  handed over between the count (`node.go:154`) and the deletion (`node.go:159`), or
  after it, for neither `AddTask` (`controller/task.go:300`) nor `EditTask`
  (`controller/task.go:350`) nor an import (`task_transfer.go:107`) looks whether the
  node is there. `Nodes` has no guard there either, and no property speaks of it.
* A report of an agent writes its row whatever the task depends on
  (`controller/agent.go:137`): the dependency of a task of an edge node is checked by
  nobody here. A run of this server that depends on such a task may therefore begin
  after a success the dependency's own dependency never allowed.
  `DependentAfterSuccess` speaks of the runs of this server.
* `StopTask` and `StartTask` save every column of the row they loaded
  (`controller/task.go:192`) and undo an edit saved in between.
  `Scheduler.SettingsChangeByEdit` states what should hold; TLC refutes it on
  `SchedulerStrategies.cfg` with a second handler, and `SettingsStay` proves that it takes
  two requests about one task.
* `StopTask` kills what runs; `controller/task.go:181` says it does not.
* A task of a node that is not found is left out by AddTask and scheduled by the
  next start (`task/task.go:179`, `controller/agent.go:286`).
* A run of `StartOnceTask` is never taken off `RunningInstances`; rows of runs that
  die with the server say "running" for ever (`model/task_log.go:11`).
* `executeDeployCommands` never returns an error (`deploy.go:345`), so the answer
  "partial" is never given. The name of a deleted node stays taken by the
  unique index.
* The maps of subscriptions are made after the goroutine that needs them is
  started, against the comment at `web/ws/client.go:37`.
* `openCb` skips no topic: it compares an array with 0 (`Websocket.js:40`). The
  PING of a page does not unmarshal into a map of strings and is never answered.
  A component that goes away unsubscribes the topic under another that shows it.
* A writer goroutine never ends: nobody closes `client.Message`.
* The node dialog opens with the form of the node edited before
  (`NodeList.js:443` reads the state of the last render), and saving writes it over
  the chosen node, against "Edit Node Dialog" (`NodeList.js:432`) and
  `PUT /node/:node_id` (`README.md:539`). `NodePage.NodeEditSavesItsNode` states
  what should hold.
* A row keeps the name or the enabled state a push gave it although the list says
  otherwise, because pushes write the copy and not its key: the comment at `TaskList.js:82`
  promises more. `TaskPage.AllRendered` states it. TLC refutes this one and the
  previous one if they are added to `Screens.cfg`. `TaskPageListed` proves that it
  takes a push that was read before a change and is handled after it, or a second
  save in the second of the last one: `update_time`, the key of a row, has no finer
  unit in MySQL, and a row that was mounted between the two keeps the fields of the
  first.
* The row of a run that is mounted after the push of the run's end has come shows the
  run as running, and nothing takes it out until the page is left: it subscribes on
  its mount (`TaskRunningLog.js:71`) and starts its timer for an `off` status only.
  `EndedRowTimed` names these rows (`late`).
* The login form can be submitted again before the first answer (`Login.js:33`): of
  two logins the later one deletes the token of the earlier one at the server, and the
  answer that comes last is stored. `StoredTokenGood` names the overlap.
* Two deletions confirmed one after the other filter the list each saw when it was
  confirmed (`TaskList.js:115`): the second answer brings the first row back.
* The dialog that deletes a user is given no `deleteUserById` (`UserList.js:106`)
  and calls it (`UserList.js:179`): after a deletion that went well an error is
  shown, and the row stays until the next refresh. A refresh after a dialog asks for
  the page of the render it closes over.
* A list call that fails leaves its skeleton or spinner for ever (`TaskList.js:89`).
* An answer that refuses the session is stored as data by the panels of the
  dashboard, and the next render takes the page down (`CpuInfo.js:59`).
* Logging out forgets the token in the browser and leaves it valid at the server.
* The page gives a deployment up after 30 s; the server goes on with it.
* Cycles of dependencies pass every check, from an imported file or by two edits;
  their tasks refuse to run from then on.

## 6. Not modelled, and why

* The text of an execution log, the JavaScript of an assertion, the time between two
  attempts: a run here has a number of tries and an outcome.
* Processes of a command that survive the command or the server, and output pipes
  held open by them: the operating system's part. A command that starts ends.
* Database statements other than those refused by an index or a key succeed.
* `UpdateTask`, `Manager.Stop` and `MigrateExistingTasks` have no reachable caller.
* Heart's PING, node status and health, `GET` handlers: they decide nothing that a
  property is about.
* Of the web client: the frame (`Layout.js`, an empty drawer); the panel with what
  a node said of itself; the buttons that export tasks and test a push address; the
  dialog with the output of an ended run; the fields of the forms, which are one
  value each; `Users.js` and `Chart.js`, which nothing mounts. What a page leaves
  behind when it is left (calls whose answers come to nobody) is dropped.
* Which of an answer and a push is the newer reading of a panel.
* What the gauges draw. They share one option object, which each writes and hands
  to `echarts-for-react` (`System.js:117`); when that library reads it is not in the
  repository.
* Passwords, and the maps of `session.go`, which nothing uses.
* Redis lock and limiter, mobile application: planned, below. Monitor, WeCom, the
  server's routing and encoding: they read, send or draw, and keep no state that two
  actors share.

## 7. Plan

Done, in the order of importance: `RunJournal`, `Timetable` and `Scheduler`, with imports;
`Nodes`; `WsHub` and `Push`; the web client, `Http`, `TaskPage`, `TaskLogPage`,
`NodePage`, `PagedList`, `Panels`, `Session` and `Screens`; each with proofs. Next:

1. An abstract specification of the push service: a topic board implemented by `Push`.
2. Proofs: bounds on what a list or a row of a screen may hold; that every place of a
   request or a run has a step that only its named partner can disable.
3. `TaskRun`: one attempt in detail: time-out and kill, the result assertion, the
   output pipes; a refinement of `Exit` in `Scheduler`.
4. `RedisLock`: lock, keeper and release, with expiry. A library without a caller.
5. The controller of the mobile application as one more client.

## 8. Running it

`tlc -config SchedulerStrategies.cfg MCScheduler` and the like for the other
configurations, `tlc -config Screens.cfg MCScreens` for the web client (two to three
minutes each); `tlapm SchedulerProofs.tla` and the like for every `*Proofs.tla`. The
`Mutant` operators in the modules are forms of the
code with a plausible slip in them; `PROJECT.json` says which property each one
breaks.
