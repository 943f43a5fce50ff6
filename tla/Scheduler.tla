----------------------------- MODULE Scheduler -----------------------------
(***************************************************************************)
(* The task scheduler of the server: the Manager and its TaskList          *)
(* (src/task/task.go, taskIns.go), the job goroutines the cron library     *)
(* starts for it (handler.go, taskRunning.go), the HTTP handlers that      *)
(* change both (src/web/controller/task.go), the one by which an edge node *)
(* reports a run of its own (agent.go), and the two database tables they   *)
(* read and write.                                                         *)
(*                                                                         *)
(* TaskList is a plain map shared by every goroutine without a lock, and   *)
(* a handler loads a row, works on the copy and saves the whole row back,  *)
(* so an action here is one access to shared memory, to the cron library   *)
(* or to the database, never a whole request.  A "fatal error: concurrent  *)
(* map writes" of the Go runtime is one of the reasons for Crash.          *)
(*                                                                         *)
(* A run is what one goroutine does for one firing of a cron entry, or for *)
(* one call of StartOnceTask (then its entry is NoEntry).                  *)
(***************************************************************************)
EXTENDS Integers, FiniteSets

CONSTANTS
  Tasks,        \* primary keys of the task table
  NoTask,       \* depends_on_task_id = 0
  Handlers,     \* HTTP requests served at the same time
  Runs,         \* job goroutines alive at the same time
  Configs,      \* settings a user may give a task
  MaxEntries,   \* bound: cron entries allocated between two starts
  MaxLogs       \* bound: rows of the task_log table

MaxInt8  == 127
Strategy == {"parallel", "skip", "delay"}
Node     == {"master", "edge", "unknown"}
Config   == [strategy : Strategy, retry : 0..MaxInt8, dep : Tasks \cup {NoTask},
             node : Node, handler : BOOLEAN]

ASSUME ConstantsAssumption ==
  /\ NoTask \notin Tasks
  /\ Configs \subseteq Config
  /\ MaxEntries \in Nat
  /\ MaxLogs \in Nat

EntryId == 1..MaxEntries
LogId   == 1..MaxLogs
NoEntry == 0
NoLog   == 0

VARIABLES
  phase,      \* "down", "booting" (inside Manager.Start) or "up"
  bootList,   \* tasks Manager.Start has still to add
  row,        \* the task table
  taskLog,    \* the task_log table
  nextLog,    \* its auto-increment key
  cron,       \* entries the cron library fires
  nextEntry,  \* the cron library's entry counter
  inst,       \* the taskInstance made for each entry
  TaskList,   \* Manager.TaskList, as the entry of the listed instance
  busy,       \* Skip tokens taken and Delay mutexes held, by entry
  run,        \* the job goroutines
  req,        \* the HTTP requests that change a task or report a run
  lost,       \* history: log rows whose run died with the server
  uncleaned   \* history: log rows whose run never takes itself off a list

dbVars     == <<row, taskLog, nextLog>>
cronVars   == <<cron, nextEntry, inst>>
memoryVars == <<TaskList, busy>>
ghostVars  == <<lost, uncleaned>>
vars == <<phase, bootList, row, taskLog, nextLog, cron, nextEntry, inst,
          TaskList, busy, run, req, lost, uncleaned>>

(***************************************************************************)
(* Records and their empty values.                                         *)
(***************************************************************************)
NoConfig == [strategy |-> "parallel", retry |-> 0, dep |-> NoTask,
             node |-> "master", handler |-> FALSE]
NoRow  == [state |-> "none", disabled |-> TRUE, cfg |-> NoConfig]
NoLine == [status |-> "none", task |-> NoTask, dep |-> NoTask, result |-> FALSE,
           reported |-> FALSE]
NoInst == [task |-> NoTask, cfg |-> NoConfig, running |-> {}]
NoRun  == [pc |-> "free", entry |-> NoEntry, task |-> NoTask, cfg |-> NoConfig,
           log |-> NoLog, tries |-> 0, ok |-> FALSE, killed |-> FALSE]
NoReq  == [pc |-> "idle", op |-> "none", task |-> NoTask, snap |-> NoRow,
           entry |-> NoEntry]
(* A request that has done all it does and waits to push the task.         *)
Pushing == [NoReq EXCEPT !.pc = "push"]

(* A run that owns a log row saying "running".                             *)
Working == {"start", "register", "running", "sleep", "after"}
HasLog  == Working \cup {"cleanup"}
(* A run that is past the Skip or Delay wrapper.                           *)
Inside  == {"check", "create"} \cup Working \cup {"cleanup"}

Row    == [state : {"none", "live", "deleted"}, disabled : BOOLEAN, cfg : Config]
(* reported: the row was written for an edge node, not by a run of this    *)
(* server (history).                                                       *)
Line   == [status : {"none", "running", "ended"}, task : Tasks \cup {NoTask},
           dep : Tasks \cup {NoTask}, result : BOOLEAN, reported : BOOLEAN]
Inst   == [task : Tasks \cup {NoTask}, cfg : Config, running : SUBSET LogId]
Run    == [pc : {"free", "wait"} \cup Inside, entry : EntryId \cup {NoEntry},
           task : Tasks \cup {NoTask}, cfg : Config, log : LogId \cup {NoLog},
           tries : Nat, ok : BOOLEAN, killed : BOOLEAN]
Req    == [pc : {"idle", "save", "sync", "check", "load", "job", "publish",
                 "remove", "kill", "unlist", "unlistAgain", "push", "report"},
           op : {"none", "stop", "start", "edit", "add", "report"},
           task : Tasks \cup {NoTask}, snap : Row, entry : EntryId \cup {NoEntry}]

TypeOK ==
  /\ phase \in {"down", "booting", "up"}
  /\ bootList \in SUBSET Tasks
  /\ row \in [Tasks -> Row]
  /\ taskLog \in [LogId -> Line]
  /\ nextLog \in 1..(MaxLogs + 1)
  /\ cron \in SUBSET EntryId
  /\ nextEntry \in 1..(MaxEntries + 1)
  /\ inst \in [EntryId -> Inst]
  /\ TaskList \in [Tasks -> EntryId \cup {NoEntry}]
  /\ busy \in SUBSET EntryId
  /\ run \in [Runs -> Run]
  /\ req \in [Handlers -> Req]
  /\ lost \in SUBSET LogId
  /\ uncleaned \in SUBSET LogId

(***************************************************************************)
(* Helpers.                                                                *)
(***************************************************************************)
Live(t) == row[t].state = "live"

(* isLocalTask: node 0, the master, and a node that is not found.          *)
IsLocal(c) == c.node # "edge"

(* Mutant: any row of d will do, however its run ended.                    *)
HasRow(d) == \E l \in LogId : taskLog[l].status # "none" /\ taskLog[l].task = d

(* The newest ended log row of d reports success.                          *)
LastEndedSucceeded(d) ==
  \E l \in LogId :
    /\ taskLog[l].status = "ended" /\ taskLog[l].task = d /\ taskLog[l].result
    /\ \A m \in LogId :
         m > l /\ taskLog[m].task = d => taskLog[m].status # "ended"

(* Mutant: a task without a dependency is not let through.                 *)
DependencyRequired(t, c) == c.dep # t /\ c.dep \in Tasks /\ LastEndedSucceeded(c.dep)

DependencyMet(t, c) ==
  c.dep \in Tasks => c.dep # t /\ Live(c.dep) /\ LastEndedSucceeded(c.dep)

(* What validateTaskMutationPayload asks of a dependency.                  *)
ValidDependency(t, c) == c.dep \in Tasks => c.dep # t /\ Live(c.dep)

(* execTimes, the attempts of a scheduled run: an int8, like RetryTimes.    *)
Int8(n) == IF n > MaxInt8 THEN n - 256 ELSE n
ExecTimes(c) == Int8(1 + c.retry)

(* Bounds, taken where an operation begins so that none is cut short.      *)
EntryBudget ==
  nextEntry + Cardinality({h \in Handlers : req[h].op \in {"start", "edit", "add"}})
    <= MaxEntries
LogBudget ==
  nextLog + Cardinality({r \in Runs : run[r].pc \in {"wait", "check", "create"}})
          + Cardinality({h \in Handlers : req[h].pc = "report"})
    <= MaxLogs

Init ==
  /\ phase = "down"
  /\ bootList = {}
  /\ row = [t \in Tasks |-> NoRow]
  /\ taskLog = [l \in LogId |-> NoLine]
  /\ nextLog = 1
  /\ cron = {}
  /\ nextEntry = 1
  /\ inst = [e \in EntryId |-> NoInst]
  /\ TaskList = [t \in Tasks |-> NoEntry]
  /\ busy = {}
  /\ run = [r \in Runs |-> NoRun]
  /\ req = [h \in Handlers |-> NoReq]
  /\ lost = {}
  /\ uncleaned = {}

(***************************************************************************)
(* Start and death of the server process.                                  *)
(***************************************************************************)

(* Everything in memory is gone; the tables are as they were.              *)
ServerDies ==
  /\ phase' = "down"
  /\ bootList' = {}
  /\ cron' = {}
  /\ nextEntry' = 1
  /\ inst' = [e \in EntryId |-> NoInst]
  /\ TaskList' = [t \in Tasks |-> NoEntry]
  /\ busy' = {}
  /\ run' = [r \in Runs |-> NoRun]
  /\ req' = [h \in Handlers |-> NoReq]
  /\ lost' = lost \cup {l \in LogId : taskLog[l].status = "running"}
  /\ uncleaned' = {}
  /\ UNCHANGED dbVars

(* A signal (none is handled while web.StartService blocks), the SIGKILL   *)
(* of "gonitor stop", or a fatal error of the runtime.                     *)
Crash ==
  /\ phase # "down"
  /\ ServerDies

(* Manager.Start reads the enabled rows ...                                *)
BootLoad ==
  /\ phase = "down"
  /\ phase' = "booting"
  /\ bootList' = {t \in Tasks : Live(t) /\ ~row[t].disabled}
  /\ UNCHANGED <<dbVars, cronVars, memoryVars, run, req, ghostVars>>

(* ... calls AddTask for each of them before anything else runs ...        *)
BootAddTask(t) ==
  /\ phase = "booting"
  /\ t \in bootList
  /\ nextEntry <= MaxEntries
  /\ bootList' = bootList \ {t}
  /\ IF TaskList[t] = NoEntry /\ Live(t) /\ ~row[t].disabled /\ IsLocal(row[t].cfg)
     THEN /\ cron' = cron \cup {nextEntry}
          /\ nextEntry' = nextEntry + 1
          /\ inst' = [inst EXCEPT ![nextEntry] =
                        [task |-> t, cfg |-> row[t].cfg, running |-> {}]]
          /\ TaskList' = [TaskList EXCEPT ![t] = nextEntry]
     ELSE UNCHANGED <<cronVars, TaskList>>
  /\ UNCHANGED <<phase, dbVars, busy, run, req, ghostVars>>

(* ... and starts cron; then the HTTP service starts.                      *)
BootDone ==
  /\ phase = "booting"
  /\ bootList = {}
  /\ phase' = "up"
  /\ UNCHANGED <<bootList, dbVars, cronVars, memoryVars, run, req, ghostVars>>

(***************************************************************************)
(* HTTP requests: the steps of the handlers in controller/task.go.         *)
(***************************************************************************)
Idle(h) == phase = "up" /\ req[h].pc = "idle"
At(h, pc) == req[h].pc = pc
Goto(h, pc) == req' = [req EXCEPT ![h].pc = pc]
Respond(h) == req' = [req EXCEPT ![h] = NoReq]
(* StopTask and StartTask push the task before they respond.               *)
PushFirst(h) == req' = [req EXCEPT ![h] = Pushing]
(* A request still at work on its task, and not one of those aside.        *)
Aside == {"idle", "push", "report"}
AtWork(h) == req[h].pc \notin Aside
CallAddTask(h) ==
  req' = [req EXCEPT ![h] = [NoReq EXCEPT !.pc = "check", !.op = req[h].op,
                                          !.task = req[h].task]]
Accept(h, op, pc, t, snap) ==
  req' = [req EXCEPT ![h] = [pc |-> pc, op |-> op, task |-> t, snap |-> snap,
                             entry |-> NoEntry]]

(* StopTask loads the row; DeleteTask of the Manager comes before the save.*)
StopTask(h, t) ==
  /\ Idle(h)
  /\ Live(t)
  /\ Accept(h, "stop", "remove", t, [row[t] EXCEPT !.disabled = TRUE])
  /\ UNCHANGED <<phase, bootList, dbVars, cronVars, memoryVars, run, ghostVars>>

StartTask(h, t) ==
  /\ Idle(h)
  /\ Live(t)
  /\ EntryBudget
  /\ Accept(h, "start", "save", t, [row[t] EXCEPT !.disabled = FALSE])
  /\ UNCHANGED <<phase, bootList, dbVars, cronVars, memoryVars, run, ghostVars>>

(* EditTask loads the row, validates, and overwrites every setting in the  *)
(* copy it will save.                                                      *)
EditTask(h, t, c, d) ==
  /\ Idle(h)
  /\ Live(t)
  /\ EntryBudget
  /\ ValidDependency(t, c)
  /\ Accept(h, "edit", "save", t, [row[t] EXCEPT !.disabled = d, !.cfg = c])
  /\ UNCHANGED <<phase, bootList, dbVars, cronVars, memoryVars, run, ghostVars>>

(* AddTask creates the row, then calls SyncTaskToNode.                     *)
AddTask(h, t, c, d) ==
  /\ Idle(h)
  /\ row[t].state = "none"
  /\ EntryBudget
  /\ ValidDependency(t, c)
  /\ row' = [row EXCEPT ![t] = [state |-> "live", disabled |-> d, cfg |-> c]]
  /\ Accept(h, "add", "sync", t, NoRow)
  /\ UNCHANGED <<phase, bootList, taskLog, nextLog, cronVars, memoryVars, run,
                 ghostVars>>

(* DeleteTask of the controller marks the row deleted and nothing else:    *)
(* the delete statement is the request's only effect.                      *)
DeleteTask(t) ==
  /\ phase = "up"
  /\ Live(t)
  /\ row' = [row EXCEPT ![t].state = "deleted"]
  /\ UNCHANGED <<phase, bootList, taskLog, nextLog, cronVars, memoryVars, run,
                 req, ghostVars>>

(* An item of an import: the key the task had where it was exported (or    *)
(* none), its settings and the key of its dependency there.  A file is a   *)
(* function from the keys its tasks are about to get; oldToNew has, for a  *)
(* key that several items claim, the last of them.                         *)
ImportItem == [old : Tasks \cup {NoTask}, cfg : {[c EXCEPT !.dep = NoTask] : c \in Configs},
               dep : Tasks \cup {NoTask}]
ImportFiles == UNION {[new -> ImportItem] :
                        new \in SUBSET {t \in Tasks : row[t].state = "none"} \ {{}}}
OldToNew(items) ==
  {m \in [Tasks -> DOMAIN items \cup {NoTask}] :
     \A k \in Tasks : IF \E t \in DOMAIN items : items[t].old = k
                      THEN m[k] # NoTask /\ items[m[k]].old = k
                      ELSE m[k] = NoTask}

(* Mutant: the key of the file is taken as it is.                          *)
ImportedKey(items, oldToNew, t) == items[t].dep

(* A dependency in the file is followed to its copy, any other is a key of *)
(* this database.                                                          *)
ImportedDep(items, oldToNew, t) ==
  LET d == items[t].dep
  IN IF d \in Tasks /\ oldToNew[d] # NoTask THEN oldToNew[d] ELSE d

(* Mutant: a key that is not in the file is not looked up.                 *)
ImportUnchecked(items, oldToNew, t) == ImportedDep(items, oldToNew, t) # t

(* The look-up in the transaction finds the rows just created as well.     *)
ImportAccepted(items, oldToNew, t) ==
  LET d == ImportedDep(items, oldToNew, t)
  IN d \in Tasks => d # t /\ (Live(d) \/ d \in DOMAIN items)

(* ImportTasks creates every task of the file, disabled, or none of them:  *)
(* one transaction, and no SyncTaskToNode.                                 *)
ImportTasks(items) ==
  /\ phase = "up"
  /\ \E m \in OldToNew(items) :
       /\ \A t \in DOMAIN items : ImportAccepted(items, m, t)
       /\ row' = [t \in Tasks |->
                    IF t \in DOMAIN items
                    THEN [state |-> "live", disabled |-> TRUE,
                          cfg |-> [items[t].cfg EXCEPT !.dep = ImportedDep(items, m, t)]]
                    ELSE row[t]]
  /\ UNCHANGED <<phase, bootList, taskLog, nextLog, cronVars, memoryVars, run,
                 req, ghostVars>>

(* The requests whose only effect is one transaction on the task table.    *)
Transaction ==
  \/ \E t \in Tasks : DeleteTask(t)
  \/ \E items \in ImportFiles : ImportTasks(items)

(* AgentReportTaskResult finds the task among those of the node that sends *)
(* the report, an edge node ...                                            *)
AgentReportTaskResult(h, t) ==
  /\ Idle(h)
  /\ Live(t) /\ row[t].cfg.node = "edge"
  /\ LogBudget
  /\ Accept(h, "report", "report", t, NoRow)
  /\ UNCHANGED <<phase, bootList, dbVars, cronVars, memoryVars, run, ghostVars>>

(* ... and writes a row that is ended as it is made, with the result of    *)
(* the report, whatever became of the task or of its dependency.           *)
CreateReport(h) ==
  LET t == req[h].task
  IN /\ At(h, "report")
     /\ nextLog <= MaxLogs
     /\ \E result \in BOOLEAN :
          taskLog' = [taskLog EXCEPT ![nextLog] =
                        [status |-> "ended", task |-> t, dep |-> row[t].cfg.dep,
                         result |-> result, reported |-> TRUE]]
     /\ nextLog' = nextLog + 1
     /\ Respond(h)
     /\ UNCHANGED <<phase, bootList, row, cronVars, memoryVars, run, ghostVars>>

(* Db.Save writes the whole copy; on a row deleted meanwhile it fails,     *)
(* which only StartTask and EditTask answer with an error.                 *)
Save(h) ==
  LET t == req[h].task
      written == Live(t)
  IN /\ At(h, "save")
     /\ row' = IF written THEN [row EXCEPT ![t] = req[h].snap] ELSE row
     /\ \/ written /\ req[h].op = "start" /\ CallAddTask(h)
        \/ written /\ req[h].op = "edit" /\ Goto(h, "remove")
        \/ req[h].op = "stop" /\ PushFirst(h)
        \/ ~written /\ req[h].op # "stop" /\ Respond(h)
     /\ UNCHANGED <<phase, bootList, taskLog, nextLog, cronVars, memoryVars, run,
                    ghostVars>>

(* SyncTaskToNode: the master's tasks go to Manager.AddTask, an edge task  *)
(* is left to its node, an unknown node is an error.                       *)
SyncTaskToNode(h) ==
  LET t == req[h].task
  IN /\ At(h, "sync")
     /\ IF Live(t) /\ row[t].cfg.node = "master" THEN CallAddTask(h) ELSE Respond(h)
     /\ UNCHANGED <<phase, bootList, dbVars, cronVars, memoryVars, run, ghostVars>>

(***************************************************************************)
(* Manager.AddTask: look in TaskList, load the row, register with cron,    *)
(* list the instance.                                                      *)
(***************************************************************************)
(* An error is answered at once.                                           *)
AddTaskCheck(h) ==
  /\ At(h, "check")
  /\ IF TaskList[req[h].task] = NoEntry THEN Goto(h, "load") ELSE Respond(h)
  /\ UNCHANGED <<phase, bootList, dbVars, cronVars, memoryVars, run, ghostVars>>

(* AddTask has done what it was called for, or found nothing to do.        *)
AddTaskReturns(h) == IF req[h].op = "start" THEN PushFirst(h) ELSE Respond(h)

AddTaskLoad(h) ==
  LET t == req[h].task
  IN /\ At(h, "load")
     /\ IF Live(t) /\ ~row[t].disabled /\ IsLocal(row[t].cfg)
        THEN req' = [req EXCEPT ![h].pc = "job", ![h].snap = row[t]]
        ELSE IF Live(t) THEN AddTaskReturns(h) ELSE Respond(h)
     /\ UNCHANGED <<phase, bootList, dbVars, cronVars, memoryVars, run, ghostVars>>

AddTaskJob(h) ==
  /\ At(h, "job")
  /\ nextEntry <= MaxEntries
  /\ cron' = cron \cup {nextEntry}
  /\ inst' = [inst EXCEPT ![nextEntry] =
                [task |-> req[h].task, cfg |-> req[h].snap.cfg, running |-> {}]]
  /\ nextEntry' = nextEntry + 1
  /\ req' = [req EXCEPT ![h].pc = "publish", ![h].entry = nextEntry]
  /\ UNCHANGED <<phase, bootList, dbVars, memoryVars, run, ghostVars>>

AddTaskPublish(h) ==
  /\ At(h, "publish")
  /\ TaskList' = [TaskList EXCEPT ![req[h].task] = req[h].entry]
  /\ AddTaskReturns(h)
  /\ UNCHANGED <<phase, bootList, dbVars, cronVars, busy, run, ghostVars>>

(* The push is over once the hub has taken it from a channel without a     *)
(* buffer: until then the request waits (see Push).                        *)
PushTask(h) ==
  /\ At(h, "push")
  /\ Respond(h)
  /\ UNCHANGED <<phase, bootList, dbVars, cronVars, memoryVars, run, ghostVars>>

(***************************************************************************)
(* Manager.DeleteTask: take the listed instance off cron, kill what it has *)
(* registered, unlist it (taskInstance.stop does, then DeleteTask again).  *)
(***************************************************************************)

(* Mutant: EditTask does not add the task again.                           *)
AfterDeleteOnly(h) ==
  \/ /\ req[h].op = "stop"
     /\ req' = [req EXCEPT ![h].pc = "save", ![h].entry = NoEntry]
  \/ req[h].op = "edit" /\ Respond(h)

(* What the request does once Manager.DeleteTask has returned.             *)
AfterDelete(h) ==
  \/ /\ req[h].op = "stop"
     /\ req' = [req EXCEPT ![h].pc = "save", ![h].entry = NoEntry]
  \/ /\ req[h].op = "edit"
     /\ IF IsLocal(req[h].snap.cfg) /\ ~req[h].snap.disabled
        THEN CallAddTask(h) ELSE Respond(h)

(* Mutant: the instance stays on cron.                                     *)
DeleteTaskKeep(h) ==
  LET e == TaskList[req[h].task]
  IN /\ At(h, "remove")
     /\ IF e = NoEntry THEN AfterDelete(h)
        ELSE req' = [req EXCEPT ![h].pc = "kill", ![h].entry = e]
     /\ UNCHANGED <<phase, bootList, dbVars, cronVars, memoryVars, run, ghostVars>>

DeleteTaskRemove(h) ==
  LET e == TaskList[req[h].task]
  IN /\ At(h, "remove")
     /\ cron' = cron \ {e}
     /\ IF e = NoEntry THEN AfterDelete(h)
        ELSE req' = [req EXCEPT ![h].pc = "kill", ![h].entry = e]
     /\ UNCHANGED <<phase, bootList, dbVars, nextEntry, inst, memoryVars, run,
                    ghostVars>>

(* Only a process that is running dies: during a pause between two         *)
(* attempts the registered pid is that of the process before.              *)
DeleteTaskKill(h) ==
  /\ At(h, "kill")
  /\ run' = [r \in Runs |->
               IF run[r].pc = "running" /\ run[r].log \in inst[req[h].entry].running
               THEN [run[r] EXCEPT !.killed = TRUE] ELSE run[r]]
  /\ Goto(h, "unlist")
  /\ UNCHANGED <<phase, bootList, dbVars, cronVars, memoryVars, ghostVars>>

DeleteTaskUnlist(h) ==
  /\ At(h, "unlist")
  /\ TaskList' = [TaskList EXCEPT ![req[h].task] = NoEntry]
  /\ Goto(h, "unlistAgain")
  /\ UNCHANGED <<phase, bootList, dbVars, cronVars, busy, run, ghostVars>>

DeleteTaskUnlistAgain(h) ==
  /\ At(h, "unlistAgain")
  /\ TaskList' = [TaskList EXCEPT ![req[h].task] = NoEntry]
  /\ AfterDelete(h)
  /\ UNCHANGED <<phase, bootList, dbVars, cronVars, busy, run, ghostVars>>

(***************************************************************************)
(* Job goroutines.                                                         *)
(***************************************************************************)
Once(r) == run[r].entry = NoEntry
Unchanged4Run == UNCHANGED <<phase, bootList, row, cron, nextEntry, req>>

Spawn(r, pc, e, t, c) ==
  run' = [run EXCEPT ![r] = [NoRun EXCEPT !.pc = pc, !.entry = e, !.task = t, !.cfg = c]]

(* Mutant: token or mutex are not waited for.                              *)
TakeAnyway(e) == busy' = busy \cup {e}

(* The Skip token or the Delay mutex of an entry is free and is taken.     *)
Take(e) == e \notin busy /\ busy' = busy \cup {e}

(* The cron library fires an entry in a goroutine of its own.  Skip takes  *)
(* the token or drops the firing, Delay queues on the mutex, and the       *)
(* parallel chain only adds a Recover.                                     *)
Tick(r, e) ==
  LET i == inst[e]
  IN /\ phase = "up"
     /\ e \in cron
     /\ run[r].pc = "free"
     /\ LogBudget
     /\ \/ /\ i.cfg.strategy = "parallel"
           /\ Spawn(r, "check", e, i.task, i.cfg)
           /\ UNCHANGED busy
        \/ /\ i.cfg.strategy = "skip"
           /\ Take(e)
           /\ Spawn(r, "check", e, i.task, i.cfg)
        \/ /\ i.cfg.strategy = "delay"
           /\ Spawn(r, "wait", e, i.task, i.cfg)
           /\ UNCHANGED busy
     /\ UNCHANGED <<taskLog, nextLog, inst, TaskList, ghostVars>>
     /\ Unchanged4Run

(* A delayed goroutine gets the mutex.                                     *)
Acquire(r) ==
  /\ run[r].pc = "wait"
  /\ Take(run[r].entry)
  /\ run' = [run EXCEPT ![r].pc = "check"]
  /\ UNCHANGED <<taskLog, nextLog, inst, TaskList, ghostVars>>
  /\ Unchanged4Run

(* StartOnceTask runs the row as it is, enabled or not, local or not.      *)
StartOnceTask(r, t) ==
  /\ phase = "up"
  /\ run[r].pc = "free"
  /\ Live(t)
  /\ LogBudget
  /\ Spawn(r, "check", NoEntry, t, row[t].cfg)
  /\ UNCHANGED <<taskLog, nextLog, inst, TaskList, busy, ghostVars>>
  /\ Unchanged4Run

(* beforeRun, first half: validateTaskDependency.                          *)
ValidateDependency(r) ==
  /\ run[r].pc = "check"
  /\ run' = [run EXCEPT ![r].pc = "create",
                        ![r].ok = DependencyMet(run[r].task, run[r].cfg)]
  /\ UNCHANGED <<taskLog, nextLog, inst, TaskList, busy, ghostVars>>
  /\ Unchanged4Run

(* Mutant: the goroutine ends without giving its token or mutex back.      *)
LeaveLocked(r) ==
  /\ run' = [run EXCEPT ![r] = NoRun]
  /\ UNCHANGED busy

(* The goroutine returns through its wrapper.                              *)
Leave(r) ==
  /\ run' = [run EXCEPT ![r] = NoRun]
  /\ busy' = busy \ {run[r].entry}

(* The loop of attempts goes round again, or ends.                         *)
Loop(r) ==
  IF Once(r) \/ run[r].tries < ExecTimes(run[r].cfg) THEN "start" ELSE "after"

(* beforeRun, second half: create the log row of the run, or (in           *)
(* recordSkippedRun) the row of a refusal, and return.                     *)
CreateLog(r) ==
  LET ok == run[r].ok
  IN /\ run[r].pc = "create"
     /\ nextLog <= MaxLogs
     /\ taskLog' = [taskLog EXCEPT ![nextLog] =
                      [status |-> IF ok THEN "running" ELSE "ended",
                       task |-> run[r].task, dep |-> run[r].cfg.dep, result |-> FALSE,
                       reported |-> FALSE]]
     /\ nextLog' = nextLog + 1
     /\ IF ok
        THEN /\ run' = [run EXCEPT ![r].pc = Loop(r), ![r].log = nextLog, ![r].ok = FALSE]
             /\ UNCHANGED busy
        ELSE Leave(r)
     /\ UNCHANGED <<inst, TaskList, ghostVars>>
     /\ Unchanged4Run

(* Mutant: a failed attempt returns past afterRun.                         *)
GiveUp(r) == IF Once(r) THEN "after" ELSE "cleanup"

(* An attempt failed: a cron run pauses, even after the last one; a run    *)
(* of StartOnceTask has a single attempt.                                  *)
AfterFailure(r) == IF Once(r) THEN "after" ELSE "sleep"

(* cmd.Start, which may fail.                                              *)
StartProcess(r) ==
  /\ run[r].pc = "start"
  /\ \E pc \in {"register", AfterFailure(r)} :
       run' = [run EXCEPT ![r].pc = pc, ![r].tries = @ + 1]
  /\ UNCHANGED <<taskLog, nextLog, inst, TaskList, busy, ghostVars>>
  /\ Unchanged4Run

(* Mutant: the run registers under the key of the next row.                *)
AddNextRunningIns(r) ==
  LET e == TaskList[run[r].task]
  IN /\ run[r].pc = "register"
     /\ run' = [run EXCEPT ![r].pc = "running"]
     /\ inst' = IF e = NoEntry THEN inst
                ELSE [inst EXCEPT ![e].running = @ \cup {nextLog}]
     /\ uncleaned' = IF Once(r) THEN uncleaned \cup {run[r].log} ELSE uncleaned
     /\ UNCHANGED <<taskLog, nextLog, TaskList, busy, lost>>
     /\ Unchanged4Run

(* addTaskRunningIns: into the instance listed now, if there is one, which *)
(* need not be the one that fired.                                         *)
AddTaskRunningIns(r) ==
  LET e == TaskList[run[r].task]
  IN /\ run[r].pc = "register"
     /\ run' = [run EXCEPT ![r].pc = "running"]
     /\ inst' = IF e = NoEntry THEN inst
                ELSE [inst EXCEPT ![e].running = @ \cup {run[r].log}]
     /\ uncleaned' = IF Once(r) THEN uncleaned \cup {run[r].log} ELSE uncleaned
     /\ UNCHANGED <<taskLog, nextLog, TaskList, busy, lost>>
     /\ Unchanged4Run

(* cmd.Wait, the exit status or time-out, and the assertion.               *)
Exit(r, ok) ==
  /\ run[r].pc = "running"
  /\ run[r].killed => ~ok
  /\ run' = [run EXCEPT ![r].pc = IF ok THEN "after" ELSE AfterFailure(r),
                        ![r].ok = ok, ![r].killed = FALSE]
  /\ UNCHANGED <<taskLog, nextLog, inst, TaskList, busy, ghostVars>>
  /\ Unchanged4Run

(* Mutant: nobody comes back after the pause behind the last attempt.      *)
WakeToRetry(r) ==
  /\ run[r].pc = "sleep"
  /\ run[r].tries < ExecTimes(run[r].cfg)
  /\ run' = [run EXCEPT ![r].pc = "start"]
  /\ UNCHANGED <<taskLog, nextLog, inst, TaskList, busy, ghostVars>>
  /\ Unchanged4Run

(* Mutant: the retries include the first attempt.                          *)
WakeUnlessLast(r) ==
  /\ run[r].pc = "sleep"
  /\ run' = [run EXCEPT ![r].pc = IF run[r].tries + 1 < ExecTimes(run[r].cfg)
                                  THEN "start" ELSE "after"]
  /\ UNCHANGED <<taskLog, nextLog, inst, TaskList, busy, ghostVars>>
  /\ Unchanged4Run

(* The pause is over: next attempt, or give up.                            *)
Wake(r) ==
  /\ run[r].pc = "sleep"
  /\ run' = [run EXCEPT ![r].pc = Loop(r)]
  /\ UNCHANGED <<taskLog, nextLog, inst, TaskList, busy, ghostVars>>
  /\ Unchanged4Run

(* afterRun saves the log row.  StartOnceTask has nothing left to do; a    *)
(* panic of its result handler is caught by the HTTP engine.               *)
AfterRun(r) ==
  /\ run[r].pc = "after"
  /\ taskLog' = [taskLog EXCEPT ![run[r].log].status = "ended",
                                ![run[r].log].result = run[r].ok]
  /\ run' = [run EXCEPT ![r] = IF Once(r) THEN NoRun ELSE [@ EXCEPT !.pc = "cleanup"]]
  /\ UNCHANGED <<nextLog, inst, TaskList, busy, ghostVars>>
  /\ Unchanged4Run

(* Mutant: a run takes itself off the instance that fired it.              *)
CleanupOwnInstance(r) ==
  /\ run[r].pc = "cleanup"
  /\ inst' = [inst EXCEPT ![run[r].entry].running = @ \ {run[r].log}]
  /\ Leave(r)
  /\ UNCHANGED <<taskLog, nextLog, TaskList, ghostVars>>
  /\ Unchanged4Run

(* The rest of the deferred function takes the run off the listed instance.*)
Cleanup(r) ==
  LET e == TaskList[run[r].task]
  IN /\ run[r].pc = "cleanup"
     /\ e # NoEntry
     /\ inst' = [inst EXCEPT ![e].running = @ \ {run[r].log}]
     /\ Leave(r)
     /\ UNCHANGED <<taskLog, nextLog, TaskList, ghostVars>>
     /\ Unchanged4Run

(* It panics when no instance is listed, and afterRun does when the result *)
(* handler of the task does.  Recover (the parallel chain) ends the        *)
(* goroutine; under Skip and Delay nothing recovers and the server dies.   *)
Panic(r) ==
  /\ run[r].pc = "cleanup"
  /\ TaskList[run[r].task] = NoEntry \/ run[r].cfg.handler
  /\ \/ /\ run[r].cfg.strategy = "parallel"
        /\ Leave(r)
        /\ uncleaned' = IF run[r].cfg.handler THEN uncleaned \cup {run[r].log}
                        ELSE uncleaned
        /\ UNCHANGED <<taskLog, nextLog, inst, TaskList, lost>>
        /\ Unchanged4Run
     \/ /\ run[r].cfg.strategy # "parallel"
        /\ ServerDies

(***************************************************************************)
(* The specification.                                                      *)
(***************************************************************************)
Request(h) ==
  \/ \E t \in Tasks : StopTask(h, t) \/ StartTask(h, t) \/ AgentReportTaskResult(h, t)
  \/ \E t \in Tasks, c \in Configs, d \in BOOLEAN : EditTask(h, t, c, d) \/ AddTask(h, t, c, d)

Serve(h) ==
  \/ Save(h) \/ SyncTaskToNode(h)
  \/ AddTaskCheck(h) \/ AddTaskLoad(h) \/ AddTaskJob(h) \/ AddTaskPublish(h)
  \/ DeleteTaskRemove(h) \/ DeleteTaskKill(h) \/ DeleteTaskUnlist(h)
  \/ DeleteTaskUnlistAgain(h)
  \/ PushTask(h) \/ CreateReport(h)

Go(r) ==
  \/ Acquire(r) \/ ValidateDependency(r) \/ CreateLog(r) \/ StartProcess(r)
  \/ AddTaskRunningIns(r) \/ \E ok \in BOOLEAN : Exit(r, ok)
  \/ Wake(r) \/ AfterRun(r) \/ Cleanup(r) \/ Panic(r)

Boot == BootLoad \/ BootDone \/ \E t \in Tasks : BootAddTask(t)

Next ==
  \/ Boot \/ Crash
  \/ \E h \in Handlers : Request(h) \/ Serve(h)
  \/ Transaction
  \/ \E r \in Runs, e \in EntryId : Tick(r, e)
  \/ \E r \in Runs, t \in Tasks : StartOnceTask(r, t)
  \/ \E r \in Runs : Go(r)

Spec == Init /\ [][Next]_vars

(* The Go runtime runs every goroutine that can proceed.  For Exit it is   *)
(* an assumption on the commands: they end by themselves, or by the        *)
(* time-out of their task.  Nothing forces a request, a firing, a crash or *)
(* a restart, and no run waits for a request.                              *)
FairSpec == Spec /\ \A r \in Runs : WF_vars(Go(r))

(***************************************************************************)
(* Safety.                                                                 *)
(***************************************************************************)

(* Under the skip and delay strategies two runs of one cron entry are      *)
(* never past the wrapper together, whatever requests, kills, retries and  *)
(* restarts happen meanwhile (taskIns.go getTaskChain).                    *)
StrategyExclusion ==
  \A r, s \in Runs :
    /\ r # s
    /\ run[r].entry = run[s].entry /\ ~Once(r)
    /\ run[r].pc \in Inside /\ run[s].pc \in Inside
    => run[r].cfg.strategy = "parallel"

(* A log row says "running" only while some run is at work on it, or when  *)
(* the server died under that run; no return, panic or kill in handler.go  *)
(* or taskRunning.go leaves a row behind.                                  *)
RunningRowHasRun ==
  \A l \in LogId :
    taskLog[l].status = "running" =>
      l \in lost \/ \E r \in Runs : run[r].log = l /\ run[r].pc \in Working

(* A Skip token or Delay mutex is never lost: who took it is still at      *)
(* work, so the entry fires again, whatever was killed, refused or         *)
(* panicked in between (taskIns.go getTaskChain, handler.go Run).          *)
NoTokenLost == \A e \in busy : \E r \in Runs : run[r].entry = e /\ run[r].pc \in Inside

(* A run fails only when it has made every attempt its task asks for, the  *)
(* first and RetryTimes more (model/task.go:14), and its row has the       *)
(* result of the last one: neither a kill, a failed start nor a stop of    *)
(* the task saves an attempt (handler.go Run, afterRun).                   *)
Asked(r) == IF Once(r) THEN 1 ELSE run[r].cfg.retry + 1
AttemptsRight ==
  \A r \in Runs :
    run[r].pc \in {"after", "cleanup"} =>
      /\ IF run[r].ok THEN run[r].tries \in 1..Asked(r) ELSE run[r].tries = Asked(r)
      /\ run[r].pc = "cleanup" => /\ taskLog[run[r].log].status = "ended"
                                  /\ taskLog[run[r].log].result = run[r].ok

(* Two goroutines never write the same log row.                            *)
LogRowOwnedOnce ==
  \A r, s \in Runs :
    r # s /\ run[r].pc \in HasLog /\ run[s].pc \in HasLog => run[r].log # run[s].log

(* RunningInstances of a listed instance, which the task page shows and    *)
(* stop() kills, holds only runs still under way, except for the two ways  *)
(* the code never takes one off: StartOnceTask and a panicking result      *)
(* handler.  In particular a run that outlives its instance leaves nothing *)
(* behind in the next instance of the task.                                *)
NoOtherLeak ==
  \A t \in Tasks :
    TaskList[t] # NoEntry =>
      \A l \in inst[TaskList[t]].running :
        l \in uncleaned \/ \E r \in Runs : run[r].log = l /\ run[r].pc \in HasLog

(* A log row of this server that is not a refusal belongs to a run that    *)
(* found a success of its dependency, its own or one reported by a node    *)
(* (validateTaskDependency runs before every run).  Of a row that a node   *)
(* reports nothing of the kind holds: nobody looks at the dependency.      *)
DependentAfterSuccess ==
  \A l \in LogId :
    /\ taskLog[l].dep # NoTask /\ ~taskLog[l].reported
    /\ taskLog[l].status = "running" \/ taskLog[l].result
    => \E m \in LogId : /\ m < l
                        /\ taskLog[m].task = taskLog[l].dep
                        /\ taskLog[m].status = "ended" /\ taskLog[m].result

(* An ended row is final: retries, restarts and late goroutines never      *)
(* reopen it or change its result (afterRun is its last writer).           *)
EndedRowsFrozen ==
  [][\A l \in LogId : taskLog[l].status = "ended" => taskLog'[l] = taskLog[l]]_taskLog

(* A task never depends on itself nor on a key no task ever had, which the *)
(* next task created would get: whatever file is imported, and whatever    *)
(* was deleted or saved between the check of a request and its Save        *)
(* (validateTaskMutationPayload, task_transfer.go:138-152).                *)
DependencyKnown ==
  \A t \in Tasks :
    row[t].state # "none" /\ row[t].cfg.dep \in Tasks =>
      row[t].cfg.dep # t /\ row[row[t].cfg.dep].state # "none"

(* An import keeps the graph of the file: a task depends on the copy of    *)
(* its dependency, whichever keys the copies got and the database has, if  *)
(* one item of the file claims the key, and on nothing if it did before.   *)
ImportKeepsGraph ==
  [][\A items \in ImportFiles : ImportTasks(items) =>
       \A t \in DOMAIN items :
         /\ row'[t].cfg.dep = NoTask <=> items[t].dep = NoTask
         /\ \A u \in DOMAIN items :
              items[t].dep \in Tasks /\ {v \in DOMAIN items : items[v].old = items[t].dep} = {u}
              => row'[t].cfg.dep = u]_vars

(***************************************************************************)
(* The inductive invariant behind the safety properties.                   *)
(***************************************************************************)

(* Every record in use names a task, and a run with a log row names it.    *)
WellFormed ==
  /\ \A r \in Runs : run[r].pc # "free" => run[r].task \in Tasks
  /\ \A r \in Runs : run[r].pc \in HasLog => run[r].log \in LogId
  /\ \A r \in Runs : run[r].pc \in {"wait", "cleanup"} => ~Once(r)
  /\ \A e \in cron : inst[e].task \in Tasks
  /\ \A h \in Handlers : req[h].pc \notin {"idle", "push"} => req[h].task \in Tasks

(* Rows are written in the order of their keys.                            *)
JournalOrder == \A l \in LogId : taskLog[l].status = "none" <=> l >= nextLog

(* A run owns its row, and the row says whose run it is.                   *)
RunsOwnRows ==
  \A r \in Runs :
    run[r].pc \in HasLog =>
      /\ run[r].log < nextLog
      /\ taskLog[run[r].log].task = run[r].task
      /\ run[r].pc \in Working => taskLog[run[r].log].status = "running"

(* What validateTaskDependency answered is still so when the row is made.  *)
VerdictHolds ==
  \A r \in Runs :
    run[r].pc = "create" =>
      IF run[r].ok
      THEN run[r].cfg.dep = NoTask \/
             \E m \in LogId : /\ m < nextLog /\ taskLog[m].task = run[r].cfg.dep
                              /\ taskLog[m].status = "ended" /\ taskLog[m].result
      ELSE run[r].cfg.dep # NoTask

(* A run keeps the settings of the instance that fired it.                 *)
InstanceFixed ==
  /\ \A e \in cron : e < nextEntry
  /\ \A r \in Runs :
       run[r].pc # "free" /\ ~Once(r) =>
         run[r].entry < nextEntry /\ run[r].cfg = inst[run[r].entry].cfg

(* A run past an exclusive wrapper holds its token or mutex.               *)
WrapperHeld ==
  \A r \in Runs :
    run[r].pc \in Inside /\ ~Once(r) /\ run[r].cfg.strategy # "parallel" =>
      run[r].entry \in busy

(* An instance is listed under its own task, and at most once: a request   *)
(* about to list one holds it alone, and nothing is registered in it yet.  *)
ListedOnce ==
  /\ \A t \in Tasks : TaskList[t] # NoEntry =>
                        TaskList[t] < nextEntry /\ inst[TaskList[t]].task = t
  /\ \A h \in Handlers :
       req[h].pc = "publish" =>
         /\ req[h].entry # NoEntry
         /\ req[h].entry < nextEntry
         /\ inst[req[h].entry].task = req[h].task
         /\ inst[req[h].entry].running = {}
         /\ \A t \in Tasks : TaskList[t] # req[h].entry
         /\ \A g \in Handlers :
              g # h /\ req[g].pc = "publish" => req[g].entry # req[h].entry

(* Runs register with an instance of their own task; one of StartOnceTask  *)
(* that did is counted as never taken off.                                 *)
RegisteredRight ==
  \A e \in EntryId : \A l \in inst[e].running :
    /\ l < nextLog
    /\ taskLog[l].task = inst[e].task
    /\ \A r \in Runs : run[r].pc \in HasLog /\ run[r].log = l /\ Once(r) => l \in uncleaned

IndInv ==
  /\ TypeOK /\ WellFormed
  /\ JournalOrder /\ RunsOwnRows /\ LogRowOwnedOnce /\ RunningRowHasRun
  /\ VerdictHolds /\ DependentAfterSuccess
  /\ InstanceFixed /\ WrapperHeld /\ StrategyExclusion
  /\ ListedOnce /\ RegisteredRight /\ NoOtherLeak

(***************************************************************************)
(* Liveness, under FairSpec.                                               *)
(***************************************************************************)

(* A row that says "running" is closed in the end, through kills, failed   *)
(* starts, retries and edits of its task, unless the server dies under it. *)
EveryRunEnds ==
  \A l \in LogId :
    taskLog[l].status = "running" ~> (taskLog[l].status = "ended" \/ l \in lost)

(* A goroutine queued by the delay strategy gets its turn, also when its   *)
(* task was stopped, edited or deleted after it was queued.                *)
DelayedRunProceeds == \A r \in Runs : run[r].pc = "wait" ~> run[r].pc # "wait"

(***************************************************************************)
(* What requests guarantee that do not meet about one task.                *)
(***************************************************************************)
Untouched(t) == \A h \in Handlers : AtWork(h) => req[h].task # t
RequestsApart ==
  \A g, h \in Handlers :
    g # h /\ AtWork(g) /\ AtWork(h) => req[g].task # req[h].task

(* The settings of a task change by an edit of that task and by nothing    *)
(* else: StopTask and StartTask write every column of the row they loaded  *)
(* earlier, and undo no edit that came between.                            *)
SettingsChangeByEdit ==
  [][\A t \in Tasks : Live(t) /\ row'[t].cfg # row[t].cfg =>
       \E h \in Handlers : At(h, "save") /\ req[h].op = "edit" /\ req[h].task = t]_row

(* No request, or none of these, about a task while a run of its schedule  *)
(* is under way.                                                           *)
RunsApartFrom(ops) ==
  \A h \in Handlers, r \in Runs :
    /\ AtWork(h) /\ req[h].op \in ops
    /\ run[r].pc # "free" /\ ~Once(r)
    => req[h].task # run[r].task

Quiet == phase = "up" /\ \A h \in Handlers : ~AtWork(h)

(* Between requests the cron library fires exactly the listed instances.   *)
EveryEntryListed ==
  Quiet => /\ cron = {TaskList[t] : t \in Tasks} \ {NoEntry}
           /\ \A t \in Tasks : TaskList[t] # NoEntry => inst[TaskList[t]].task = t

(* While no request is about a task, also after a crash in the middle of   *)
(* one, its place in the schedule is what the task table asks for: a task  *)
(* whose row is enabled and not deleted is listed with the settings of     *)
(* that row if it belongs to this node, and a disabled one is not listed.  *)
(* (AddTask leaves a task of an unknown node out until the next start,     *)
(* against IsLocalTask.)                                                   *)
ScheduleMatchesTable ==
  phase = "up" => \A t \in Tasks :
    Live(t) /\ Untouched(t) =>
      /\ TaskList[t] # NoEntry => /\ ~row[t].disabled
                                  /\ IsLocal(row[t].cfg)
                                  /\ inst[TaskList[t]].cfg = row[t].cfg
      /\ ~row[t].disabled /\ row[t].cfg.node = "master" => TaskList[t] # NoEntry

(***************************************************************************)
(* Statements of the documentation that the code does not keep.            *)
(***************************************************************************)

(* "if it is there already it need not be added": AddTask makes one        *)
(* instance per task, so that no cron entry is without its place in        *)
(* TaskList (task.go AddTask).                                             *)
NoSecondInstance ==
  Quiet => \A e \in cron : \E t \in Tasks : TaskList[t] = e

(* "Stop the task" stops that task, not the server: a run that ends later  *)
(* finds the instance it dereferences, or has a Recover around it.         *)
CleanupFindsInstance ==
  \A r \in Runs :
    run[r].pc = "cleanup" /\ run[r].cfg.strategy # "parallel" =>
      TaskList[run[r].task] # NoEntry

(* "The same task" is under its strategy: scheduled runs of a skip or      *)
(* delay task do not overlap, whichever instance they came from.           *)
TaskExclusion ==
  \A r, s \in Runs :
    /\ r # s /\ run[r].task = run[s].task /\ ~Once(r) /\ ~Once(s)
    /\ run[r].pc \in Inside /\ run[s].pc \in Inside
    => run[r].cfg.strategy = "parallel" \/ run[s].cfg.strategy = "parallel"

(***************************************************************************)
(* The entries of the cron library follow the task table: what is fired    *)
(* for a task, and what its row asks for.                                  *)
(***************************************************************************)
Fired(t) == {inst[e].cfg : e \in {e \in cron : inst[e].task = t}}
Wanted(t) == IF Live(t) /\ ~row[t].disabled /\ IsLocal(row[t].cfg) THEN {row[t].cfg} ELSE {}

Table == INSTANCE Timetable WITH
           Unsure <- {c \in Config : c.node = "unknown"},
           asked <- [t \in Tasks |-> Wanted(t)], fired <- [t \in Tasks |-> Fired(t)],
           gone <- {t \in Tasks : row[t].state = "deleted"},
           touched <- {t \in Tasks : ~Untouched(t)}

(* The schedule implements Timetable: the cron library fires a task with   *)
(* the settings of its row, and what it fires for a task changes only at a *)
(* start, at a death of the server or under a request about that task,     *)
(* which is not answered before the two agree (task.go AddTask,            *)
(* DeleteTask, Start; controller/task.go).                                 *)
FollowsTable == Table!Spec

(***************************************************************************)
(* The task_log table implements the abstract journal.                     *)
(***************************************************************************)
Journal == INSTANCE RunJournal WITH journal <- taskLog, next <- nextLog
ImplementsJournal == Journal!Spec

=============================================================================
