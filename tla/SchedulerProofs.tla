--------------------------- MODULE SchedulerProofs ---------------------------
(***************************************************************************)
(* Theorems about Scheduler, for every set of tasks, handlers, runs and    *)
(* settings and for every bound.                                           *)
(***************************************************************************)
EXTENDS Scheduler, TLAPS

LEMMA EmptyRecords ==
  /\ NoConfig \in Config
  /\ NoRow \in Row
  /\ NoLine \in Line
  /\ NoInst \in Inst
  /\ NoRun \in Run
  /\ NoReq \in Req
BY DEF NoConfig, NoRow, NoLine, NoInst, NoRun, NoReq, Config, Row, Line, Inst, Run,
       Req, Strategy, Node, Inside, Working, NoEntry, NoLog, MaxInt8

LEMMA InitType == Init => TypeOK
BY ConstantsAssumption, EmptyRecords DEF Init, TypeOK, EntryId, LogId, NoEntry

LEMMA DiesType ==
  ASSUME TypeOK, ServerDies
  PROVE  TypeOK'
<1>1. /\ phase' \in {"down", "booting", "up"}
      /\ bootList' \in SUBSET Tasks
      /\ cron' \in SUBSET EntryId
      /\ nextEntry' \in 1..(MaxEntries + 1)
      /\ busy' \in SUBSET EntryId
      /\ lost' \in SUBSET LogId
      /\ uncleaned' \in SUBSET LogId
  BY ConstantsAssumption DEF TypeOK, ServerDies
<1>2. /\ inst' \in [EntryId -> Inst]
      /\ TaskList' \in [Tasks -> EntryId \cup {NoEntry}]
      /\ run' \in [Runs -> Run]
      /\ req' \in [Handlers -> Req]
  BY EmptyRecords DEF ServerDies
<1>3. UNCHANGED <<row, taskLog, nextLog>>
  BY DEF ServerDies, dbVars
<1>4. QED
  BY <1>1, <1>2, <1>3 DEF TypeOK

(* What a request may put into its own record. *)
LEMMA RequestType ==
  ASSUME TypeOK, NEW h \in Handlers, Request(h)
  PROVE  TypeOK'
<1> USE EmptyRecords, ConstantsAssumption
<1> USE DEF TypeOK, dbVars, cronVars, memoryVars, ghostVars, Accept
<1>1. ASSUME NEW t \in Tasks, StopTask(h, t) PROVE TypeOK'
  BY <1>1 DEF StopTask, Row, Req, NoEntry
<1>2. ASSUME NEW t \in Tasks, StartTask(h, t) PROVE TypeOK'
  BY <1>2 DEF StartTask, Row, Req, NoEntry
<1>3. ASSUME NEW t \in Tasks, NEW c \in Configs, NEW d \in BOOLEAN, EditTask(h, t, c, d)
      PROVE  TypeOK'
  BY <1>3 DEF EditTask, Row, Req, NoEntry
<1>4. ASSUME NEW t \in Tasks, NEW c \in Configs, NEW d \in BOOLEAN, AddTask(h, t, c, d)
      PROVE  TypeOK'
  BY <1>4 DEF AddTask, Row, Req, NoEntry
<1>5. ASSUME NEW t \in Tasks, AgentReportTaskResult(h, t) PROVE TypeOK'
  BY <1>5 DEF AgentReportTaskResult, Row, Req, NoEntry
<1>6. QED
  BY <1>1, <1>2, <1>3, <1>4, <1>5 DEF Request

LEMMA BootType ==
  ASSUME TypeOK, Boot
  PROVE  TypeOK'
<1> USE ConstantsAssumption DEF TypeOK, dbVars, cronVars, memoryVars, ghostVars
<1>1. CASE BootLoad
  BY <1>1 DEF BootLoad
<1>2. CASE BootDone
  BY <1>2 DEF BootDone
<1>3. ASSUME NEW t \in Tasks, BootAddTask(t)
      PROVE  TypeOK'
  <2>1. nextEntry \in EntryId
    BY <1>3 DEF BootAddTask, EntryId
  <2>2. [task |-> t, cfg |-> row[t].cfg, running |-> {}] \in Inst
    BY DEF Row, Inst
  <2>3. CASE UNCHANGED <<cronVars, TaskList>>
    BY <1>3, <2>3 DEF BootAddTask
  <2>4. CASE ~UNCHANGED <<cronVars, TaskList>>
    <3>1. /\ cron' = cron \cup {nextEntry}
          /\ nextEntry' = nextEntry + 1
          /\ inst' = [inst EXCEPT ![nextEntry] =
                        [task |-> t, cfg |-> row[t].cfg, running |-> {}]]
          /\ TaskList' = [TaskList EXCEPT ![t] = nextEntry]
      BY <1>3, <2>4 DEF BootAddTask
    <3>2. inst' \in [EntryId -> Inst] /\ TaskList' \in [Tasks -> EntryId \cup {NoEntry}]
      BY <2>1, <2>2, <3>1
    <3>3. nextEntry' \in 1..(MaxEntries + 1) /\ cron' \in SUBSET EntryId
      BY <2>1, <3>1 DEF EntryId
    <3>4. QED
      BY <1>3, <3>2, <3>3 DEF BootAddTask
  <2>5. QED
    BY <2>3, <2>4
<1>4. QED
  BY <1>1, <1>2, <1>3 DEF Boot

(* A request's own record stays a record of its type. *)
LEMMA RequestRecordType ==
  ASSUME TypeOK, NEW h \in Handlers,
         \/ Respond(h) \/ PushFirst(h) \/ CallAddTask(h) \/ AfterDelete(h)
         \/ \E pc \in {"load", "remove", "unlist", "unlistAgain"} : Goto(h, pc)
  PROVE  req' \in [Handlers -> Req]
<1>1. req \in [Handlers -> Req] /\ NoReq \in Req
  BY EmptyRecords DEF TypeOK
<1>2. CASE Respond(h)
  BY <1>1, <1>2 DEF Respond
<1>3. CASE CallAddTask(h)
  <2>1. [NoReq EXCEPT !.pc = "check", !.op = req[h].op, !.task = req[h].task] \in Req
    BY <1>1 DEF Req
  <2>2. QED
    BY <1>1, <1>3, <2>1 DEF CallAddTask
<1>4. ASSUME NEW pc \in {"load", "remove", "unlist", "unlistAgain"}, Goto(h, pc)
      PROVE  req' \in [Handlers -> Req]
  BY <1>1, <1>4 DEF Goto, Req
<1>5. CASE req' = [req EXCEPT ![h].pc = "save", ![h].entry = NoEntry]
  <2>1. [req[h] EXCEPT !.pc = "save", !.entry = NoEntry] \in Req
    BY <1>1 DEF Req
  <2>2. QED
    BY <1>1, <1>5, <2>1
<1>6. CASE PushFirst(h)
  <2>1. Pushing \in Req
    BY <1>1 DEF Pushing, Req
  <2>2. QED
    BY <1>1, <1>6, <2>1 DEF PushFirst
<1>7. QED
  BY <1>2, <1>3, <1>4, <1>5, <1>6 DEF AfterDelete

(* A killed goroutine's record stays a record of its type.                 *)
LEMMA KillType ==
  ASSUME run \in [Runs -> Run], NEW h \in Handlers, DeleteTaskKill(h)
  PROVE  run' \in [Runs -> Run]
<1>1. ASSUME NEW r \in Runs PROVE [run[r] EXCEPT !.killed = TRUE] \in Run
  BY DEF Run
<1>2. ASSUME NEW r \in Runs PROVE run'[r] \in {run[r], [run[r] EXCEPT !.killed = TRUE]}
  BY DEF DeleteTaskKill
<1>3. run' = [r \in Runs |-> run'[r]]
  BY DEF DeleteTaskKill
<1>4. ASSUME NEW r \in Runs PROVE run'[r] \in Run
  BY <1>1, <1>2
<1>5. QED
  BY <1>3, <1>4

LEMMA ServeType ==
  ASSUME TypeOK, WellFormed, NEW h \in Handlers, Serve(h)
  PROVE  TypeOK'
<1> USE ConstantsAssumption, RequestRecordType
<1> USE DEF TypeOK, dbVars, cronVars, memoryVars, ghostVars
<1>1. CASE Save(h)
  BY <1>1 DEF Save, Req, At
<1>2. CASE SyncTaskToNode(h)
  BY <1>2 DEF SyncTaskToNode
<1>3. CASE AddTaskCheck(h)
  BY <1>3 DEF AddTaskCheck
<1>4. CASE AddTaskLoad(h)
  BY <1>4 DEF AddTaskLoad, AddTaskReturns, Req
<1>5. CASE AddTaskJob(h)
  <2>1. nextEntry \in EntryId
    BY <1>5 DEF AddTaskJob, EntryId
  <2>2. [task |-> req[h].task, cfg |-> req[h].snap.cfg, running |-> {}] \in Inst
    BY DEF Req, Row, Inst
  <2>3. req' \in [Handlers -> Req]
    <3>1. [req[h] EXCEPT !.pc = "publish", !.entry = nextEntry] \in Req
      BY <2>1 DEF Req
    <3>2. QED
      BY <1>5, <3>1 DEF AddTaskJob
  <2>4. QED
    BY <1>5, <2>1, <2>2, <2>3 DEF AddTaskJob, EntryId
<1>6. CASE AddTaskPublish(h)
  BY <1>6 DEF AddTaskPublish, AddTaskReturns, Req
<1>7. CASE DeleteTaskRemove(h)
  BY <1>7 DEF DeleteTaskRemove, Req, At
<1>8. CASE DeleteTaskKill(h)
  <2>1. run' \in [Runs -> Run]
    BY <1>8, KillType
  <2>2. QED
    BY <1>8, <2>1 DEF DeleteTaskKill
<1>9. CASE DeleteTaskUnlist(h)
  BY <1>9 DEF DeleteTaskUnlist, NoEntry
<1>10. CASE DeleteTaskUnlistAgain(h)
  BY <1>10 DEF DeleteTaskUnlistAgain, NoEntry
<1>11. CASE PushTask(h)
  BY <1>11 DEF PushTask
<1>12. CASE CreateReport(h)
  <2>1. PICK result \in BOOLEAN :
          taskLog' = [taskLog EXCEPT ![nextLog] =
                        [status |-> "ended", task |-> req[h].task,
                         dep |-> row[req[h].task].cfg.dep, result |-> result,
                         reported |-> TRUE]]
    BY <1>12 DEF CreateReport
  <2>2. nextLog \in LogId /\ nextLog' \in 1..(MaxLogs + 1)
    BY <1>12 DEF CreateReport, LogId
  <2>3. req[h].task \in Tasks
    BY <1>12 DEF CreateReport, At, WellFormed
  <2>4. taskLog'[nextLog] \in Line
    BY <2>1, <2>2, <2>3 DEF Line, Row, Config
  <2>5. taskLog' \in [LogId -> Line]
    BY <2>1, <2>2, <2>4
  <2>6. QED
    BY <1>12, <2>2, <2>5 DEF CreateReport
<1>13. QED
  BY <1>1, <1>2, <1>3, <1>4, <1>5, <1>6, <1>7, <1>8, <1>9, <1>10, <1>11, <1>12 DEF Serve

(* A goroutine's own record stays a record of its type. *)
LEMMA SpawnType ==
  ASSUME TypeOK, NEW r \in Runs, NEW pc \in {"check", "wait"},
         NEW e \in EntryId \cup {NoEntry}, NEW t \in Tasks \cup {NoTask}, NEW c \in Config,
         Spawn(r, pc, e, t, c)
  PROVE  run' \in [Runs -> Run]
<1>1. [NoRun EXCEPT !.pc = pc, !.entry = e, !.task = t, !.cfg = c] \in Run
  BY EmptyRecords DEF Run, Inside
<1>2. QED
  BY <1>1 DEF TypeOK, Spawn

LEMMA TickType ==
  ASSUME TypeOK, NEW r \in Runs, NEW e \in EntryId, Tick(r, e)
  PROVE  TypeOK'
<1>1. inst[e].task \in Tasks \cup {NoTask} /\ inst[e].cfg \in Config
  BY DEF TypeOK, Inst
<1>2. run' \in [Runs -> Run]
  BY <1>1, SpawnType DEF Tick
<1>3. busy' \in SUBSET EntryId
  BY DEF Tick, Take, TypeOK
<1>4. QED
  BY <1>2, <1>3 DEF Tick, TypeOK, Unchanged4Run, ghostVars

LEMMA StartOnceType ==
  ASSUME TypeOK, NEW r \in Runs, NEW t \in Tasks, StartOnceTask(r, t)
  PROVE  TypeOK'
<1>1. row[t].cfg \in Config
  BY DEF TypeOK, Row
<1>2. run' \in [Runs -> Run]
  BY <1>1, SpawnType DEF StartOnceTask
<1>3. QED
  BY <1>2 DEF StartOnceTask, TypeOK, Unchanged4Run, ghostVars

(* The loop of attempts goes round again, or ends.                         *)
LEMMA LoopType == \A r \in Runs : Loop(r) \in {"start", "after"}
BY DEF Loop

LEMMA LeaveType ==
  ASSUME TypeOK, NEW r \in Runs, Leave(r)
  PROVE  run' \in [Runs -> Run] /\ busy' \in SUBSET EntryId
BY EmptyRecords DEF TypeOK, Leave

LEMMA GoType ==
  ASSUME TypeOK, WellFormed, NEW r \in Runs, Go(r)
  PROVE  TypeOK'
<1> USE DEF ghostVars, Unchanged4Run
<1>0. run[r] \in Run /\ (run[r].pc \in HasLog => run[r].pc \in Inside)
  BY DEF TypeOK, HasLog, Inside
<1>1. CASE Acquire(r)
  <2>1. run[r].entry \in EntryId
    BY <1>0, <1>1 DEF Acquire, Run, WellFormed, Once
  <2>2. [run[r] EXCEPT !.pc = "check"] \in Run
    BY <1>0 DEF Run, Inside
  <2>3. QED
    BY <1>1, <2>1, <2>2 DEF Acquire, Take, TypeOK
<1>2. CASE ValidateDependency(r)
  <2>1. DependencyMet(run[r].task, run[r].cfg) \in BOOLEAN
    BY DEF DependencyMet
  <2>2. [run[r] EXCEPT !.pc = "create", !.ok = DependencyMet(run[r].task, run[r].cfg)] \in Run
    BY <1>0, <2>1 DEF Run, Inside
  <2>3. QED
    BY <1>2, <2>2 DEF ValidateDependency, TypeOK
<1>3. CASE CreateLog(r)
  <2>1. nextLog \in LogId /\ nextLog + 1 \in 1..(MaxLogs + 1)
    BY <1>3, ConstantsAssumption DEF CreateLog, TypeOK, LogId
  <2>2. [status |-> IF run[r].ok THEN "running" ELSE "ended", task |-> run[r].task,
         dep |-> run[r].cfg.dep, result |-> FALSE, reported |-> FALSE] \in Line
    BY <1>0 DEF Run, Line, Config
  <2>3. taskLog' \in [LogId -> Line]
    BY <1>3, <2>2 DEF CreateLog, TypeOK
  <2>4. [run[r] EXCEPT !.pc = Loop(r), !.log = nextLog, !.ok = FALSE] \in Run
    BY <1>0, <2>1, LoopType DEF Run, Inside, Working
  <2>5. run' \in [Runs -> Run] /\ busy' \in SUBSET EntryId
    BY <1>3, <2>4, LeaveType DEF CreateLog, TypeOK
  <2>6. QED
    BY <1>3, <2>1, <2>3, <2>5 DEF CreateLog, TypeOK
<1>4. CASE StartProcess(r)
  <2>1. ASSUME NEW pc \in {"register", AfterFailure(r)}
        PROVE  [run[r] EXCEPT !.pc = pc, !.tries = run[r].tries + 1] \in Run
    <3>1. pc \in {"register", "after", "sleep"}
      BY DEF AfterFailure
    <3>2. run[r].tries + 1 \in Nat
      BY <1>0 DEF Run
    <3>3. QED
      BY <1>0, <3>1, <3>2 DEF Run, Inside, Working
  <2>2. QED
    BY <1>4, <2>1 DEF StartProcess, TypeOK
<1>5. CASE AddTaskRunningIns(r)
  <2>1. run[r].pc = "register" /\ run[r].task \in Tasks /\ run[r].log \in LogId
    BY <1>5 DEF AddTaskRunningIns, WellFormed, HasLog, Working
  <2>2. [run[r] EXCEPT !.pc = "running"] \in Run
    BY <1>0 DEF Run, Inside, Working
  <2>3. ASSUME NEW e \in EntryId
        PROVE  [inst[e] EXCEPT !.running = inst[e].running \cup {run[r].log}] \in Inst
    BY <2>1 DEF TypeOK, Inst
  <2>4. inst' \in [EntryId -> Inst]
    BY <1>5, <2>1, <2>3 DEF AddTaskRunningIns, TypeOK
  <2>5. uncleaned' \in SUBSET LogId
    BY <1>5, <2>1 DEF AddTaskRunningIns, TypeOK
  <2>6. QED
    BY <1>5, <2>2, <2>4, <2>5 DEF AddTaskRunningIns, TypeOK
<1>6. ASSUME NEW ok \in BOOLEAN, Exit(r, ok)
      PROVE  TypeOK'
  <2>1. [run[r] EXCEPT !.pc = IF ok THEN "after" ELSE AfterFailure(r),
                       !.ok = ok, !.killed = FALSE] \in Run
    BY <1>0 DEF Run, Inside, Working, AfterFailure
  <2>2. QED
    BY <1>6, <2>1 DEF Exit, TypeOK
<1>7. CASE Wake(r)
  <2>1. [run[r] EXCEPT !.pc = Loop(r)] \in Run
    BY <1>0, LoopType DEF Run, Inside, Working
  <2>2. QED
    BY <1>7, <2>1 DEF Wake, TypeOK
<1>8. CASE AfterRun(r)
  <2>1. [run[r] EXCEPT !.pc = "cleanup"] \in Run
    BY <1>0 DEF Run, Inside
  <2>2. run' \in [Runs -> Run]
    BY <1>8, <2>1, EmptyRecords DEF AfterRun, TypeOK
  <2>3. run[r].log \in LogId /\ run[r].ok \in BOOLEAN
    BY <1>0, <1>8 DEF AfterRun, WellFormed, HasLog, Working, Run
  <2>4. [taskLog[run[r].log] EXCEPT !.status = "ended", !.result = run[r].ok] \in Line
    <3>1. taskLog[run[r].log] \in Line
      BY <2>3 DEF TypeOK
    <3>2. QED
      BY <2>3, <3>1 DEF Line
  <2>5. taskLog' \in [LogId -> Line]
    BY <1>8, <2>4 DEF AfterRun, TypeOK
  <2>6. QED
    BY <1>8, <2>2, <2>5 DEF AfterRun, TypeOK
<1>9. CASE Cleanup(r)
  <2>1. run[r].task \in Tasks
    BY <1>9 DEF Cleanup, WellFormed
  <2>2. ASSUME NEW e \in EntryId
        PROVE  [inst[e] EXCEPT !.running = inst[e].running \ {run[r].log}] \in Inst
    BY DEF TypeOK, Inst
  <2>3. inst' \in [EntryId -> Inst]
    BY <1>9, <2>1, <2>2 DEF Cleanup, TypeOK
  <2>4. QED
    BY <1>9, <2>3, LeaveType DEF Cleanup, TypeOK
<1>10. CASE Panic(r)
  <2>1. CASE ServerDies
    BY <2>1, DiesType
  <2>2. CASE ~ServerDies
    <3>1. run[r].log \in LogId
      BY <1>10 DEF Panic, WellFormed, HasLog
    <3>2. uncleaned' \in SUBSET LogId
      BY <1>10, <2>2, <3>1 DEF Panic, TypeOK
    <3>3. QED
      BY <1>10, <2>2, <3>2, LeaveType DEF Panic, TypeOK
  <2>3. QED
    BY <2>1, <2>2
<1>11. QED
  BY <1>1, <1>2, <1>3, <1>4, <1>5, <1>6, <1>7, <1>8, <1>9, <1>10 DEF Go

(* Allocating an entry for a task keeps every entry on cron well formed. *)
LEMMA NewEntryTask ==
  ASSUME TypeOK, WellFormed, nextEntry \in EntryId, NEW t \in Tasks, NEW c,
         cron' = cron \cup {nextEntry},
         inst' = [inst EXCEPT ![nextEntry] = [task |-> t, cfg |-> c, running |-> {}]]
  PROVE  \A e \in cron' : inst'[e].task \in Tasks
BY DEF TypeOK, WellFormed

LEMMA WellFormedBoot ==
  ASSUME TypeOK, WellFormed, Boot
  PROVE  WellFormed'
<1>1. CASE BootLoad
  BY <1>1 DEF BootLoad, WellFormed, cronVars, Once
<1>2. CASE BootDone
  BY <1>2 DEF BootDone, WellFormed, cronVars, Once
<1>3. ASSUME NEW t \in Tasks, BootAddTask(t)
      PROVE  WellFormed'
  <2>1. nextEntry \in EntryId
    BY <1>3 DEF BootAddTask, EntryId, TypeOK
  <2>2. \A e \in cron' : inst'[e].task \in Tasks
    <3>1. CASE UNCHANGED cronVars
      BY <3>1 DEF WellFormed, cronVars
    <3>2. CASE ~UNCHANGED cronVars
      BY <1>3, <2>1, <3>2, NewEntryTask DEF BootAddTask
    <3>3. QED
      BY <3>1, <3>2
  <2>3. QED
    BY <1>3, <2>2 DEF BootAddTask, WellFormed, Once
<1>4. QED
  BY <1>1, <1>2, <1>3 DEF Boot

LEMMA WellFormedDies ==
  ASSUME ServerDies
  PROVE  WellFormed'
BY DEF ServerDies, WellFormed, NoRun, NoReq, HasLog, Working

(* A step of request h changes no other request, stays on its task, and    *)
(* gets ready to list an instance only by allocating it.                   *)
RequestShape(h) ==
  /\ \A g \in Handlers : g # h => req'[g] = req[g]
  /\ req'[h].pc \notin {"idle", "push"} => req'[h].task \in Tasks
  /\ req'[h].pc = "publish" => req[h].pc = "job"

LEMMA RequestSteps ==
  ASSUME TypeOK, WellFormed, NEW h \in Handlers, Request(h) \/ Serve(h)
  PROVE  RequestShape(h)
<1>0. req \in [Handlers -> Req]
  BY DEF TypeOK
<1>1. CASE Request(h)
  <2>1. PICK t \in Tasks, op \in {"stop", "start", "edit", "add", "report"},
             pc \in {"remove", "save", "sync", "report"} :
          \E snap : Accept(h, op, pc, t, snap)
    BY <1>1 DEF Request, StopTask, StartTask, EditTask, AddTask, AgentReportTaskResult
  <2>2. QED
    BY <1>0, <2>1 DEF Accept, RequestShape
<1>2. ASSUME Serve(h), req[h].task \in Tasks,
             Respond(h) \/ PushFirst(h) \/ CallAddTask(h)
      PROVE  RequestShape(h)
  <2>1. CASE Respond(h) \/ PushFirst(h)
    BY <1>0, <2>1 DEF Respond, PushFirst, Pushing, NoReq, RequestShape
  <2>2. CASE CallAddTask(h)
    <3>1. LET q == [NoReq EXCEPT !.pc = "check", !.op = req[h].op, !.task = req[h].task]
          IN q.pc = "check" /\ q.task = req[h].task
      BY EmptyRecords DEF Req
    <3>2. QED
      BY <1>0, <1>2, <2>2, <3>1 DEF CallAddTask, RequestShape
  <2>3. QED
    BY <1>2, <2>1, <2>2
<1>3. ASSUME req[h].task \in Tasks, 
             NEW pc \in {"remove", "load", "unlist", "unlistAgain"}, Goto(h, pc)
      PROVE  RequestShape(h)
  BY <1>0, <1>3 DEF Goto, Req, RequestShape
<1>4. ASSUME Serve(h), req[h].task \in Tasks, AfterDelete(h)
      PROVE  RequestShape(h)
  <2>1. CASE Respond(h) \/ CallAddTask(h)
    BY <1>2, <1>4, <2>1
  <2>2. CASE req' = [req EXCEPT ![h].pc = "save", ![h].entry = NoEntry]
    BY <1>0, <1>4, <2>2 DEF Req, RequestShape
  <2>3. QED
    BY <1>4, <2>1, <2>2 DEF AfterDelete
<1>5. CASE Serve(h)
  <2>0. req[h].pc \notin {"idle", "push"} => req[h].task \in Tasks
    BY DEF WellFormed
  <2>1. CASE Save(h)
    BY <1>2, <1>3, <1>5, <2>0, <2>1 DEF Save, At
  <2>2. CASE SyncTaskToNode(h)
    BY <1>2, <1>5, <2>0, <2>2 DEF SyncTaskToNode, At
  <2>3. CASE AddTaskCheck(h)
    BY <1>2, <1>3, <1>5, <2>0, <2>3 DEF AddTaskCheck, At
  <2>4. CASE AddTaskLoad(h)
    <3>1. CASE Respond(h) \/ PushFirst(h)
      BY <1>2, <1>5, <2>0, <2>4, <3>1 DEF AddTaskLoad, At
    <3>2. CASE req' = [req EXCEPT ![h].pc = "job", ![h].snap = row[req[h].task]]
      BY <1>0, <2>0, <2>4, <3>2 DEF AddTaskLoad, At, Req, RequestShape
    <3>3. QED
      BY <2>4, <3>1, <3>2 DEF AddTaskLoad, AddTaskReturns
  <2>5. CASE AddTaskJob(h)
    <3>1. req' = [req EXCEPT ![h].pc = "publish", ![h].entry = nextEntry]
          /\ req[h].task \in Tasks /\ req[h].pc = "job"
      BY <2>0, <2>5 DEF AddTaskJob, At
    <3>2. QED
      BY <1>0, <2>5, <3>1 DEF Req, RequestShape
  <2>6. CASE AddTaskPublish(h)
    BY <1>2, <1>5, <2>0, <2>6 DEF AddTaskPublish, AddTaskReturns, At
  <2>7. CASE DeleteTaskRemove(h)
    <3>1. CASE AfterDelete(h)
      BY <1>4, <1>5, <2>0, <2>7, <3>1 DEF DeleteTaskRemove, At
    <3>2. CASE req' = [req EXCEPT ![h].pc = "kill", ![h].entry = TaskList[req[h].task]]
      BY <1>0, <2>0, <2>7, <3>2 DEF DeleteTaskRemove, At, Req, RequestShape
    <3>3. QED
      BY <2>7, <3>1, <3>2 DEF DeleteTaskRemove
  <2>8. CASE DeleteTaskKill(h)
    BY <1>3, <2>0, <2>8 DEF DeleteTaskKill, At
  <2>9. CASE DeleteTaskUnlist(h)
    BY <1>3, <2>0, <2>9 DEF DeleteTaskUnlist, At
  <2>10. CASE DeleteTaskUnlistAgain(h)
    BY <1>4, <1>5, <2>0, <2>10 DEF DeleteTaskUnlistAgain, At
  <2>11. CASE PushTask(h) \/ CreateReport(h)
    BY <1>0, <2>11 DEF PushTask, CreateReport, Respond, NoReq, RequestShape
  <2>12. QED
    BY <1>5, <2>1, <2>2, <2>3, <2>4, <2>5, <2>6, <2>7, <2>8, <2>9, <2>10, <2>11 DEF Serve
<1>6. QED
  BY <1>1, <1>5

(* A step of a request changes of the runs only whether they were killed.  *)
LEMMA RequestSparesRuns ==
  ASSUME TypeOK, NEW h \in Handlers, Request(h) \/ Serve(h), NEW r \in Runs
  PROVE  /\ run'[r].pc = run[r].pc /\ run'[r].entry = run[r].entry
         /\ run'[r].task = run[r].task /\ run'[r].cfg = run[r].cfg
         /\ run'[r].log = run[r].log /\ run'[r].ok = run[r].ok
         /\ run'[r].tries = run[r].tries
<1>1. CASE DeleteTaskKill(h)
  BY <1>1 DEF DeleteTaskKill, TypeOK, Run
<1>2. CASE ~DeleteTaskKill(h)
  BY <1>2 DEF Request, Serve, StopTask, StartTask, EditTask, AddTask, Save,
    SyncTaskToNode, AddTaskCheck, AddTaskLoad, AddTaskJob, AddTaskPublish,
    DeleteTaskRemove, DeleteTaskUnlist, DeleteTaskUnlistAgain,
    PushTask, CreateReport, AgentReportTaskResult
<1>3. QED
  BY <1>1, <1>2

LEMMA WellFormedRequest ==
  ASSUME TypeOK, WellFormed, NEW h \in Handlers, Request(h) \/ Serve(h)
  PROVE  WellFormed'
<1>1. \A g \in Handlers : req'[g].pc \notin {"idle", "push"} => req'[g].task \in Tasks
  BY RequestSteps DEF RequestShape, WellFormed
<1>2. \A e \in cron' : inst'[e].task \in Tasks
  <2>1. CASE AddTaskJob(h)
    <3>1. nextEntry \in EntryId
      BY <2>1 DEF AddTaskJob, EntryId, TypeOK
    <3>2. req[h].task \in Tasks
      BY <2>1 DEF AddTaskJob, At, WellFormed
    <3>3. QED
      BY <2>1, <3>1, <3>2, NewEntryTask DEF AddTaskJob
  <2>2. CASE ~AddTaskJob(h)
    <3>1. inst' = inst /\ cron' \subseteq cron
      BY <2>2 DEF Request, Serve, StopTask, StartTask, EditTask, AddTask, Save,
        SyncTaskToNode, AddTaskCheck, AddTaskLoad, AddTaskPublish, DeleteTaskRemove,
        DeleteTaskKill, DeleteTaskUnlist, DeleteTaskUnlistAgain, cronVars,
        PushTask, CreateReport, AgentReportTaskResult
    <3>2. QED
      BY <3>1 DEF WellFormed
  <2>3. QED
    BY <2>1, <2>2
<1>3. QED
  BY <1>1, <1>2, RequestSparesRuns DEF WellFormed, Once

(* A step of goroutine r changes no other, keeps what r was started with,  *)
(* and gives r a log row only where the code creates one.                  *)
RunShape(r) ==
  /\ \A s \in Runs : s # r => run'[s] = run[s]
  /\ run'[r].pc # "free" =>
       /\ run[r].pc # "free"
       /\ run'[r].task = run[r].task
       /\ run'[r].entry = run[r].entry
       /\ run'[r].cfg = run[r].cfg
  /\ run'[r].pc # "wait"
  /\ run'[r].pc = "create" => run[r].pc = "check"
  /\ run'[r].pc \in HasLog =>
       \/ run[r].pc = "create"
       \/ run[r].pc \in HasLog /\ run'[r].log = run[r].log
  /\ run'[r].pc = "cleanup" => run[r].pc = "after" /\ ~Once(r)
  /\ run'[r].pc \in Inside => run[r].pc \in Inside \/ Acquire(r)

LEMMA GoSteps ==
  ASSUME TypeOK, WellFormed, NEW r \in Runs, Go(r), ~ServerDies
  PROVE  RunShape(r)
<1>0. run \in [Runs -> Run]
  BY DEF TypeOK
<1> USE DEF HasLog, Inside, Working, RunShape
<1>1. CASE Acquire(r)
  BY <1>0, <1>1 DEF Acquire, Run
<1>2. CASE ValidateDependency(r)
  BY <1>0, <1>2 DEF ValidateDependency, Run
<1>3. CASE Leave(r)
  BY <1>0, <1>3 DEF Leave, NoRun
<1>4. CASE CreateLog(r)
  <2>1. CASE Leave(r)
    BY <1>3, <2>1
  <2>2. CASE run' = [run EXCEPT ![r].pc = Loop(r), ![r].log = nextLog, ![r].ok = FALSE]
    BY <1>0, <1>4, <2>2, LoopType DEF CreateLog, Run
  <2>3. QED
    BY <1>4, <2>1, <2>2 DEF CreateLog
<1>5. CASE StartProcess(r)
  <2>1. PICK pc \in {"register", "after", "sleep"} :
          run' = [run EXCEPT ![r].pc = pc, ![r].tries = @ + 1]
    BY <1>5 DEF StartProcess, AfterFailure
  <2>2. QED
    BY <1>0, <1>5, <2>1 DEF StartProcess, Run
<1>6. CASE AddTaskRunningIns(r)
  BY <1>0, <1>6 DEF AddTaskRunningIns, Run
<1>7. ASSUME NEW ok \in BOOLEAN, Exit(r, ok)
      PROVE  RunShape(r)
  <2>1. PICK pc \in {"after", "sleep"} :
          run' = [run EXCEPT ![r].pc = pc, ![r].ok = ok, ![r].killed = FALSE]
    BY <1>7 DEF Exit, AfterFailure
  <2>2. QED
    BY <1>0, <1>7, <2>1 DEF Exit, Run
<1>8. CASE Wake(r)
  <2>1. PICK pc \in {"start", "after"} : run' = [run EXCEPT ![r].pc = pc]
    BY <1>8, LoopType DEF Wake
  <2>2. QED
    BY <1>0, <1>8, <2>1 DEF Wake, Run
<1>9. CASE AfterRun(r)
  <2>1. CASE Once(r)
    BY <1>0, <1>9, <2>1 DEF AfterRun, NoRun
  <2>2. CASE ~Once(r)
    <3>1. run' = [run EXCEPT ![r] = [run[r] EXCEPT !.pc = "cleanup"]]
      BY <1>9, <2>2 DEF AfterRun
    <3>2. QED
      BY <1>0, <1>9, <2>2, <3>1 DEF AfterRun, Run
  <2>3. QED
    BY <2>1, <2>2
<1>10. CASE Cleanup(r)
  BY <1>3, <1>10 DEF Cleanup
<1>11. CASE Panic(r)
  BY <1>3, <1>11 DEF Panic
<1>12. QED
  BY <1>1, <1>2, <1>4, <1>5, <1>6, <1>7, <1>8, <1>9, <1>10, <1>11 DEF Go

LEMMA SpawnSteps ==
  ASSUME TypeOK, NEW r \in Runs, NEW pc \in {"check", "wait"}, NEW e, NEW t, NEW c,
         Spawn(r, pc, e, t, c)
  PROVE  /\ \A s \in Runs : s # r => run'[s] = run[s]
         /\ run'[r].pc = pc /\ run'[r].entry = e /\ run'[r].task = t /\ run'[r].cfg = c
BY DEF TypeOK, Spawn, NoRun

LEMMA WellFormedSpawn ==
  ASSUME TypeOK, WellFormed, NEW r \in Runs,
         \/ \E e \in EntryId : Tick(r, e)
         \/ \E t \in Tasks : StartOnceTask(r, t)
  PROVE  WellFormed'
<1>1. PICK pc \in {"check", "wait"}, e \in EntryId \cup {NoEntry}, t \in Tasks :
        (\E c : Spawn(r, pc, e, t, c)) /\ (pc = "wait" => e # NoEntry)
  BY DEF Tick, StartOnceTask, WellFormed, EntryId, NoEntry
<1>2. UNCHANGED <<cron, inst, req>>
  BY DEF Tick, StartOnceTask, Unchanged4Run
<1>3. QED
  BY <1>1, <1>2, SpawnSteps DEF WellFormed, HasLog, Working, Once

LEMMA WellFormedGo ==
  ASSUME TypeOK, WellFormed, NEW r \in Runs, Go(r)
  PROVE  WellFormed'
<1>1. CASE ServerDies
  BY <1>1, WellFormedDies
<1>2. CASE ~ServerDies
  <2>1. RunShape(r)
    BY <1>2, GoSteps
  <2>2. UNCHANGED <<cron, req>>
    BY <1>2 DEF Go, Acquire, ValidateDependency, CreateLog, StartProcess, AddTaskRunningIns,
      Exit, Wake, AfterRun, Cleanup, Panic, Unchanged4Run
  <2>3. \A e \in EntryId : inst'[e].task = inst[e].task
    <3>1. CASE inst' = inst
      BY <3>1
    <3>2. CASE inst' # inst
      <4>1. PICK e \in EntryId, S \in SUBSET LogId : inst' = [inst EXCEPT ![e].running = S]
        <5>1. CASE AddTaskRunningIns(r)
          <6>1. PICK e \in EntryId : inst' = [inst EXCEPT ![e].running = @ \cup {run[r].log}]
            BY <3>2, <5>1 DEF AddTaskRunningIns, TypeOK, WellFormed
          <6>2. inst[e].running \cup {run[r].log} \in SUBSET LogId
            BY <5>1 DEF AddTaskRunningIns, TypeOK, Inst, WellFormed, HasLog, Working
          <6>3. QED
            BY <6>1, <6>2
        <5>2. CASE Cleanup(r)
          <6>1. PICK e \in EntryId : inst' = [inst EXCEPT ![e].running = @ \ {run[r].log}]
            BY <3>2, <5>2 DEF Cleanup, TypeOK, WellFormed
          <6>2. inst[e].running \ {run[r].log} \in SUBSET LogId
            BY DEF TypeOK, Inst
          <6>3. QED
            BY <6>1, <6>2
        <5>3. QED
          BY <1>2, <3>2, <5>1, <5>2 DEF Go, Acquire, ValidateDependency, CreateLog,
            StartProcess, Exit, Wake, AfterRun, Panic
      <4>2. QED
        BY <4>1 DEF TypeOK, Inst
    <3>3. QED
      BY <3>1, <3>2
  <2>4. \A s \in Runs : run'[s].pc \in HasLog => run'[s].log \in LogId
    <3>1. CASE CreateLog(r)
      <4>1. nextLog \in LogId
        BY <3>1, ConstantsAssumption DEF CreateLog, TypeOK, LogId
      <4>2. run'[r].pc \in HasLog => run'[r].log \in LogId
        BY <3>1, <4>1 DEF CreateLog, TypeOK, Run, Leave, NoRun, HasLog, Working
      <4>3. QED
        BY <2>1, <4>2 DEF RunShape, WellFormed
    <3>2. CASE ~CreateLog(r)
      <4>1. run'[r].pc \in HasLog => run[r].pc \in HasLog /\ run'[r].log = run[r].log
        <5>1. CASE run[r].pc = "create"
          BY <3>2, <5>1 DEF Go, Acquire, ValidateDependency, StartProcess,
            AddTaskRunningIns, Exit, Wake, AfterRun, Cleanup, Panic
        <5>2. CASE run[r].pc # "create"
          BY <2>1, <5>2 DEF RunShape
        <5>3. QED
          BY <5>1, <5>2
      <4>2. QED
        BY <2>1, <4>1 DEF RunShape, WellFormed
    <3>3. QED
      BY <3>1, <3>2
  <2>5. QED
    BY <2>1, <2>2, <2>3, <2>4 DEF RunShape, WellFormed, Once, TypeOK
<1>3. QED
  BY <1>1, <1>2

(* A deletion and an import change the task table and nothing else.        *)
LEMMA TransactionSteps ==
  ASSUME Transaction
  PROVE  UNCHANGED <<phase, bootList, taskLog, nextLog, cron, nextEntry, inst, TaskList,
                     busy, run, req, lost, uncleaned>>
BY DEF Transaction, DeleteTask, ImportTasks, cronVars, memoryVars, ghostVars

LEMMA ImportedRow ==
  ASSUME NEW items \in ImportFiles, NEW m \in OldToNew(items), NEW t \in DOMAIN items
  PROVE  /\ t \in Tasks /\ row[t].state = "none"
         /\ items[t] \in ImportItem /\ items[t].cfg \in Config
         /\ ImportedDep(items, m, t) \in Tasks \cup {NoTask}
         /\ [items[t].cfg EXCEPT !.dep = ImportedDep(items, m, t)] \in Config
         /\ [items[t].cfg EXCEPT !.dep = ImportedDep(items, m, t)].dep = ImportedDep(items, m, t)
<1>1. PICK new \in SUBSET {u \in Tasks : row[u].state = "none"} \ {{}} :
        items \in [new -> ImportItem]
  BY DEF ImportFiles
<1>2. t \in Tasks /\ row[t].state = "none" /\ items[t] \in ImportItem /\ DOMAIN items = new
  BY <1>1
<1>3. items[t].cfg \in Config /\ items[t].dep \in Tasks \cup {NoTask}
  BY <1>2, ConstantsAssumption DEF ImportItem, Config
<1>4. m \in [Tasks -> new \cup {NoTask}] /\ new \subseteq Tasks
  BY <1>1, <1>2 DEF OldToNew
<1>5. ImportedDep(items, m, t) \in Tasks \cup {NoTask}
  BY <1>3, <1>4 DEF ImportedDep
<1>6. /\ [items[t].cfg EXCEPT !.dep = ImportedDep(items, m, t)] \in Config
      /\ [items[t].cfg EXCEPT !.dep = ImportedDep(items, m, t)].dep = ImportedDep(items, m, t)
  BY <1>3, <1>5 DEF Config
<1>7. QED
  BY <1>2, <1>3, <1>5, <1>6

LEMMA TransactionType ==
  ASSUME TypeOK, Transaction
  PROVE  TypeOK'
<1>1. ASSUME NEW t \in Tasks, DeleteTask(t)
      PROVE  row' \in [Tasks -> Row]
  <2>1. [row[t] EXCEPT !.state = "deleted"] \in Row
    BY DEF TypeOK, Row
  <2>2. QED
    BY <1>1, <2>1 DEF DeleteTask, TypeOK
<1>2. ASSUME NEW items \in ImportFiles, ImportTasks(items)
      PROVE  row' \in [Tasks -> Row]
  <2>1. PICK m \in OldToNew(items) :
          row' = [t \in Tasks |->
                    IF t \in DOMAIN items
                    THEN [state |-> "live", disabled |-> TRUE,
                          cfg |-> [items[t].cfg EXCEPT !.dep = ImportedDep(items, m, t)]]
                    ELSE row[t]]
    BY <1>2 DEF ImportTasks
  <2>2. \A t \in DOMAIN items :
          [items[t].cfg EXCEPT !.dep = ImportedDep(items, m, t)] \in Config
    BY ImportedRow
  <2>3. QED
    BY <2>1, <2>2 DEF TypeOK, Row
<1>3. row' \in [Tasks -> Row]
  BY <1>1, <1>2 DEF Transaction
<1>4. QED
  BY <1>3, TransactionSteps DEF TypeOK

LEMMA TypeNext ==
  ASSUME TypeOK, WellFormed, [Next]_vars
  PROVE  TypeOK'
<1>1. CASE Boot
  BY <1>1, BootType
<1>2. CASE Crash
  BY <1>2, DiesType DEF Crash
<1>3. ASSUME NEW h \in Handlers, Request(h) \/ Serve(h)
      PROVE  TypeOK'
  BY <1>3, RequestType, ServeType
<1>4. CASE Transaction
  BY <1>4, TransactionType
<1>5. ASSUME NEW r \in Runs, NEW e \in EntryId, Tick(r, e)
      PROVE  TypeOK'
  BY <1>5, TickType
<1>6. ASSUME NEW r \in Runs, NEW t \in Tasks, StartOnceTask(r, t)
      PROVE  TypeOK'
  BY <1>6, StartOnceType
<1>7. ASSUME NEW r \in Runs, Go(r)
      PROVE  TypeOK'
  BY <1>7, GoType
<1>8. CASE UNCHANGED vars
  BY <1>8 DEF vars, TypeOK
<1>9. QED
  BY <1>1, <1>2, <1>3, <1>4, <1>5, <1>6, <1>7, <1>8 DEF Next

LEMMA WellFormedNext ==
  ASSUME TypeOK, WellFormed, [Next]_vars
  PROVE  WellFormed'
<1>1. CASE Boot
  BY <1>1, WellFormedBoot
<1>2. CASE Crash
  BY <1>2, WellFormedDies DEF Crash
<1>3. ASSUME NEW h \in Handlers, Request(h) \/ Serve(h)
      PROVE  WellFormed'
  BY <1>3, WellFormedRequest
<1>4. CASE Transaction
  BY <1>4, TransactionSteps DEF WellFormed, Once
<1>5. ASSUME NEW r \in Runs, NEW e \in EntryId, Tick(r, e)
      PROVE  WellFormed'
  BY <1>5, WellFormedSpawn
<1>6. ASSUME NEW r \in Runs, NEW t \in Tasks, StartOnceTask(r, t)
      PROVE  WellFormed'
  BY <1>6, WellFormedSpawn
<1>7. ASSUME NEW r \in Runs, Go(r)
      PROVE  WellFormed'
  BY <1>7, WellFormedGo
<1>8. CASE UNCHANGED vars
  BY <1>8 DEF vars, WellFormed, Once
<1>9. QED
  BY <1>1, <1>2, <1>3, <1>4, <1>5, <1>6, <1>7, <1>8 DEF Next

LEMMA WellFormedInit == Init => WellFormed
BY DEF Init, WellFormed, NoRun, NoReq, HasLog, Working

LEMMA Shape == Spec => [](TypeOK /\ WellFormed)
<1>1. Init => TypeOK /\ WellFormed
  BY InitType, WellFormedInit
<1>2. TypeOK /\ WellFormed /\ [Next]_vars => TypeOK' /\ WellFormed'
  BY TypeNext, WellFormedNext
<1>3. QED
  BY <1>1, <1>2, PTL DEF Spec

(* Every variable keeps its type; in particular entries and log keys stay  *)
(* within their bounds, and a cleared request or run is empty again.       *)
THEOREM TypeCorrect == Spec => []TypeOK
BY Shape, PTL

-----------------------------------------------------------------------------
(***************************************************************************)
(* The task_log table.                                                     *)
(***************************************************************************)
JournalInv ==
  /\ JournalOrder /\ RunsOwnRows /\ LogRowOwnedOnce /\ RunningRowHasRun
  /\ VerdictHolds /\ DependentAfterSuccess

LEMMA JournalInit == Init => JournalInv
BY ConstantsAssumption
DEF Init, JournalInv, JournalOrder, RunsOwnRows, LogRowOwnedOnce, RunningRowHasRun, VerdictHolds,
    DependentAfterSuccess, NoRun, NoLine, HasLog, Working, LogId

(* What a step that leaves the table alone may do to a run.                *)
KeepsRun(r) ==
  /\ run'[r].pc \in Working <=> run[r].pc \in Working
  /\ run'[r].pc \in HasLog =>
       run[r].pc \in HasLog /\ run'[r].log = run[r].log /\ run'[r].task = run[r].task
  /\ run'[r].pc = "create" =>
       /\ run'[r].cfg = run[r].cfg
       /\ \/ run[r].pc = "create" /\ run'[r].ok = run[r].ok
          \/ /\ run[r].pc = "check"
             /\ run'[r].ok = DependencyMet(run[r].task, run[r].cfg)

QuietForJournal ==
  UNCHANGED <<taskLog, nextLog, lost>> /\ \A r \in Runs : KeepsRun(r)

(* A dependency that is met has a success in the table.                    *)
LEMMA MetHasSuccess ==
  ASSUME TypeOK, JournalOrder, NEW t \in Tasks, NEW c \in Config, DependencyMet(t, c)
  PROVE  c.dep = NoTask \/
           \E m \in LogId : /\ m < nextLog /\ taskLog[m].task = c.dep
                            /\ taskLog[m].status = "ended" /\ taskLog[m].result
<1>1. CASE c.dep \in Tasks
  <2>1. PICK l \in LogId :
          taskLog[l].status = "ended" /\ taskLog[l].task = c.dep /\ taskLog[l].result
    BY <1>1 DEF DependencyMet, LastEndedSucceeded
  <2>2. l < nextLog
    BY <2>1, ConstantsAssumption DEF JournalOrder, TypeOK, LogId
  <2>3. QED
    BY <2>1, <2>2
<1>2. QED
  BY <1>1 DEF Config

LEMMA JournalQuiet ==
  ASSUME TypeOK, WellFormed, JournalInv, QuietForJournal
  PROVE  JournalInv'
<1> USE DEF QuietForJournal, KeepsRun
<1>0. Working \subseteq HasLog
  BY DEF HasLog
<1>1. JournalOrder'
  BY DEF JournalInv, JournalOrder
<1>2. RunsOwnRows'
  BY DEF JournalInv, RunsOwnRows
<1>3. LogRowOwnedOnce'
  BY DEF JournalInv, LogRowOwnedOnce
<1>4. RunningRowHasRun'
  BY <1>0 DEF JournalInv, RunningRowHasRun
<1>5. VerdictHolds'
  <2> SUFFICES ASSUME NEW r \in Runs, run'[r].pc = "create"
               PROVE  IF run'[r].ok
                      THEN run'[r].cfg.dep = NoTask \/
                             \E m \in LogId : /\ m < nextLog /\ taskLog[m].task = run'[r].cfg.dep
                                              /\ taskLog[m].status = "ended" /\ taskLog[m].result
                      ELSE run'[r].cfg.dep # NoTask
    BY DEF VerdictHolds
  <2>1. CASE run[r].pc = "create" /\ run'[r].ok = run[r].ok
    BY <2>1 DEF JournalInv, VerdictHolds
  <2>2. CASE run[r].pc = "check" /\ run'[r].ok = DependencyMet(run[r].task, run[r].cfg)
    <3>1. run[r].task \in Tasks /\ run[r].cfg \in Config
      BY <2>2 DEF WellFormed, TypeOK, Run
    <3>2. CASE run'[r].ok
      BY <2>2, <3>1, <3>2, MetHasSuccess DEF JournalInv
    <3>3. CASE ~run'[r].ok
      <4>1. run[r].cfg.dep \in Tasks
        BY <2>2, <3>3 DEF DependencyMet
      <4>2. QED
        BY <3>3, <4>1, ConstantsAssumption
    <3>4. QED
      BY <3>2, <3>3
  <2>3. QED
    BY <2>1, <2>2
<1>6. DependentAfterSuccess'
  BY DEF JournalInv, DependentAfterSuccess
<1>7. QED
  BY <1>1, <1>2, <1>3, <1>4, <1>5, <1>6 DEF JournalInv

LEMMA JournalDies ==
  ASSUME TypeOK, JournalInv, ServerDies
  PROVE  JournalInv'
<1>1. \A r \in Runs : run'[r] = NoRun
  BY DEF ServerDies
<1>2. RunsOwnRows' /\ LogRowOwnedOnce' /\ VerdictHolds'
  BY <1>1 DEF RunsOwnRows, LogRowOwnedOnce, VerdictHolds, NoRun, HasLog, Working
<1>3. RunningRowHasRun'
  BY DEF ServerDies, dbVars, RunningRowHasRun
<1>4. JournalOrder' /\ DependentAfterSuccess'
  BY DEF ServerDies, dbVars, JournalInv, JournalOrder, DependentAfterSuccess
<1>5. QED
  BY <1>2, <1>3, <1>4 DEF JournalInv

(* The row a run creates is new; a refusal is written closed.              *)
LEMMA JournalCreate ==
  ASSUME TypeOK, WellFormed, JournalInv, NEW r \in Runs, CreateLog(r)
  PROVE  JournalInv'
<1> DEFINE line == [status |-> IF run[r].ok THEN "running" ELSE "ended",
                    task |-> run[r].task, dep |-> run[r].cfg.dep, result |-> FALSE,
                    reported |-> FALSE]
<1>1. /\ nextLog \in LogId
      /\ nextLog' = nextLog + 1
      /\ taskLog'[nextLog] = line
      /\ \A l \in LogId : l # nextLog => taskLog'[l] = taskLog[l]
      /\ lost' = lost
      /\ run[r].pc = "create"
  BY ConstantsAssumption DEF CreateLog, TypeOK, LogId, ghostVars
<1>2. taskLog[nextLog].status = "none" /\ nextLog \in Nat
  BY <1>1 DEF JournalInv, JournalOrder, LogId
<1>3. \A s \in Runs : s # r => run'[s] = run[s]
  BY DEF CreateLog, Leave, TypeOK
<1>4. IF run[r].ok
      THEN run'[r].pc = "start" /\ run'[r].log = nextLog /\ run'[r].task = run[r].task
      ELSE run'[r].pc = "free"
  <2>1. CASE run[r].ok
    BY <2>1 DEF CreateLog, TypeOK, Run
  <2>2. CASE ~run[r].ok
    BY <2>2 DEF CreateLog, Leave, TypeOK, NoRun
  <2>3. QED
    BY <2>1, <2>2
<1>5. \A s \in Runs : run[s].pc \in HasLog => run[s].log \in LogId /\ run[s].log < nextLog
  BY DEF JournalInv, RunsOwnRows, WellFormed
<1>6. JournalOrder'
  <2> SUFFICES ASSUME NEW l \in LogId
               PROVE  taskLog'[l].status = "none" <=> l >= nextLog'
    BY DEF JournalOrder
  <2>1. CASE l = nextLog
    BY <1>1, <1>2, <2>1
  <2>2. CASE l # nextLog
    BY <1>1, <1>2, <2>2 DEF JournalInv, JournalOrder, LogId
  <2>3. QED
    BY <2>1, <2>2
<1>7. RunsOwnRows'
  <2> SUFFICES ASSUME NEW s \in Runs, run'[s].pc \in HasLog
               PROVE  /\ run'[s].log < nextLog'
                      /\ taskLog'[run'[s].log].task = run'[s].task
                      /\ run'[s].pc \in Working => taskLog'[run'[s].log].status = "running"
    BY DEF RunsOwnRows
  <2>1. CASE s = r
    BY <1>1, <1>2, <1>4, <2>1 DEF HasLog, Working
  <2>2. CASE s # r
    <3>1. run'[s] = run[s] /\ run[s].log \in LogId /\ run[s].log < nextLog
      BY <1>3, <1>5, <2>2
    <3>2. taskLog'[run[s].log] = taskLog[run[s].log] /\ run[s].log < nextLog'
      BY <1>1, <1>2, <3>1 DEF LogId
    <3>3. QED
      BY <3>1, <3>2 DEF JournalInv, RunsOwnRows
  <2>3. QED
    BY <2>1, <2>2
<1>8. LogRowOwnedOnce'
  <2> SUFFICES ASSUME NEW s \in Runs, NEW q \in Runs, s # q,
                      run'[s].pc \in HasLog, run'[q].pc \in HasLog
               PROVE  run'[s].log # run'[q].log
    BY DEF LogRowOwnedOnce
  <2>1. CASE s # r /\ q # r
    BY <1>3, <2>1 DEF JournalInv, LogRowOwnedOnce
  <2>2. CASE s = r
    BY <1>2, <1>3, <1>4, <1>5, <2>2 DEF HasLog, Working, LogId
  <2>3. CASE q = r
    BY <1>2, <1>3, <1>4, <1>5, <2>3 DEF HasLog, Working, LogId
  <2>4. QED
    BY <2>1, <2>2, <2>3
<1>9. RunningRowHasRun'
  <2> SUFFICES ASSUME NEW l \in LogId, taskLog'[l].status = "running"
               PROVE  l \in lost \/ \E s \in Runs : run'[s].log = l /\ run'[s].pc \in Working
    BY <1>1 DEF RunningRowHasRun
  <2>1. CASE l = nextLog
    BY <1>1, <1>4, <2>1 DEF Working
  <2>2. CASE l # nextLog
    <3>1. l \in lost \/ \E s \in Runs : run[s].log = l /\ run[s].pc \in Working
      BY <1>1, <2>2 DEF JournalInv, RunningRowHasRun
    <3>2. \A s \in Runs : run[s].pc \in Working => s # r
      BY <1>1 DEF Working
    <3>3. QED
      BY <1>3, <3>1, <3>2
  <2>3. QED
    BY <2>1, <2>2
<1>10. \A m \in LogId : taskLog[m].status = "ended" => taskLog'[m] = taskLog[m] /\ m < nextLog
  BY <1>1, <1>2 DEF JournalInv, JournalOrder, LogId
<1>11. VerdictHolds'
  <2> SUFFICES ASSUME NEW s \in Runs, run'[s].pc = "create"
               PROVE  IF run'[s].ok
                      THEN run'[s].cfg.dep = NoTask \/
                             \E m \in LogId : /\ m < nextLog' /\ taskLog'[m].task = run'[s].cfg.dep
                                              /\ taskLog'[m].status = "ended" /\ taskLog'[m].result
                      ELSE run'[s].cfg.dep # NoTask
    BY DEF VerdictHolds
  <2>1. run'[s] = run[s]
    BY <1>3, <1>4
  <2>2. \A m \in LogId : m < nextLog => m < nextLog'
    BY <1>1, <1>2 DEF LogId
  <2>3. QED
    BY <1>10, <2>1, <2>2 DEF JournalInv, VerdictHolds
<1>12. DependentAfterSuccess'
  <2> SUFFICES ASSUME NEW l \in LogId, taskLog'[l].dep # NoTask, ~taskLog'[l].reported,
                      taskLog'[l].status = "running" \/ taskLog'[l].result
               PROVE  \E m \in LogId : /\ m < l
                                       /\ taskLog'[m].task = taskLog'[l].dep
                                       /\ taskLog'[m].status = "ended" /\ taskLog'[m].result
    BY DEF DependentAfterSuccess
  <2>1. CASE l = nextLog
    <3>1. run[r].ok /\ run[r].cfg.dep # NoTask /\ taskLog'[l].dep = run[r].cfg.dep
      BY <1>1, <2>1
    <3>2. PICK m \in LogId : /\ m < nextLog /\ taskLog[m].task = run[r].cfg.dep
                             /\ taskLog[m].status = "ended" /\ taskLog[m].result
      BY <1>1, <3>1 DEF JournalInv, VerdictHolds
    <3>3. QED
      BY <1>10, <2>1, <3>1, <3>2
  <2>2. CASE l # nextLog
    BY <1>1, <1>10, <2>2 DEF JournalInv, DependentAfterSuccess
  <2>3. QED
    BY <2>1, <2>2
<1>13. QED
  BY <1>6, <1>7, <1>8, <1>9, <1>11, <1>12 DEF JournalInv

(* Only the run that owns a row closes it, and it was open.                *)
LEMMA JournalClose ==
  ASSUME TypeOK, WellFormed, JournalInv, NEW r \in Runs, AfterRun(r)
  PROVE  JournalInv'
<1> DEFINE l == run[r].log
<1>1. run[r].pc = "after" /\ l \in LogId /\ run[r].ok \in BOOLEAN
  BY DEF AfterRun, WellFormed, HasLog, Working, TypeOK, Run
<1>2. /\ taskLog'[l].status = "ended" /\ taskLog'[l].result = run[r].ok
      /\ taskLog'[l].task = taskLog[l].task /\ taskLog'[l].dep = taskLog[l].dep
      /\ taskLog'[l].reported = taskLog[l].reported
      /\ \A m \in LogId : m # l => taskLog'[m] = taskLog[m]
      /\ nextLog' = nextLog /\ lost' = lost
  BY <1>1 DEF AfterRun, TypeOK, Line, ghostVars
<1>3. taskLog[l].status = "running" /\ l < nextLog
  BY <1>1 DEF JournalInv, RunsOwnRows, HasLog, Working
<1>4. \A s \in Runs : s # r => run'[s] = run[s]
  BY DEF AfterRun, TypeOK
<1>5. /\ run'[r].pc \in {"free", "cleanup"}
      /\ run'[r].pc = "cleanup" => run'[r].log = l /\ run'[r].task = run[r].task
  <2>1. CASE Once(r)
    BY <2>1 DEF AfterRun, TypeOK, NoRun
  <2>2. CASE ~Once(r)
    BY <2>2 DEF AfterRun, TypeOK, Run
  <2>3. QED
    BY <2>1, <2>2
<1>6. JournalOrder'
  BY <1>1, <1>2, <1>3 DEF JournalInv, JournalOrder
<1>7. \A s \in Runs : s # r /\ run[s].pc \in HasLog => run[s].log # l /\ run[s].log \in LogId
  BY <1>1 DEF JournalInv, LogRowOwnedOnce, WellFormed, HasLog, Working
<1>8. RunsOwnRows'
  <2> SUFFICES ASSUME NEW s \in Runs, run'[s].pc \in HasLog
               PROVE  /\ run'[s].log < nextLog'
                      /\ taskLog'[run'[s].log].task = run'[s].task
                      /\ run'[s].pc \in Working => taskLog'[run'[s].log].status = "running"
    BY DEF RunsOwnRows
  <2>1. CASE s = r
    BY <1>1, <1>2, <1>3, <1>5, <2>1 DEF JournalInv, RunsOwnRows, HasLog, Working
  <2>2. CASE s # r
    BY <1>2, <1>4, <1>7, <2>2 DEF JournalInv, RunsOwnRows
  <2>3. QED
    BY <2>1, <2>2
<1>9. LogRowOwnedOnce'
  <2>1. \A s \in Runs : run'[s].pc \in HasLog => run[s].pc \in HasLog /\ run'[s].log = run[s].log
    BY <1>1, <1>4, <1>5 DEF HasLog, Working
  <2>2. QED
    BY <2>1 DEF JournalInv, LogRowOwnedOnce
<1>10. RunningRowHasRun'
  <2> SUFFICES ASSUME NEW m \in LogId, taskLog'[m].status = "running"
               PROVE  m \in lost \/ \E s \in Runs : run'[s].log = m /\ run'[s].pc \in Working
    BY <1>2 DEF RunningRowHasRun
  <2>1. m # l /\ taskLog[m].status = "running"
    BY <1>2
  <2>2. m \in lost \/ \E s \in Runs : run[s].log = m /\ run[s].pc \in Working
    BY <2>1 DEF JournalInv, RunningRowHasRun
  <2>3. QED
    BY <1>4, <2>1, <2>2
<1>11. \A m \in LogId : taskLog[m].status = "ended" => taskLog'[m] = taskLog[m]
  BY <1>2, <1>3
<1>12. VerdictHolds'
  BY <1>2, <1>4, <1>5, <1>11 DEF JournalInv, VerdictHolds
<1>13. DependentAfterSuccess'
  <2> SUFFICES ASSUME NEW k \in LogId, taskLog'[k].dep # NoTask, ~taskLog'[k].reported,
                      taskLog'[k].status = "running" \/ taskLog'[k].result
               PROVE  \E m \in LogId : /\ m < k
                                       /\ taskLog'[m].task = taskLog'[k].dep
                                       /\ taskLog'[m].status = "ended" /\ taskLog'[m].result
    BY DEF DependentAfterSuccess
  <2>1. /\ taskLog[k].dep = taskLog'[k].dep /\ ~taskLog[k].reported
        /\ taskLog[k].status = "running" \/ taskLog[k].result
    BY <1>2, <1>3
  <2>2. QED
    BY <1>11, <2>1 DEF JournalInv, DependentAfterSuccess
<1>14. QED
  BY <1>6, <1>8, <1>9, <1>10, <1>12, <1>13 DEF JournalInv

(* A report of a node adds a row that is ended as it is made, and that is  *)
(* no run's.                                                               *)
LEMMA ReportAdds ==
  ASSUME TypeOK, NEW h \in Handlers, CreateReport(h)
  PROVE  /\ nextLog \in LogId /\ nextLog' = nextLog + 1
         /\ taskLog'[nextLog].status = "ended" /\ taskLog'[nextLog].reported
         /\ \A l \in LogId : l # nextLog => taskLog'[l] = taskLog[l]
         /\ lost' = lost /\ run' = run
BY DEF CreateReport, TypeOK, LogId, ghostVars

LEMMA JournalReport ==
  ASSUME TypeOK, WellFormed, JournalInv, NEW h \in Handlers, CreateReport(h)
  PROVE  JournalInv'
<1>1. /\ nextLog \in LogId /\ nextLog' = nextLog + 1 /\ nextLog \in Nat
      /\ taskLog'[nextLog].status = "ended" /\ taskLog'[nextLog].reported
      /\ \A l \in LogId : l # nextLog => taskLog'[l] = taskLog[l]
      /\ lost' = lost /\ run' = run
  BY ReportAdds DEF LogId
<1>2. \A m \in LogId : m < nextLog => m < nextLog' /\ taskLog'[m] = taskLog[m]
  BY <1>1 DEF LogId
<1>3. JournalOrder'
  <2> SUFFICES ASSUME NEW l \in LogId
               PROVE  taskLog'[l].status = "none" <=> l >= nextLog'
    BY DEF JournalOrder
  <2>1. CASE l = nextLog
    BY <1>1, <2>1
  <2>2. CASE l # nextLog
    BY <1>1, <2>2 DEF JournalInv, JournalOrder, LogId
  <2>3. QED
    BY <2>1, <2>2
<1>4. RunsOwnRows'
  BY <1>1, <1>2 DEF JournalInv, RunsOwnRows, WellFormed
<1>5. LogRowOwnedOnce'
  BY <1>1 DEF JournalInv, LogRowOwnedOnce
<1>6. RunningRowHasRun'
  BY <1>1 DEF JournalInv, RunningRowHasRun
<1>7. \A m \in LogId : taskLog[m].status = "ended" => taskLog'[m] = taskLog[m] /\ m < nextLog
  BY <1>1 DEF JournalInv, JournalOrder, LogId
<1>8. VerdictHolds'
  BY <1>1, <1>2, <1>7 DEF JournalInv, VerdictHolds
<1>9. DependentAfterSuccess'
  <2> SUFFICES ASSUME NEW l \in LogId, taskLog'[l].dep # NoTask, ~taskLog'[l].reported,
                      taskLog'[l].status = "running" \/ taskLog'[l].result
               PROVE  \E m \in LogId : /\ m < l
                                       /\ taskLog'[m].task = taskLog'[l].dep
                                       /\ taskLog'[m].status = "ended" /\ taskLog'[m].result
    BY DEF DependentAfterSuccess
  <2>1. taskLog'[l] = taskLog[l]
    BY <1>1
  <2>2. QED
    BY <1>7, <2>1 DEF JournalInv, DependentAfterSuccess
<1>10. QED
  BY <1>3, <1>4, <1>5, <1>6, <1>8, <1>9 DEF JournalInv

(* Other requests, firings and the start of the server leave the table     *)
(* alone.                                                                  *)
LEMMA QuietOutside ==
  ASSUME TypeOK, WellFormed,
         \/ Boot
         \/ \E h \in Handlers : (Request(h) \/ Serve(h)) /\ ~CreateReport(h)
         \/ Transaction
         \/ \E r \in Runs, e \in EntryId : Tick(r, e)
         \/ \E r \in Runs, t \in Tasks : StartOnceTask(r, t)
         \/ UNCHANGED vars
  PROVE  QuietForJournal
<1> USE DEF QuietForJournal, KeepsRun
<1>1. CASE Boot
  BY <1>1 DEF Boot, BootLoad, BootDone, BootAddTask, dbVars, ghostVars
<1>2. ASSUME NEW h \in Handlers, Request(h) \/ Serve(h), ~CreateReport(h)
      PROVE  QuietForJournal
  <2>1. UNCHANGED <<taskLog, nextLog, lost>>
    BY <1>2 DEF Request, Serve, StopTask, StartTask, EditTask, AddTask, Save,
      SyncTaskToNode, AddTaskCheck, AddTaskLoad, AddTaskJob, AddTaskPublish,
      DeleteTaskRemove, DeleteTaskKill, DeleteTaskUnlist, DeleteTaskUnlistAgain,
      PushTask, AgentReportTaskResult, dbVars, ghostVars
  <2>2. QED
    BY <1>2, <2>1, RequestSparesRuns
<1>3. CASE Transaction
  BY <1>3, TransactionSteps
<1>4. ASSUME NEW r \in Runs, NEW pc \in {"check", "wait"}, NEW e, NEW t, NEW c,
             run[r].pc = "free", Spawn(r, pc, e, t, c), UNCHANGED <<taskLog, nextLog, lost>>
      PROVE  QuietForJournal
  BY <1>4, SpawnSteps DEF HasLog, Working
<1>5. ASSUME NEW r \in Runs, NEW e \in EntryId, Tick(r, e)
      PROVE  QuietForJournal
  BY <1>4, <1>5 DEF Tick, ghostVars
<1>6. ASSUME NEW r \in Runs, NEW t \in Tasks, StartOnceTask(r, t)
      PROVE  QuietForJournal
  BY <1>4, <1>6 DEF StartOnceTask, ghostVars
<1>7. CASE UNCHANGED vars
  BY <1>7 DEF vars
<1>8. QED
  BY <1>1, <1>2, <1>3, <1>5, <1>6, <1>7

LEMMA QuietGo ==
  ASSUME TypeOK, WellFormed, NEW r \in Runs, Go(r), ~ServerDies, ~CreateLog(r), ~AfterRun(r)
  PROVE  QuietForJournal
<1>0. RunShape(r) /\ run[r] \in Run
  BY GoSteps DEF TypeOK
<1>1. UNCHANGED <<taskLog, nextLog, lost>>
  BY DEF Go, Acquire, ValidateDependency, StartProcess, AddTaskRunningIns, Exit, Wake,
    Cleanup, Panic, ghostVars
<1>2. \A s \in Runs : s # r => KeepsRun(s)
  BY <1>0 DEF RunShape, KeepsRun
<1> USE DEF KeepsRun, HasLog, Working
<1>3. KeepsRun(r)
  <2>1. CASE Acquire(r)
    BY <2>1 DEF Acquire, TypeOK, Run
  <2>2. CASE ValidateDependency(r)
    BY <2>2 DEF ValidateDependency, TypeOK, Run
  <2>3. CASE StartProcess(r)
    <3>1. PICK pc \in {"register", "after", "sleep"} :
            run' = [run EXCEPT ![r].pc = pc, ![r].tries = @ + 1]
      BY <2>3 DEF StartProcess, AfterFailure
    <3>2. QED
      BY <2>3, <3>1 DEF StartProcess, TypeOK, Run
  <2>4. CASE AddTaskRunningIns(r)
    BY <2>4 DEF AddTaskRunningIns, TypeOK, Run
  <2>5. ASSUME NEW ok \in BOOLEAN, Exit(r, ok)
        PROVE  KeepsRun(r)
    <3>1. PICK pc \in {"after", "sleep"} :
            run' = [run EXCEPT ![r].pc = pc, ![r].ok = ok, ![r].killed = FALSE]
      BY <2>5 DEF Exit, AfterFailure
    <3>2. QED
      BY <2>5, <3>1 DEF Exit, TypeOK, Run
  <2>6. CASE Wake(r)
    <3>1. PICK pc \in {"start", "after"} : run' = [run EXCEPT ![r].pc = pc]
      BY <2>6, LoopType DEF Wake
    <3>2. QED
      BY <2>6, <3>1 DEF Wake, TypeOK, Run
  <2>7. CASE (Cleanup(r) \/ Panic(r)) /\ Leave(r)
    BY <2>7 DEF Cleanup, Panic, Leave, TypeOK, NoRun
  <2>8. QED
    BY <2>1, <2>2, <2>3, <2>4, <2>5, <2>6, <2>7 DEF Go, Cleanup, Panic
<1>4. QED
  BY <1>1, <1>2, <1>3 DEF QuietForJournal

(* Every step leaves the table alone, or is one of four.                   *)
LEMMA JournalSteps ==
  ASSUME TypeOK, WellFormed, [Next]_vars
  PROVE  \/ QuietForJournal \/ ServerDies
         \/ \E r \in Runs : CreateLog(r) \/ AfterRun(r)
         \/ \E h \in Handlers : CreateReport(h)
BY QuietOutside, QuietGo DEF Next, Crash

LEMMA JournalNext ==
  ASSUME TypeOK, WellFormed, JournalInv, [Next]_vars
  PROVE  JournalInv'
BY JournalSteps, JournalQuiet, JournalDies, JournalCreate, JournalClose, JournalReport

LEMMA JournalCorrect == Spec => [](TypeOK /\ WellFormed /\ JournalInv)
<1>1. Init => JournalInv
  BY JournalInit
<1>2. TypeOK /\ WellFormed /\ JournalInv /\ [Next]_vars => JournalInv'
  BY JournalNext
<1>3. QED
  BY <1>1, <1>2, Shape, PTL DEF Spec

(* No run leaves a row that says "running" behind: not by a failed start,  *)
(* a kill, a retry, a panic, nor by an edit or a stop of its task.         *)
THEOREM RunningRowsHaveRuns == Spec => []RunningRowHasRun
<1>1. JournalInv => RunningRowHasRun
  BY DEF JournalInv
<1>2. QED
  BY <1>1, JournalCorrect, PTL

(* Whatever tasks are added, edited and deleted while runs are under way,  *)
(* and whatever nodes report, a run of this server with a dependency       *)
(* begins after a success of that dependency.                              *)
THEOREM DependentsAfterSuccess == Spec => []DependentAfterSuccess
<1>1. JournalInv => DependentAfterSuccess
  BY DEF JournalInv
<1>2. QED
  BY <1>1, JournalCorrect, PTL

LEMMA EndedRowKept ==
  ASSUME TypeOK, WellFormed, JournalInv, [Next]_vars, NEW l \in LogId,
         taskLog[l].status = "ended"
  PROVE  taskLog'[l] = taskLog[l]
<1>1. CASE QuietForJournal \/ ServerDies
  BY <1>1 DEF QuietForJournal, ServerDies, dbVars
<1>2. ASSUME NEW r \in Runs, CreateLog(r)
      PROVE  taskLog'[l] = taskLog[l]
  <2>1. l # nextLog
    BY <1>2 DEF JournalInv, JournalOrder, CreateLog, LogId, TypeOK
  <2>2. QED
    BY <1>2, <2>1 DEF CreateLog, TypeOK
<1>3. ASSUME NEW r \in Runs, AfterRun(r)
      PROVE  taskLog'[l] = taskLog[l]
  <2>1. l # run[r].log
    BY <1>3 DEF JournalInv, RunsOwnRows, AfterRun, HasLog, Working
  <2>2. QED
    BY <1>3, <2>1 DEF AfterRun, TypeOK
<1>4. ASSUME NEW h \in Handlers, CreateReport(h)
      PROVE  taskLog'[l] = taskLog[l]
  <2>1. l # nextLog
    BY <1>4 DEF JournalInv, JournalOrder, CreateReport, LogId, TypeOK
  <2>2. QED
    BY <1>4, <2>1, ReportAdds
<1>5. QED
  BY <1>1, <1>2, <1>3, <1>4, JournalSteps

(* An ended row is never written again.                                    *)
THEOREM EndedRowsStay == Spec => EndedRowsFrozen
<1>1. TypeOK /\ WellFormed /\ JournalInv /\ [Next]_vars
        => [\A l \in LogId : taskLog[l].status = "ended" => taskLog'[l] = taskLog[l]]_taskLog
  BY EndedRowKept
<1>2. QED
  BY <1>1, JournalCorrect, PTL DEF Spec, EndedRowsFrozen

(* A step of the scheduler is a step of the journal or leaves it alone.    *)
LEMMA JournalStep ==
  ASSUME TypeOK, WellFormed, JournalInv, [Next]_vars
  PROVE  Journal!Next \/ UNCHANGED <<taskLog, nextLog>>
<1> USE DEF LogId, Journal!LogId
<1>1. CASE QuietForJournal \/ ServerDies
  BY <1>1 DEF QuietForJournal, ServerDies, dbVars
<1>2. ASSUME NEW r \in Runs, CreateLog(r)
      PROVE  Journal!Next
  <2> DEFINE t == run[r].task
             d == run[r].cfg.dep
  <2>1. t \in Tasks /\ d \in Tasks \cup {NoTask} /\ run[r].ok \in BOOLEAN
    BY <1>2 DEF CreateLog, WellFormed, TypeOK, Run, Config
  <2>2. Journal!Write(Journal!Line(IF run[r].ok THEN "running" ELSE "ended", t, d))
    BY <1>2, ConstantsAssumption DEF CreateLog, TypeOK, Journal!Write, Journal!Line
  <2>3. CASE run[r].ok
    <3>1. d = NoTask \/ \E l \in LogId : l < nextLog /\ Journal!Succeeded(l, d)
      BY <1>2, <2>3 DEF JournalInv, VerdictHolds, CreateLog, Journal!Succeeded
    <3>2. Journal!Open(t, d)
      BY <2>2, <2>3, <3>1 DEF Journal!Open
    <3>3. QED
      BY <2>1, <3>2 DEF Journal!Next
  <2>4. CASE ~run[r].ok
    <3>1. d # NoTask
      BY <1>2, <2>4 DEF JournalInv, VerdictHolds, CreateLog
    <3>2. Journal!Refuse(t, d)
      BY <2>2, <2>4, <3>1 DEF Journal!Refuse
    <3>3. QED
      BY <2>1, <3>2 DEF Journal!Next
  <2>5. QED
    BY <2>3, <2>4
<1>3. ASSUME NEW r \in Runs, AfterRun(r)
      PROVE  Journal!Next
  <2>1. run[r].log \in LogId /\ run[r].ok \in BOOLEAN
    BY <1>3 DEF AfterRun, WellFormed, HasLog, Working, TypeOK, Run
  <2>2. taskLog[run[r].log].status = "running"
    BY <1>3 DEF JournalInv, RunsOwnRows, AfterRun, HasLog, Working
  <2>3. Journal!Close(run[r].log, run[r].ok)
    BY <1>3, <2>2 DEF AfterRun, Journal!Close
  <2>4. QED
    BY <2>1, <2>3 DEF Journal!Next
<1>4. ASSUME NEW h \in Handlers, CreateReport(h)
      PROVE  Journal!Next
  <2> DEFINE t == req[h].task
             d == row[t].cfg.dep
  <2>1. t \in Tasks
    BY <1>4 DEF CreateReport, At, WellFormed
  <2>2. d \in Tasks \cup {NoTask}
    BY <2>1 DEF TypeOK, Row, Config
  <2>3. PICK result \in BOOLEAN :
          taskLog' = [taskLog EXCEPT ![nextLog] =
                        [status |-> "ended", task |-> t, dep |-> d, result |-> result,
                         reported |-> TRUE]]
    BY <1>4 DEF CreateReport
  <2>4. nextLog \in LogId /\ nextLog' = nextLog + 1
    BY <1>4, ReportAdds
  <2>5. Journal!Report(t, d, result)
    BY <2>3, <2>4 DEF Journal!Report, Journal!Write
  <2>6. QED
    BY <2>1, <2>2, <2>5 DEF Journal!Next
<1>5. QED
  BY <1>1, <1>2, <1>3, <1>4, JournalSteps

(* The task_log table is the journal its readers are promised: numbered in *)
(* order, refusals without success, closed once, dependents after success. *)
THEOREM TaskLogIsJournal == Spec => ImplementsJournal
<1>1. Init => Journal!Init
  BY DEF Init, Journal!Init, NoLine, LogId, Journal!LogId, Journal!Empty, Journal!Line
<1>2. TypeOK /\ WellFormed /\ JournalInv /\ [Next]_vars
        => [Journal!Next]_<<taskLog, nextLog>>
  BY JournalStep
<1>3. QED
  BY <1>1, <1>2, JournalCorrect, PTL DEF Spec, ImplementsJournal, Journal!Spec

-----------------------------------------------------------------------------
(***************************************************************************)
(* The Skip and Delay wrappers.                                            *)
(***************************************************************************)

(* Short of a death of the server no instance in use changes its task or   *)
(* its settings, and cron gains only the newest.                           *)
InstancesKept ==
  /\ nextEntry' \in Nat /\ nextEntry' >= nextEntry
  /\ \A e \in EntryId :
       e < nextEntry => inst'[e].cfg = inst[e].cfg /\ inst'[e].task = inst[e].task
  /\ \A e \in cron' : e \in cron \/ (e = nextEntry /\ nextEntry' = nextEntry + 1)

LEMMA InstancesKeptNext ==
  ASSUME TypeOK, WellFormed, [Next]_vars, ~ServerDies
  PROVE  InstancesKept
<1>0. nextEntry \in Nat /\ inst \in [EntryId -> Inst] /\ cron \subseteq EntryId
  BY ConstantsAssumption DEF TypeOK, EntryId
<1>1. CASE UNCHANGED inst /\ UNCHANGED nextEntry /\ cron' \subseteq cron
  BY <1>0, <1>1 DEF InstancesKept
<1>2. ASSUME nextEntry' = nextEntry + 1, cron' = cron \cup {nextEntry}, NEW i,
             inst' = [inst EXCEPT ![nextEntry] = i]
      PROVE  InstancesKept
  BY <1>0, <1>2 DEF InstancesKept, EntryId
<1>3. ASSUME UNCHANGED <<cron, nextEntry>>, NEW e \in EntryId, NEW S,
             inst' = [inst EXCEPT ![e].running = S]
      PROVE  InstancesKept
  BY <1>0, <1>3 DEF InstancesKept, Inst
<1>4. CASE Boot
  BY <1>1, <1>2, <1>4 DEF Boot, BootLoad, BootDone, BootAddTask, cronVars
<1>5. ASSUME NEW h \in Handlers, Request(h) \/ Serve(h)
      PROVE  InstancesKept
  <2>1. CASE AddTaskJob(h)
    BY <1>2, <2>1 DEF AddTaskJob
  <2>2. CASE ~AddTaskJob(h)
    BY <1>1, <1>5, <2>2 DEF Request, Serve, StopTask, StartTask, EditTask, AddTask, Save,
      SyncTaskToNode, AddTaskCheck, AddTaskLoad, AddTaskPublish, DeleteTaskRemove,
      DeleteTaskKill, DeleteTaskUnlist, DeleteTaskUnlistAgain, cronVars,
      PushTask, CreateReport, AgentReportTaskResult
  <2>3. QED
    BY <2>1, <2>2
<1>6. CASE Transaction
  BY <1>1, <1>6, TransactionSteps
<1>7. ASSUME NEW r \in Runs,
             \/ \E e \in EntryId : Tick(r, e)
             \/ \E t \in Tasks : StartOnceTask(r, t)
      PROVE  InstancesKept
  BY <1>1, <1>7 DEF Tick, StartOnceTask, Unchanged4Run
<1>8. ASSUME NEW r \in Runs, Go(r)
      PROVE  InstancesKept
  <2>1. UNCHANGED <<cron, nextEntry>>
    BY <1>8 DEF Go, Acquire, ValidateDependency, CreateLog, StartProcess,
      AddTaskRunningIns, Exit, Wake, AfterRun, Cleanup, Panic, Unchanged4Run
  <2>2. CASE inst' = inst
    BY <1>1, <2>1, <2>2
  <2>3. CASE inst' # inst /\ AddTaskRunningIns(r)
    <3>1. PICK e \in EntryId : inst' = [inst EXCEPT ![e].running = @ \cup {run[r].log}]
      BY <2>3 DEF AddTaskRunningIns, TypeOK, WellFormed
    <3>2. QED
      BY <1>3, <2>1, <3>1
  <2>4. CASE inst' # inst /\ Cleanup(r)
    <3>1. PICK e \in EntryId : inst' = [inst EXCEPT ![e].running = @ \ {run[r].log}]
      BY <2>4 DEF Cleanup, TypeOK, WellFormed
    <3>2. QED
      BY <1>3, <2>1, <3>1
  <2>5. QED
    BY <1>8, <2>2, <2>3, <2>4 DEF Go, Acquire, ValidateDependency, CreateLog,
      StartProcess, Exit, Wake, AfterRun, Panic
<1>9. CASE UNCHANGED vars
  BY <1>1, <1>9 DEF vars
<1>10. QED
  BY <1>4, <1>5, <1>6, <1>7, <1>8, <1>9 DEF Next, Crash

(* A run is what it was started as, or just fired, or has no entry.        *)
RunKept(r) ==
  run'[r].pc # "free" =>
    \/ /\ run[r].pc # "free" /\ run'[r].entry = run[r].entry
       /\ run'[r].cfg = run[r].cfg /\ run'[r].task = run[r].task
    \/ /\ run'[r].entry \in cron /\ run'[r].cfg = inst[run'[r].entry].cfg
       /\ run'[r].task = inst[run'[r].entry].task
    \/ run'[r].entry = NoEntry

LEMMA RunsKeptNext ==
  ASSUME TypeOK, WellFormed, [Next]_vars, ~ServerDies, NEW r \in Runs
  PROVE  RunKept(r)
<1>1. CASE UNCHANGED run
  BY <1>1 DEF RunKept
<1>2. ASSUME NEW h \in Handlers, Request(h) \/ Serve(h)
      PROVE  RunKept(r)
  BY <1>2, RequestSparesRuns DEF RunKept
<1>3. ASSUME NEW s \in Runs, NEW e \in EntryId, Tick(s, e)
      PROVE  RunKept(r)
  <2>1. e \in cron /\ \E pc \in {"check", "wait"} : Spawn(s, pc, e, inst[e].task, inst[e].cfg)
    BY <1>3 DEF Tick
  <2>2. QED
    BY <2>1, SpawnSteps DEF RunKept
<1>4. ASSUME NEW s \in Runs, NEW t \in Tasks, StartOnceTask(s, t)
      PROVE  RunKept(r)
  BY <1>4, SpawnSteps DEF StartOnceTask, RunKept
<1>5. ASSUME NEW s \in Runs, Go(s)
      PROVE  RunKept(r)
  BY <1>5, GoSteps DEF RunShape, RunKept
<1>6. QED
  BY <1>1, <1>2, <1>3, <1>4, <1>5, TransactionSteps DEF Next, Boot, BootLoad, BootDone,
    BootAddTask, Crash, vars

LEMMA FixedNext ==
  ASSUME TypeOK, WellFormed, InstanceFixed, [Next]_vars
  PROVE  InstanceFixed'
<1>1. CASE ServerDies
  BY <1>1 DEF ServerDies, InstanceFixed, NoRun
<1>2. CASE ~ServerDies
  <2>0. nextEntry \in Nat /\ cron \subseteq EntryId
    BY ConstantsAssumption DEF TypeOK, EntryId
  <2>1. InstancesKept
    BY <1>2, InstancesKeptNext
  <2>2. ASSUME NEW e \in cron'
        PROVE  e < nextEntry'
    <3>1. CASE e \in cron
      <4>1. e \in Nat /\ e < nextEntry
        BY <2>0, <3>1 DEF InstanceFixed, EntryId
      <4>2. QED
        BY <2>0, <2>1, <4>1 DEF InstancesKept
    <3>2. CASE e = nextEntry /\ nextEntry' = nextEntry + 1
      BY <2>0, <3>2
    <3>3. QED
      BY <2>1, <3>1, <3>2 DEF InstancesKept
  <2>3. ASSUME NEW r \in Runs, run'[r].pc # "free", run'[r].entry # NoEntry
        PROVE  run'[r].entry < nextEntry' /\ run'[r].cfg = inst'[run'[r].entry].cfg
    <3>1. RunKept(r)
      BY <1>2, RunsKeptNext
    <3>2. /\ run'[r].entry \in EntryId /\ run'[r].entry < nextEntry
          /\ run'[r].cfg = inst[run'[r].entry].cfg
      BY <2>0, <2>3, <3>1 DEF RunKept, InstanceFixed, Once, TypeOK, Run
    <3>3. QED
      BY <2>0, <2>1, <3>2 DEF InstancesKept, EntryId
  <2>4. QED
    BY <2>2, <2>3 DEF InstanceFixed, Once
<1>3. QED
  BY <1>1, <1>2

(* A run that should have a token or mutex.                                *)
Holds(r) == run[r].pc \in Inside /\ ~Once(r) /\ run[r].cfg.strategy # "parallel"

HoldersApart ==
  \A r, s \in Runs : r # s /\ Holds(r) /\ Holds(s) => run[r].entry # run[s].entry

LEMMA ExclusionIsApart ==
  ASSUME InstanceFixed
  PROVE  StrategyExclusion <=> HoldersApart
<1>1. ASSUME NEW r \in Runs, NEW s \in Runs, run[r].entry = run[s].entry, ~Once(r),
             run[r].pc \in Inside, run[s].pc \in Inside
      PROVE  run[r].cfg = run[s].cfg /\ ~Once(s)
  BY <1>1 DEF InstanceFixed, Once, Inside, Working
<1>2. QED
  BY <1>1 DEF StrategyExclusion, HoldersApart, Holds

(* How a step may change the tokens and mutexes.                           *)
SameHolder(s) == Holds(s)' => Holds(s) /\ run'[s].entry = run[s].entry

TokensKept == busy' = busy /\ \A s \in Runs : SameHolder(s)
TokenTaken(r) ==
  /\ run'[r].entry \notin busy
  /\ busy' = busy \cup {run'[r].entry}
  /\ \A s \in Runs : s # r => SameHolder(s)
TokenReturned(r) ==
  /\ busy' = busy \ {run[r].entry}
  /\ ~Holds(r)'
  /\ run[r].pc \in Inside
  /\ \A s \in Runs : s # r => SameHolder(s)

LEMMA TokenSteps ==
  ASSUME TypeOK, InstanceFixed, WrapperHeld, HoldersApart,
         TokensKept \/ \E r \in Runs : TokenTaken(r) \/ TokenReturned(r)
  PROVE  WrapperHeld' /\ HoldersApart'
<1> USE DEF SameHolder
<1>0. /\ WrapperHeld <=> \A r \in Runs : Holds(r) => run[r].entry \in busy
      /\ WrapperHeld' <=> \A r \in Runs : Holds(r)' => run'[r].entry \in busy'
  BY DEF WrapperHeld, Holds
<1>1. CASE TokensKept
  BY <1>0, <1>1 DEF TokensKept, HoldersApart
<1>2. ASSUME NEW r \in Runs, TokenTaken(r)
      PROVE  WrapperHeld' /\ HoldersApart'
  <2>1. \A s \in Runs : s # r /\ Holds(s)' => run'[s].entry \in busy
    BY <1>0, <1>2 DEF TokenTaken
  <2>2. WrapperHeld'
    BY <1>0, <1>2, <2>1 DEF TokenTaken
  <2>3. HoldersApart'
    BY <1>2, <2>1 DEF TokenTaken, HoldersApart
  <2>4. QED
    BY <2>2, <2>3
<1>3. ASSUME NEW r \in Runs, TokenReturned(r)
      PROVE  WrapperHeld' /\ HoldersApart'
  <2>1. ASSUME NEW s \in Runs, s # r, Holds(s)
        PROVE  run[s].entry # run[r].entry
    <3>1. CASE Holds(r)
      BY <2>1, <3>1 DEF HoldersApart
    <3>2. CASE Once(r)
      BY <2>1, <3>2 DEF Holds, Once
    <3>3. CASE ~Once(r) /\ run[r].cfg.strategy = "parallel"
      BY <1>3, <2>1, <3>3 DEF Holds, TokenReturned, InstanceFixed, Once, Inside, Working
    <3>4. QED
      BY <1>3, <3>1, <3>2, <3>3 DEF Holds, TokenReturned
  <2>2. WrapperHeld'
    BY <1>0, <1>3, <2>1 DEF TokenReturned
  <2>3. HoldersApart'
    BY <1>3 DEF TokenReturned, HoldersApart
  <2>4. QED
    BY <2>2, <2>3
<1>4. QED
  BY <1>1, <1>2, <1>3

LEMMA SameRunSameHolder ==
  ASSUME NEW r \in Runs, run'[r].pc \in Inside => run[r].pc \in Inside,
         run'[r].pc # "free" => run'[r].entry = run[r].entry /\ run'[r].cfg = run[r].cfg
  PROVE  SameHolder(r)
BY DEF SameHolder, Holds, Once, Inside, Working

LEMMA TokensSpawn ==
  ASSUME TypeOK, NEW r \in Runs,
         (\E e \in EntryId : Tick(r, e)) \/ (\E t \in Tasks : StartOnceTask(r, t))
  PROVE  TokensKept \/ TokenTaken(r)
<1>0. \A s \in Runs : s # r => SameHolder(s)
  <2>1. PICK pc \in {"check", "wait"} : \E e, t, c : Spawn(r, pc, e, t, c)
    BY DEF Tick, StartOnceTask
  <2>2. QED
    BY <2>1, SpawnSteps, SameRunSameHolder
<1>1. ASSUME NEW t \in Tasks, StartOnceTask(r, t)
      PROVE  TokensKept
  <2>1. run'[r].entry = NoEntry
    BY <1>1, SpawnSteps DEF StartOnceTask
  <2>2. SameHolder(r)
    BY <2>1 DEF SameHolder, Holds, Once
  <2>3. QED
    BY <1>0, <1>1, <2>2 DEF StartOnceTask, TokensKept
<1>2. ASSUME NEW e \in EntryId, Tick(r, e)
      PROVE  TokensKept \/ TokenTaken(r)
  <2> DEFINE i == inst[e]
  <2>1. CASE i.cfg.strategy = "parallel" /\ Spawn(r, "check", e, i.task, i.cfg) /\ UNCHANGED busy
    <3>1. SameHolder(r)
      BY <2>1, SpawnSteps DEF SameHolder, Holds
    <3>2. QED
      BY <1>0, <2>1, <3>1 DEF TokensKept
  <2>2. CASE Spawn(r, "check", e, i.task, i.cfg) /\ e \notin busy /\ busy' = busy \cup {e}
    BY <1>0, <2>2, SpawnSteps DEF TokenTaken
  <2>3. CASE Spawn(r, "wait", e, i.task, i.cfg) /\ UNCHANGED busy
    <3>1. run'[r].pc = "wait"
      BY <2>3, SpawnSteps
    <3>2. SameHolder(r)
      BY <3>1 DEF SameHolder, Holds, Inside, Working
    <3>3. QED
      BY <1>0, <2>3, <3>2 DEF TokensKept
  <2>4. QED
    BY <1>2, <2>1, <2>2, <2>3 DEF Tick, Take
<1>3. QED
  BY <1>1, <1>2

LEMMA TokensGo ==
  ASSUME TypeOK, WellFormed, NEW r \in Runs, Go(r), ~ServerDies
  PROVE  TokensKept \/ TokenTaken(r) \/ TokenReturned(r)
<1>0. RunShape(r)
  BY GoSteps
<1>1. \A s \in Runs : s # r => SameHolder(s)
  BY <1>0, SameRunSameHolder DEF RunShape
<1>2. CASE Acquire(r)
  <2>1. run'[r].entry = run[r].entry
    BY <1>2 DEF Acquire, TypeOK, Run
  <2>2. QED
    BY <1>1, <1>2, <2>1 DEF Acquire, Take, TokenTaken
<1>3. CASE Leave(r) /\ ~Acquire(r)
  <2>1. run[r].pc \in Inside
    BY <1>3 DEF Go, ValidateDependency, CreateLog, StartProcess, AddTaskRunningIns, Exit,
      Wake, AfterRun, Cleanup, Panic, Inside, Working
  <2>2. ~Holds(r)'
    BY <1>3 DEF Leave, TypeOK, Holds, NoRun, Inside, Working
  <2>3. QED
    BY <1>1, <1>3, <2>1, <2>2 DEF Leave, TokenReturned
<1>4. CASE ~Acquire(r) /\ ~Leave(r)
  <2>1. SameHolder(r)
    BY <1>0, <1>4, SameRunSameHolder DEF RunShape
  <2>2. busy' = busy
    BY <1>4 DEF Go, ValidateDependency, CreateLog, StartProcess, AddTaskRunningIns, Exit,
      Wake, AfterRun, Cleanup, Panic
  <2>3. QED
    BY <1>1, <2>1, <2>2 DEF TokensKept
<1>5. QED
  BY <1>2, <1>3, <1>4

LEMMA TokensNext ==
  ASSUME TypeOK, WellFormed, [Next]_vars, ~ServerDies
  PROVE  TokensKept \/ \E r \in Runs : TokenTaken(r) \/ TokenReturned(r)
<1>1. CASE busy' = busy /\ run' = run
  BY <1>1 DEF TokensKept, SameHolder, Holds, Once
<1>2. ASSUME NEW h \in Handlers, Request(h) \/ Serve(h)
      PROVE  TokensKept
  <2>1. \A r \in Runs : SameHolder(r)
    BY <1>2, RequestSparesRuns, SameRunSameHolder
  <2>2. busy' = busy
    BY <1>2 DEF Request, Serve, StopTask, StartTask, EditTask, AddTask, Save,
      SyncTaskToNode, AddTaskCheck, AddTaskLoad, AddTaskJob, AddTaskPublish,
      DeleteTaskRemove, DeleteTaskKill, DeleteTaskUnlist, DeleteTaskUnlistAgain,
      memoryVars, PushTask, CreateReport, AgentReportTaskResult
  <2>3. QED
    BY <2>1, <2>2 DEF TokensKept
<1>3. CASE Boot \/ Transaction \/ UNCHANGED vars
  BY <1>1, <1>3, TransactionSteps DEF Boot, BootLoad, BootDone, BootAddTask, memoryVars, vars
<1>4. QED
  BY <1>2, <1>3, TokensSpawn, TokensGo DEF Next, Crash

LEMMA WrapperCorrect == Spec => [](InstanceFixed /\ WrapperHeld /\ HoldersApart)
<1>1. Init => InstanceFixed /\ WrapperHeld /\ HoldersApart
  BY DEF Init, InstanceFixed, WrapperHeld, HoldersApart, Holds, NoRun, Inside, Working
<1>2. ASSUME TypeOK, WellFormed, InstanceFixed, WrapperHeld, HoldersApart, [Next]_vars
      PROVE  WrapperHeld' /\ HoldersApart'
  <2>1. CASE ServerDies
    <3>1. \A r \in Runs : run'[r] = NoRun
      BY <2>1 DEF ServerDies
    <3>2. QED
      BY <3>1 DEF WrapperHeld, HoldersApart, Holds, NoRun, Inside, Working
  <2>2. CASE ~ServerDies
    BY <1>2, <2>2, TokensNext, TokenSteps
  <2>3. QED
    BY <2>1, <2>2
<1>3. TypeOK /\ WellFormed /\ InstanceFixed /\ WrapperHeld /\ HoldersApart /\ [Next]_vars
        => InstanceFixed' /\ WrapperHeld' /\ HoldersApart'
  BY <1>2, FixedNext
<1>4. QED
  BY <1>1, <1>3, Shape, PTL DEF Spec

(* Two runs of a skip or delay entry are never past the wrapper together.  *)
THEOREM StrategiesExclude == Spec => []StrategyExclusion
<1>1. InstanceFixed /\ HoldersApart => StrategyExclusion
  BY ExclusionIsApart
<1>2. QED
  BY <1>1, WrapperCorrect, PTL

(* Run r is past the wrapper of entry e.                                   *)
WorksFor(r, e) == run[r].pc \in Inside /\ run[r].entry = e

(* A step of a cron goroutine leaves it at work, or gives its token back.  *)
LEMMA WorkGoesOn ==
  ASSUME TypeOK, WellFormed, NEW r \in Runs, Go(r), ~ServerDies
  PROVE  \/ run'[r].pc \in Inside /\ run'[r].entry = run[r].entry
         \/ Leave(r)
         \/ Once(r)
<1> USE DEF Inside, Working
<1>1. ASSUME run'[r].pc # "free"
      PROVE  run'[r].pc \in Inside /\ run'[r].entry = run[r].entry
  <2>1. run'[r].pc # "wait" /\ run'[r].entry = run[r].entry
    BY <1>1, GoSteps DEF RunShape
  <2>2. run'[r].pc \in {"free", "wait"} \cup Inside
    BY GoType DEF TypeOK, Run
  <2>3. QED
    BY <1>1, <2>1, <2>2
<1>2. ASSUME run'[r].pc = "free", ~Once(r)
      PROVE  Leave(r)
  <2>1. CASE Acquire(r)
    BY <1>2, <2>1 DEF Acquire, TypeOK, Run
  <2>2. CASE ValidateDependency(r)
    BY <1>2, <2>2 DEF ValidateDependency, TypeOK, Run
  <2>3. CASE CreateLog(r)
    BY <1>2, <2>3, LoopType DEF CreateLog, TypeOK, Run
  <2>4. CASE StartProcess(r)
    BY <1>2, <2>4 DEF StartProcess, AfterFailure, TypeOK, Run
  <2>5. CASE AddTaskRunningIns(r)
    BY <1>2, <2>5 DEF AddTaskRunningIns, TypeOK, Run
  <2>6. ASSUME NEW ok \in BOOLEAN, Exit(r, ok)
        PROVE  FALSE
    <3>1. run'[r].pc \in {"after", "sleep"}
      BY <2>6 DEF Exit, AfterFailure, TypeOK, Run
    <3>2. QED
      BY <1>2, <3>1
  <2>7. CASE Wake(r)
    BY <1>2, <2>7, LoopType DEF Wake, TypeOK, Run
  <2>8. CASE AfterRun(r)
    <3>1. run'[r].pc = "cleanup"
      BY <1>2, <2>8 DEF AfterRun, TypeOK, Run
    <3>2. QED
      BY <1>2, <3>1
  <2>9. CASE Cleanup(r) \/ Panic(r)
    BY <2>9 DEF Cleanup, Panic
  <2>10. QED
    BY <2>1, <2>2, <2>3, <2>4, <2>5, <2>6, <2>7, <2>8, <2>9 DEF Go
<1>3. QED
  BY <1>1, <1>2

LEMMA TokenHeldGo ==
  ASSUME TypeOK, WellFormed, NoTokenLost, NEW r \in Runs, Go(r), ~ServerDies,
         NEW e \in busy'
  PROVE  \E s \in Runs : WorksFor(s, e)'
<1>0. \A s \in Runs : s # r => run'[s] = run[s]
  BY GoSteps DEF RunShape
<1>1. CASE Acquire(r) /\ e = run[r].entry
  <2>1. run'[r].pc = "check" /\ run'[r].entry = e
    BY <1>1 DEF Acquire, TypeOK, Run
  <2>2. QED
    BY <2>1 DEF WorksFor, Inside
<1>2. CASE ~(Acquire(r) /\ e = run[r].entry)
  <2>1. e \in busy /\ (Leave(r) => e # run[r].entry)
    BY <1>2 DEF Leave, Go, Acquire, Take, ValidateDependency, CreateLog, StartProcess,
      AddTaskRunningIns, Exit, Wake, AfterRun, Cleanup, Panic
  <2>2. PICK s \in Runs : WorksFor(s, e)
    BY <2>1 DEF NoTokenLost, WorksFor
  <2>3. CASE s # r
    BY <1>0, <2>2, <2>3 DEF WorksFor
  <2>4. CASE s = r
    <3>1. ~Once(r)
      BY <2>1, <2>2, <2>4 DEF WorksFor, Once, TypeOK, EntryId, NoEntry
    <3>2. QED
      BY <2>1, <2>2, <2>4, <3>1, WorkGoesOn DEF WorksFor
  <2>5. QED
    BY <2>3, <2>4
<1>3. QED
  BY <1>1, <1>2

LEMMA TokenHeldNext ==
  ASSUME TypeOK, WellFormed, NoTokenLost, [Next]_vars
  PROVE  NoTokenLost'
<1>0. SUFFICES ASSUME NEW e \in busy'
               PROVE  \E s \in Runs : WorksFor(s, e)'
  BY DEF NoTokenLost, WorksFor
<1>1. CASE ServerDies
  BY <1>1 DEF ServerDies
<1>2. ASSUME e \in busy, \A s \in Runs : WorksFor(s, e) => WorksFor(s, e)'
      PROVE  \E s \in Runs : WorksFor(s, e)'
  BY <1>2 DEF NoTokenLost, WorksFor
<1>3. CASE busy' = busy /\ run' = run
  BY <1>2, <1>3 DEF WorksFor
<1>4. ASSUME NEW h \in Handlers, Request(h) \/ Serve(h)
      PROVE  \E s \in Runs : WorksFor(s, e)'
  <2>1. busy' = busy
    BY <1>4 DEF Request, Serve, StopTask, StartTask, EditTask, AddTask, Save,
      SyncTaskToNode, AddTaskCheck, AddTaskLoad, AddTaskJob, AddTaskPublish,
      DeleteTaskRemove, DeleteTaskKill, DeleteTaskUnlist, DeleteTaskUnlistAgain,
      memoryVars, PushTask, CreateReport, AgentReportTaskResult
  <2>2. QED
    BY <1>2, <1>4, <2>1, RequestSparesRuns DEF WorksFor
<1>5. ASSUME NEW r \in Runs, NEW d \in EntryId, Tick(r, d)
      PROVE  \E s \in Runs : WorksFor(s, e)'
  <2>1. PICK pc \in {"check", "wait"} :
          /\ Spawn(r, pc, d, inst[d].task, inst[d].cfg)
          /\ run[r].pc = "free"
          /\ busy' = busy \/ (busy' = busy \cup {d} /\ pc = "check")
    BY <1>5 DEF Tick, Take
  <2>2. CASE e \in busy
    <3>1. \A s \in Runs : WorksFor(s, e) => s # r
      BY <2>1 DEF WorksFor, Inside, Working
    <3>2. QED
      BY <1>2, <2>1, <2>2, <3>1, SpawnSteps DEF WorksFor
  <2>3. CASE e \notin busy
    <3>1. run'[r].pc = "check" /\ run'[r].entry = e
      BY <2>1, <2>3, SpawnSteps
    <3>2. QED
      BY <3>1 DEF WorksFor, Inside
  <2>4. QED
    BY <2>2, <2>3
<1>6. ASSUME NEW r \in Runs, NEW t \in Tasks, StartOnceTask(r, t)
      PROVE  \E s \in Runs : WorksFor(s, e)'
  <2>1. /\ Spawn(r, "check", NoEntry, t, row[t].cfg)
        /\ run[r].pc = "free" /\ busy' = busy
    BY <1>6 DEF StartOnceTask
  <2>2. \A s \in Runs : WorksFor(s, e) => s # r
    BY <2>1 DEF WorksFor, Inside, Working
  <2>3. QED
    BY <1>2, <2>1, <2>2, SpawnSteps DEF WorksFor
<1>7. CASE Boot \/ Transaction \/ UNCHANGED vars
  BY <1>3, <1>7, TransactionSteps DEF Boot, BootLoad, BootDone, BootAddTask, memoryVars, vars
<1>8. QED
  BY <1>1, <1>4, <1>5, <1>6, <1>7, TokenHeldGo DEF Next, Crash

(* Whoever took a token or mutex is still at work.                         *)
THEOREM TokensAreHeld == Spec => []NoTokenLost
<1>1. Init => NoTokenLost
  BY DEF Init, NoTokenLost
<1>2. TypeOK /\ WellFormed /\ NoTokenLost /\ [Next]_vars => NoTokenLost'
  BY TokenHeldNext
<1>3. QED
  BY <1>1, <1>2, Shape, PTL DEF Spec

-----------------------------------------------------------------------------
(***************************************************************************)
(* The attempts of a run.                                                  *)
(***************************************************************************)
(* The attempts the loop of handler.go makes: execTimes, which is less     *)
(* than one for RetryTimes 127.                                            *)
Made(r) == IF Once(r) THEN 1 ELSE IF run[r].cfg.retry = MaxInt8 THEN 0 ELSE run[r].cfg.retry + 1
(* RetryTimes 127 is given to no task.                                     *)
RetryFits == \A r \in Runs : run[r].cfg.retry < MaxInt8

LEMMA MadeType ==
  ASSUME TypeOK, NEW r \in Runs
  PROVE  /\ Made(r) \in Nat
         /\ run[r].tries \in Nat /\ run[r].ok \in BOOLEAN
<1>1. run[r].cfg.retry \in Nat
  BY DEF TypeOK, Run, Config
<1>2. QED
  BY <1>1 DEF Made, TypeOK, Run

(* The loop goes round again exactly while attempts are left.              *)
LEMMA LoopWhileMade ==
  ASSUME TypeOK, NEW r \in Runs, run[r].tries <= Made(r), Once(r) => run[r].tries = 0
  PROVE  Loop(r) = IF run[r].tries < Made(r) THEN "start" ELSE "after"
<1>1. run[r].cfg.retry \in 0..127 /\ run[r].tries \in Nat
  BY DEF TypeOK, Run, Config, MaxInt8
<1>2. CASE Once(r)
  BY <1>2 DEF Loop, Made
<1>3. CASE ~Once(r) /\ run[r].cfg.retry = 127
  <2>1. Made(r) = 0 /\ ExecTimes(run[r].cfg) = -128
    BY <1>3 DEF Made, ExecTimes, Int8, MaxInt8
  <2>2. QED
    BY <1>1, <1>3, <2>1 DEF Loop
<1>4. CASE ~Once(r) /\ run[r].cfg.retry < 127
  <2>1. /\ Made(r) = run[r].cfg.retry + 1
        /\ ExecTimes(run[r].cfg) = 1 + run[r].cfg.retry
    BY <1>1, <1>4 DEF Made, ExecTimes, Int8, MaxInt8
  <2>2. QED
    BY <1>1, <1>4, <2>1 DEF Loop
<1>5. QED
  BY <1>1, <1>2, <1>3, <1>4

(* Where a goroutine may go from where it is, and what it has then.        *)
Ends(r) == run'[r].pc = "free" /\ run[r].pc \in {"create", "after", "cleanup"}
Goes(r) ==
  /\ run[r].pc # "free" /\ run'[r].entry = run[r].entry /\ run'[r].cfg = run[r].cfg
  /\ run[r].pc # "start" => run'[r].tries = run[r].tries
  /\ run[r].pc \notin {"check", "create", "running"} => run'[r].ok = run[r].ok
  /\ \/ run[r].pc = "wait" /\ run'[r].pc = "check"
     \/ run[r].pc = "check" /\ run'[r].pc = "create"
     \/ run[r].pc = "create" /\ run'[r].pc = Loop(r) /\ ~run'[r].ok
     \/ /\ run[r].pc = "start" /\ run'[r].pc \in {"register", AfterFailure(r)}
        /\ run'[r].tries = run[r].tries + 1
     \/ run[r].pc = "register" /\ run'[r].pc = "running"
     \/ /\ run[r].pc = "running" /\ run'[r].ok \in BOOLEAN
        /\ run'[r].pc = IF run'[r].ok THEN "after" ELSE AfterFailure(r)
     \/ run[r].pc = "sleep" /\ run'[r].pc = Loop(r)
     \/ /\ run[r].pc = "after" /\ run'[r].pc = "cleanup" /\ run'[r].log = run[r].log
        /\ taskLog'[run[r].log].status = "ended" /\ taskLog'[run[r].log].result = run[r].ok

LEMMA GoGoes ==
  ASSUME TypeOK, WellFormed, NEW r \in Runs, Go(r), ~ServerDies
  PROVE  Ends(r) \/ Goes(r)
<1>0. run \in [Runs -> Run]
  BY DEF TypeOK
<1>1. CASE Acquire(r)
  BY <1>0, <1>1 DEF Acquire, Run, Goes
<1>2. CASE ValidateDependency(r)
  BY <1>0, <1>2 DEF ValidateDependency, Run, Goes
<1>3. CASE CreateLog(r)
  <2>1. CASE Leave(r)
    BY <1>0, <1>3, <2>1 DEF CreateLog, Leave, NoRun, Ends
  <2>2. CASE run' = [run EXCEPT ![r].pc = Loop(r), ![r].log = nextLog, ![r].ok = FALSE]
    BY <1>0, <1>3, <2>2 DEF CreateLog, Run, Goes
  <2>3. QED
    BY <1>3, <2>1, <2>2 DEF CreateLog
<1>4. CASE StartProcess(r)
  BY <1>0, <1>4 DEF StartProcess, Run, Goes
<1>5. CASE AddTaskRunningIns(r)
  BY <1>0, <1>5 DEF AddTaskRunningIns, Run, Goes
<1>6. ASSUME NEW ok \in BOOLEAN, Exit(r, ok)
      PROVE  Goes(r)
  <2>1. run'[r].ok = ok /\ run'[r].pc = IF ok THEN "after" ELSE AfterFailure(r)
    BY <1>0, <1>6 DEF Exit, Run
  <2>2. /\ run'[r].entry = run[r].entry /\ run'[r].cfg = run[r].cfg
        /\ run'[r].tries = run[r].tries /\ run[r].pc = "running"
    BY <1>0, <1>6 DEF Exit, Run
  <2>3. QED
    BY <2>1, <2>2 DEF Goes
<1>7. CASE Wake(r)
  BY <1>0, <1>7 DEF Wake, Run, Goes
<1>8. CASE AfterRun(r)
  <2>1. CASE Once(r)
    BY <1>0, <1>8, <2>1 DEF AfterRun, NoRun, Ends
  <2>2. CASE ~Once(r)
    <3>1. run' = [run EXCEPT ![r] = [run[r] EXCEPT !.pc = "cleanup"]]
      BY <1>8, <2>2 DEF AfterRun
    <3>2. run[r].log \in LogId
      BY <1>8 DEF AfterRun, WellFormed, HasLog, Working
    <3>3. taskLog'[run[r].log].status = "ended" /\ taskLog'[run[r].log].result = run[r].ok
      BY <1>8, <3>2 DEF AfterRun, TypeOK, Line
    <3>4. QED
      BY <1>0, <1>8, <3>1, <3>3 DEF AfterRun, Run, Goes
  <2>3. QED
    BY <2>1, <2>2
<1>9. CASE Cleanup(r) \/ Panic(r)
  BY <1>0, <1>9 DEF Cleanup, Panic, Leave, NoRun, Ends
<1>10. QED
  BY <1>1, <1>2, <1>3, <1>4, <1>5, <1>6, <1>7, <1>8, <1>9 DEF Go

(* The attempts a run has made, wherever it is.                            *)
AttemptsSoFar(r) ==
  /\ run[r].pc \in {"wait", "check", "create"} => run[r].tries = 0
  /\ run[r].pc = "start" => run[r].tries < Made(r)
  /\ run[r].pc \in {"register", "running", "sleep"} => run[r].tries \in 1..Made(r)
  /\ run[r].pc \in {"start", "register", "running", "sleep"} => ~run[r].ok
  /\ run[r].pc = "sleep" => ~Once(r)
  /\ run[r].pc \in {"after", "cleanup"} =>
       IF run[r].ok THEN run[r].tries \in 1..Made(r) ELSE run[r].tries = Made(r)

RowHasResult(r) ==
  run[r].pc = "cleanup" =>
    taskLog[run[r].log].status = "ended" /\ taskLog[run[r].log].result = run[r].ok

AttemptInv == \A r \in Runs : AttemptsSoFar(r) /\ RowHasResult(r)

LEMMA AttemptsGo ==
  ASSUME TypeOK, NEW r \in Runs, AttemptsSoFar(r), Goes(r)
  PROVE  AttemptsSoFar(r)'
<1>0. /\ Made(r) \in Nat /\ run[r].tries \in Nat /\ run[r].ok \in BOOLEAN
      /\ Once(r) => Made(r) = 1
  BY MadeType DEF Made
<1>1. Made(r)' = Made(r) /\ (Once(r)' <=> Once(r))
  BY DEF Goes, Made, Once
<1> USE DEF AttemptsSoFar
<1>2. CASE run[r].pc \in {"wait", "check"}
  BY <1>0, <1>1, <1>2 DEF Goes
<1>3. CASE run[r].pc \in {"create", "sleep"}
  <2>1. Loop(r) = IF run[r].tries < Made(r) THEN "start" ELSE "after"
    BY <1>0, <1>3, LoopWhileMade
  <2>2. run'[r].pc = Loop(r) /\ run'[r].tries = run[r].tries /\ ~run'[r].ok
    BY <1>3 DEF Goes
  <2>3. QED
    BY <1>0, <1>1, <1>3, <2>1, <2>2
<1>4. CASE run[r].pc = "start"
  <2>1. /\ run'[r].tries = run[r].tries + 1 /\ ~run'[r].ok
        /\ run'[r].pc \in {"register", AfterFailure(r)}
    BY <1>4 DEF Goes
  <2>2. AfterFailure(r) = IF Once(r) THEN "after" ELSE "sleep"
    BY DEF AfterFailure
  <2>3. QED
    BY <1>0, <1>1, <1>4, <2>1, <2>2
<1>5. CASE run[r].pc = "register"
  BY <1>0, <1>1, <1>5 DEF Goes
<1>6. CASE run[r].pc = "running"
  <2>1. /\ run'[r].tries = run[r].tries /\ run'[r].ok \in BOOLEAN
        /\ run'[r].pc = IF run'[r].ok THEN "after" ELSE AfterFailure(r)
    BY <1>6 DEF Goes
  <2>2. AfterFailure(r) = IF Once(r) THEN "after" ELSE "sleep"
    BY DEF AfterFailure
  <2>3. QED
    BY <1>0, <1>1, <1>6, <2>1, <2>2
<1>7. CASE run[r].pc \in {"after", "cleanup"}
  BY <1>0, <1>1, <1>7 DEF Goes
<1>8. QED
  BY <1>2, <1>3, <1>4, <1>5, <1>6, <1>7 DEF Goes

(* A run that a step does not move.                                        *)
Stands(r) ==
  /\ run'[r].pc = run[r].pc /\ run'[r].entry = run[r].entry /\ run'[r].cfg = run[r].cfg
  /\ run'[r].log = run[r].log /\ run'[r].tries = run[r].tries /\ run'[r].ok = run[r].ok

(* A run that a step begins.                                               *)
Begins(r) ==
  /\ run[r].pc = "free" /\ run'[r].pc \in {"wait", "check"}
  /\ run'[r].tries = 0

(* What a step does to a run.                                              *)
LEMMA RunStep ==
  ASSUME TypeOK, WellFormed, [Next]_vars, NEW r \in Runs
  PROVE  \/ Stands(r)
         \/ Begins(r)
         \/ ServerDies /\ run'[r].pc = "free"
         \/ Go(r) /\ (Ends(r) \/ Goes(r))
<1>1. CASE run'[r] = run[r]
  BY <1>1 DEF Stands
<1>2. CASE ServerDies
  BY <1>2 DEF ServerDies, NoRun
<1>3. ASSUME NEW h \in Handlers, Request(h) \/ Serve(h)
      PROVE  Stands(r)
  BY <1>3, RequestSparesRuns DEF Stands
<1>4. ASSUME NEW s \in Runs, NEW pc \in {"check", "wait"}, NEW e, NEW t, NEW c,
             run[s].pc = "free", Spawn(s, pc, e, t, c)
      PROVE  run'[r] = run[r] \/ Begins(r)
  <2>1. CASE s # r
    BY <1>4, <2>1, SpawnSteps
  <2>2. CASE s = r
    <3>1. run'[r] = [NoRun EXCEPT !.pc = pc, !.entry = e, !.task = t, !.cfg = c]
      BY <1>4, <2>2 DEF Spawn, TypeOK
    <3>2. run'[r].pc = pc /\ run'[r].tries = 0
      BY <3>1 DEF NoRun
    <3>3. QED
      BY <1>4, <2>2, <3>2 DEF Begins
  <2>3. QED
    BY <2>1, <2>2
<1>5. ASSUME NEW s \in Runs,
             \/ \E e \in EntryId : Tick(s, e)
             \/ \E t \in Tasks : StartOnceTask(s, t)
      PROVE  run'[r] = run[r] \/ Begins(r)
  BY <1>4, <1>5 DEF Tick, StartOnceTask
<1>6. ASSUME NEW s \in Runs, Go(s), ~ServerDies
      PROVE  run'[r] = run[r] \/ (Go(r) /\ (Ends(r) \/ Goes(r)))
  BY <1>6, GoSteps, GoGoes DEF RunShape
<1>7. CASE Boot \/ Transaction \/ UNCHANGED vars
  BY <1>1, <1>7, TransactionSteps DEF Boot, BootLoad, BootDone, BootAddTask, vars
<1>8. QED
  BY <1>1, <1>2, <1>3, <1>5, <1>6, <1>7 DEF Next, Crash

LEMMA AttemptsNext ==
  ASSUME TypeOK, WellFormed, JournalInv, AttemptInv, [Next]_vars
  PROVE  AttemptInv'
<1> SUFFICES ASSUME NEW r \in Runs
             PROVE  AttemptsSoFar(r)' /\ RowHasResult(r)'
  BY DEF AttemptInv
<1>0. AttemptsSoFar(r) /\ RowHasResult(r)
  BY DEF AttemptInv
<1>1. CASE Stands(r)
  <2>1. AttemptsSoFar(r)'
    BY <1>0, <1>1 DEF Stands, AttemptsSoFar, Made, Once
  <2>2. RowHasResult(r)'
    <3>1. ASSUME run[r].pc = "cleanup"
          PROVE  taskLog'[run[r].log] = taskLog[run[r].log]
      BY <1>0, <3>1, EndedRowKept DEF RowHasResult, WellFormed, HasLog
    <3>2. QED
      BY <1>0, <1>1, <3>1 DEF Stands, RowHasResult
  <2>3. QED
    BY <2>1, <2>2
<1>2. CASE Begins(r) \/ run'[r].pc = "free"
  BY <1>2 DEF Begins, AttemptsSoFar, RowHasResult
<1>3. CASE Goes(r)
  <2>1. RowHasResult(r)'
    BY <1>3, LoopType DEF Goes, RowHasResult, AfterFailure
  <2>2. QED
    BY <1>0, <1>3, <2>1, AttemptsGo
<1>4. QED
  BY <1>1, <1>2, <1>3, RunStep DEF Ends

LEMMA AttemptsCorrect == Spec => [](TypeOK /\ WellFormed /\ AttemptInv)
<1>1. Init => AttemptInv
  BY DEF Init, AttemptInv, AttemptsSoFar, RowHasResult, NoRun
<1>2. TypeOK /\ WellFormed /\ JournalInv /\ AttemptInv /\ [Next]_vars => AttemptInv'
  BY AttemptsNext
<1>3. QED
  BY <1>1, <1>2, JournalCorrect, PTL DEF Spec

(* Where no task has RetryTimes 127, a run that fails has made every       *)
(* attempt its task asks for, no run makes more, and the row of a run that *)
(* is past afterRun has its result.                                        *)
THEOREM AttemptsAllMade == Spec /\ []RetryFits => []AttemptsRight
<1>1. TypeOK /\ AttemptInv /\ RetryFits => AttemptsRight
  <2> SUFFICES ASSUME TypeOK, AttemptInv, RetryFits, NEW r \in Runs,
                      run[r].pc \in {"after", "cleanup"}
               PROVE  /\ IF run[r].ok THEN run[r].tries \in 1..Asked(r)
                         ELSE run[r].tries = Asked(r)
                      /\ run[r].pc = "cleanup" =>
                           /\ taskLog[run[r].log].status = "ended"
                           /\ taskLog[run[r].log].result = run[r].ok
    BY DEF AttemptsRight
  <2>1. run[r].cfg.retry # MaxInt8
    BY DEF RetryFits, TypeOK, Run, Config, MaxInt8
  <2>2. Made(r) = Asked(r)
    BY <2>1 DEF Made, Asked
  <2>3. QED
    BY <2>2 DEF AttemptInv, AttemptsSoFar, RowHasResult
<1>2. QED
  BY <1>1, AttemptsCorrect, PTL

(* The most steps a run still has before it: four for every attempt left   *)
(* (start, register, running, sleep), and its beginning and its end.       *)
StepsLeft(r) ==
  LET attempts == 4 * (Made(r) - run[r].tries)
  IN CASE run[r].pc \in {"wait", "register"} -> attempts + 6
       [] run[r].pc \in {"check", "running"} -> attempts + 5
       [] run[r].pc \in {"create", "sleep"}  -> attempts + 4
       [] run[r].pc = "start"   -> attempts + 3
       [] run[r].pc = "after"   -> 2
       [] run[r].pc = "cleanup" -> 1
       [] OTHER -> 0

(* Nothing but a step of its own moves a run, and that brings it nearer to *)
(* its end; or the server dies.                                            *)
NearerToEnd(r) ==
  run[r].pc # "free" =>
    /\ StepsLeft(r) \in 1..(4 * Made(r) + 6)
    /\ Stands(r) \/ StepsLeft(r)' < StepsLeft(r)
    /\ Go(r) => StepsLeft(r)' < StepsLeft(r)

LEMMA StepsLeftType ==
  ASSUME TypeOK, NEW r \in Runs, AttemptsSoFar(r), run[r].pc # "free"
  PROVE  StepsLeft(r) \in 1..(4 * Made(r) + 6)
<1>1. run[r].pc \in {"wait", "check", "create", "start", "register", "running", "sleep",
                    "after", "cleanup"}
  BY DEF TypeOK, Run, Inside, Working
<1>2. Made(r) \in Nat /\ run[r].tries \in Nat
  BY MadeType
<1>3. run[r].pc \in {"wait", "check", "create", "start", "register", "running", "sleep"}
        => run[r].tries <= Made(r)
  BY <1>2 DEF AttemptsSoFar
<1>4. QED
  BY <1>1, <1>2, <1>3 DEF StepsLeft

LEMMA GoesNearer ==
  ASSUME TypeOK, NEW r \in Runs, AttemptsSoFar(r), Ends(r) \/ Goes(r)
  PROVE  StepsLeft(r)' < StepsLeft(r)
<1>0. /\ Made(r) \in Nat /\ run[r].tries \in Nat
      /\ Once(r) => Made(r) = 1
  BY MadeType DEF Made
<1>1. CASE Ends(r)
  <2>1. StepsLeft(r)' = 0
    BY <1>1 DEF Ends, StepsLeft
  <2>2. StepsLeft(r) \in 1..(4 * Made(r) + 6)
    BY <1>1, StepsLeftType DEF Ends
  <2>3. QED
    BY <1>0, <2>1, <2>2
<1>2. CASE Goes(r)
  <2>1. Made(r)' = Made(r)
    BY <1>2 DEF Goes, Made, Once
  <2>2. CASE run[r].pc \in {"wait", "check", "register"}
    <3>1. run'[r].tries = run[r].tries
          /\ \/ run[r].pc = "wait" /\ run'[r].pc = "check"
             \/ run[r].pc = "check" /\ run'[r].pc = "create"
             \/ run[r].pc = "register" /\ run'[r].pc = "running"
      BY <1>2, <2>2 DEF Goes
    <3>2. QED
      BY <1>0, <2>1, <3>1 DEF StepsLeft
  <2>3. CASE run[r].pc \in {"create", "sleep"}
    <3>1. run'[r].tries = run[r].tries /\ run'[r].pc \in {"start", "after"}
      BY <1>2, <2>3, LoopType DEF Goes
    <3>2. run[r].tries <= Made(r)
      BY <1>0, <2>3 DEF AttemptsSoFar
    <3>3. QED
      BY <1>0, <2>1, <2>3, <3>1, <3>2 DEF StepsLeft
  <2>4. CASE run[r].pc = "start"
    <3>1. run'[r].tries = run[r].tries + 1 /\ run'[r].pc \in {"register", "sleep", "after"}
      BY <1>2, <2>4 DEF Goes, AfterFailure
    <3>2. run[r].tries < Made(r)
      BY <2>4 DEF AttemptsSoFar
    <3>3. QED
      BY <1>0, <2>1, <2>4, <3>1, <3>2 DEF StepsLeft
  <2>5. CASE run[r].pc = "running"
    <3>1. run'[r].tries = run[r].tries /\ run'[r].pc \in {"sleep", "after"}
      BY <1>2, <2>5 DEF Goes, AfterFailure
    <3>2. run[r].tries <= Made(r)
      BY <1>0, <2>5 DEF AttemptsSoFar
    <3>3. QED
      BY <1>0, <2>1, <2>5, <3>1, <3>2 DEF StepsLeft
  <2>6. CASE run[r].pc = "after"
    <3>1. run'[r].pc = "cleanup"
      BY <1>2, <2>6 DEF Goes
    <3>2. QED
      BY <2>6, <3>1 DEF StepsLeft
  <2>7. QED
    BY <1>2, <2>2, <2>3, <2>4, <2>5, <2>6 DEF Goes
<1>3. QED
  BY <1>1, <1>2

LEMMA RunNearer ==
  ASSUME TypeOK, WellFormed, AttemptInv, [Next]_vars, NEW r \in Runs
  PROVE  NearerToEnd(r)
<1> SUFFICES ASSUME run[r].pc # "free"
             PROVE  /\ StepsLeft(r) \in 1..(4 * Made(r) + 6)
                    /\ Stands(r) \/ StepsLeft(r)' < StepsLeft(r)
                    /\ Go(r) => StepsLeft(r)' < StepsLeft(r)
  BY DEF NearerToEnd
<1>1. AttemptsSoFar(r) /\ Made(r) \in Nat
  BY MadeType DEF AttemptInv
<1>2. StepsLeft(r) \in 1..(4 * Made(r) + 6)
  BY <1>1, StepsLeftType
<1>3. CASE run'[r].pc = "free"
  <2>1. StepsLeft(r)' = 0
    BY <1>3 DEF StepsLeft
  <2>2. QED
    BY <1>1, <1>2, <2>1
<1>4. CASE run'[r].pc # "free"
  <2>1. Stands(r) \/ (Go(r) /\ (Ends(r) \/ Goes(r)))
    BY <1>4, RunStep DEF Begins
  <2>2. Go(r) => Ends(r) \/ Goes(r)
    <3>1. ServerDies => run'[r].pc = "free"
      BY DEF ServerDies, NoRun
    <3>2. QED
      BY <1>4, <3>1, GoGoes
  <2>3. QED
    BY <1>1, <1>2, <2>1, <2>2, GoesNearer
<1>5. QED
  BY <1>3, <1>4

(* A run has at most 4 * Made(r) + 6 steps of its own, whatever requests, *)
(* kills, other runs and firings come between: the safety half of          *)
(* EveryRunEnds, to which fairness adds that the steps are taken.          *)
THEOREM RunsAreFinite == Spec => [][\A r \in Runs : NearerToEnd(r)]_vars
<1>1. TypeOK /\ WellFormed /\ AttemptInv /\ [Next]_vars
        => [\A r \in Runs : NearerToEnd(r)]_vars
  BY RunNearer
<1>2. QED
  BY <1>1, AttemptsCorrect, PTL DEF Spec

-----------------------------------------------------------------------------
(***************************************************************************)
(* What a request is for, wherever it is.                                  *)
(***************************************************************************)
OnItsWay(h) ==
  req[h].op \in
    CASE req[h].pc \in {"remove", "kill", "unlist", "unlistAgain"} -> {"stop", "edit"}
      [] req[h].pc = "save"                                        -> {"stop", "start", "edit"}
      [] req[h].pc = "sync"                                        -> {"add"}
      [] req[h].pc \in {"check", "load", "job", "publish"}         -> {"start", "edit", "add"}
      [] req[h].pc = "report"                                      -> {"report"}
      [] OTHER                                                     -> {"none"}

LEMMA ResponseEnds ==
  ASSUME TypeOK, NEW h \in Handlers, Respond(h) \/ PushFirst(h)
  PROVE  req'[h].pc \in Aside /\ req'[h].pc # "report" /\ req'[h].op = "none"
BY DEF TypeOK, Respond, PushFirst, Pushing, NoReq, Aside

LEMMA CallIsCheck ==
  ASSUME TypeOK, NEW h \in Handlers, CallAddTask(h)
  PROVE  req'[h].pc = "check" /\ req'[h].op = req[h].op
<1>1. /\ req' = [req EXCEPT ![h] = [NoReq EXCEPT !.pc = "check", !.op = req[h].op,
                                               !.task = req[h].task]]
      /\ req \in [Handlers -> Req]
  BY DEF TypeOK, CallAddTask
<1>2. QED
  BY <1>1 DEF NoReq

LEMMA GotoMoves ==
  ASSUME TypeOK, NEW h \in Handlers, NEW pc, Goto(h, pc)
  PROVE  req'[h].pc = pc /\ req'[h].op = req[h].op
BY DEF TypeOK, Goto, Req

(* Where the code of a request goes from where it is.                      *)
Proceeds(h) ==
  \/ req'[h].pc \in {"idle", "push"} /\ req'[h].op = "none"
  \/ /\ req'[h].op = req[h].op
     /\ \/ req[h].pc = "save" /\ req[h].op = "start" /\ req'[h].pc = "check"
        \/ req[h].pc = "save" /\ req[h].op = "edit" /\ req'[h].pc = "remove"
        \/ req[h].pc = "sync" /\ req'[h].pc = "check"
        \/ req[h].pc = "check" /\ req'[h].pc = "load"
        \/ req[h].pc = "load" /\ req'[h].pc = "job"
        \/ req[h].pc = "job" /\ req'[h].pc = "publish"
        \/ req[h].pc = "remove" /\ req'[h].pc = "kill"
        \/ req[h].pc = "kill" /\ req'[h].pc = "unlist"
        \/ req[h].pc = "unlist" /\ req'[h].pc = "unlistAgain"
        \/ /\ req[h].pc \in {"remove", "unlistAgain"}
           /\ \/ req[h].op = "stop" /\ req'[h].pc = "save"
              \/ req[h].op = "edit" /\ req'[h].pc = "check"

LEMMA DeletedGoesOn ==
  ASSUME TypeOK, NEW h \in Handlers, AfterDelete(h), req[h].pc \in {"remove", "unlistAgain"}
  PROVE  Proceeds(h)
<1>1. CASE req[h].op = "stop" /\ req' = [req EXCEPT ![h].pc = "save", ![h].entry = NoEntry]
  BY <1>1 DEF TypeOK, Req, Proceeds
<1>2. CASE req[h].op = "edit" /\ (CallAddTask(h) \/ Respond(h))
  BY <1>2, ResponseEnds, CallIsCheck DEF Aside, Proceeds
<1>3. QED
  BY <1>1, <1>2 DEF AfterDelete

LEMMA ServeProceeds ==
  ASSUME TypeOK, NEW h \in Handlers, Serve(h)
  PROVE  Proceeds(h)
<1> USE ResponseEnds, CallIsCheck, GotoMoves DEF Proceeds, At, Aside
<1>0. req \in [Handlers -> Req]
  BY DEF TypeOK
<1>1. CASE Save(h)
  BY <1>1 DEF Save
<1>2. CASE SyncTaskToNode(h)
  BY <1>2 DEF SyncTaskToNode
<1>3. CASE AddTaskCheck(h)
  BY <1>3 DEF AddTaskCheck
<1>4. CASE AddTaskLoad(h)
  <2>1. CASE req' = [req EXCEPT ![h].pc = "job", ![h].snap = row[req[h].task]]
    BY <1>0, <1>4, <2>1 DEF AddTaskLoad, Req
  <2>2. QED
    BY <1>4, <2>1 DEF AddTaskLoad, AddTaskReturns
<1>5. CASE AddTaskJob(h)
  BY <1>0, <1>5 DEF AddTaskJob, Req
<1>6. CASE AddTaskPublish(h)
  BY <1>6 DEF AddTaskPublish, AddTaskReturns
<1>7. CASE DeleteTaskRemove(h)
  <2>1. CASE req' = [req EXCEPT ![h].pc = "kill", ![h].entry = TaskList[req[h].task]]
    BY <1>0, <1>7, <2>1 DEF DeleteTaskRemove, Req
  <2>2. QED
    BY <1>7, <2>1, DeletedGoesOn DEF DeleteTaskRemove
<1>8. CASE DeleteTaskKill(h)
  BY <1>8 DEF DeleteTaskKill
<1>9. CASE DeleteTaskUnlist(h)
  BY <1>9 DEF DeleteTaskUnlist
<1>10. CASE DeleteTaskUnlistAgain(h)
  BY <1>10, DeletedGoesOn DEF DeleteTaskUnlistAgain
<1>11. CASE PushTask(h) \/ CreateReport(h)
  BY <1>0, <1>11 DEF PushTask, CreateReport, Respond, NoReq
<1>12. QED
  BY <1>1, <1>2, <1>3, <1>4, <1>5, <1>6, <1>7, <1>8, <1>9, <1>10, <1>11 DEF Serve

LEMMA OnItsWayNext ==
  ASSUME TypeOK, WellFormed, [Next]_vars, NEW h \in Handlers, OnItsWay(h)
  PROVE  OnItsWay(h)'
<1>1. CASE Serve(h)
  BY <1>1, ServeProceeds DEF Proceeds, OnItsWay
<1>2. CASE req'[h] = req[h]
  BY <1>2 DEF OnItsWay
<1>3. CASE Request(h)
  <2>1. ASSUME NEW op \in {"stop", "start", "edit", "add", "report"}, NEW pc, NEW t, NEW snap,
               pc = (CASE op = "stop" -> "remove" [] op = "add" -> "sync"
                       [] op = "report" -> "report" [] OTHER -> "save"),
               Accept(h, op, pc, t, snap)
        PROVE  OnItsWay(h)'
    <3>1. req'[h].op = op /\ req'[h].pc = pc
      BY <2>1 DEF Accept, TypeOK
    <3>2. QED
      BY <2>1, <3>1 DEF OnItsWay
  <2>2. PICK t \in Tasks :
          \/ StopTask(h, t) \/ StartTask(h, t) \/ AgentReportTaskResult(h, t)
          \/ \E c \in Configs, d \in BOOLEAN : EditTask(h, t, c, d) \/ AddTask(h, t, c, d)
    BY <1>3 DEF Request
  <2>3. CASE StopTask(h, t)
    BY <2>1, <2>3 DEF StopTask
  <2>4. CASE StartTask(h, t)
    BY <2>1, <2>4 DEF StartTask
  <2>5. CASE AgentReportTaskResult(h, t)
    BY <2>1, <2>5 DEF AgentReportTaskResult
  <2>6. ASSUME NEW c, NEW d, EditTask(h, t, c, d)
        PROVE  OnItsWay(h)'
    BY <2>1, <2>6 DEF EditTask
  <2>7. ASSUME NEW c, NEW d, AddTask(h, t, c, d)
        PROVE  OnItsWay(h)'
    BY <2>1, <2>7 DEF AddTask
  <2>8. QED
    BY <2>2, <2>3, <2>4, <2>5, <2>6, <2>7
<1>4. CASE ServerDies
  BY <1>4 DEF ServerDies, NoReq, OnItsWay
<1>5. ASSUME NEW g \in Handlers, Request(g) \/ Serve(g), g # h
      PROVE  req'[h] = req[h]
  BY <1>5, RequestSteps DEF RequestShape
<1>6. ASSUME NEW r \in Runs, Go(r), ~ServerDies
      PROVE  req'[h] = req[h]
  BY <1>6 DEF Go, Acquire, ValidateDependency, CreateLog, StartProcess,
    AddTaskRunningIns, Exit, Wake, AfterRun, Cleanup, Panic, Unchanged4Run
<1>7. CASE Boot \/ Transaction \/ UNCHANGED vars
  BY <1>2, <1>7, TransactionSteps DEF Boot, BootLoad, BootDone, BootAddTask, vars
<1>8. ASSUME NEW r \in Runs,
             (\E e \in EntryId : Tick(r, e)) \/ (\E t \in Tasks : StartOnceTask(r, t))
      PROVE  req'[h] = req[h]
  BY <1>8 DEF Tick, StartOnceTask, Unchanged4Run
<1>9. QED
  BY <1>1, <1>2, <1>3, <1>4, <1>5, <1>6, <1>7, <1>8 DEF Next, Crash

LEMMA RequestsOnTheirWay == Spec => []\A h \in Handlers : OnItsWay(h)
<1> DEFINE Inv == \A h \in Handlers : OnItsWay(h)
<1>1. Init => Inv
  BY DEF Init, OnItsWay, NoReq
<1>2. TypeOK /\ WellFormed /\ Inv /\ [Next]_vars => Inv'
  BY OnItsWayNext
<1>3. QED
  BY <1>1, <1>2, Shape, PTL DEF Spec

-----------------------------------------------------------------------------
(***************************************************************************)
(* The instances in TaskList and what is registered in them.               *)
(***************************************************************************)
ListInv == ListedOnce /\ RegisteredRight /\ NoOtherLeak

LEMMA ListInit == Init => ListInv
BY DEF Init, ListInv, ListedOnce, RegisteredRight, NoOtherLeak, NoReq, NoInst

LEMMA ListDies ==
  ASSUME ServerDies
  PROVE  ListInv'
<1>1. /\ \A t \in Tasks : TaskList'[t] = NoEntry
      /\ \A h \in Handlers : req'[h].pc = "idle"
      /\ \A e \in EntryId : inst'[e].running = {}
  BY DEF ServerDies, NoReq, NoInst
<1>2. QED
  BY <1>1 DEF ListInv, ListedOnce, RegisteredRight, NoOtherLeak

(* Only addTaskRunningIns puts anything into an instance.                  *)
RunningKept ==
  \A e \in EntryId :
    /\ inst'[e].running \subseteq inst[e].running
    /\ inst'[e].task = inst[e].task \/ inst'[e].running = {}

LEMMA RunningKeptNext ==
  ASSUME TypeOK, WellFormed, [Next]_vars, ~\E r \in Runs : AddTaskRunningIns(r)
  PROVE  RunningKept
<1> USE DEF RunningKept
<1>0. inst \in [EntryId -> Inst]
  BY DEF TypeOK
<1>1. CASE inst' = inst
  BY <1>1
<1>2. CASE ServerDies
  BY <1>2 DEF ServerDies, NoInst
<1>3. ASSUME NEW t, NEW c,
             inst' = [inst EXCEPT ![nextEntry] = [task |-> t, cfg |-> c, running |-> {}]]
      PROVE  RunningKept
  BY <1>0, <1>3
<1>4. CASE Boot
  BY <1>1, <1>3, <1>4 DEF Boot, BootLoad, BootDone, BootAddTask, cronVars
<1>5. ASSUME NEW h \in Handlers, Request(h) \/ Serve(h)
      PROVE  RunningKept
  <2>1. CASE AddTaskJob(h)
    BY <1>3, <2>1 DEF AddTaskJob
  <2>2. CASE ~AddTaskJob(h)
    BY <1>1, <1>5, <2>2 DEF Request, Serve, StopTask, StartTask, EditTask, AddTask, Save,
      SyncTaskToNode, AddTaskCheck, AddTaskLoad, AddTaskPublish, DeleteTaskRemove,
      DeleteTaskKill, DeleteTaskUnlist, DeleteTaskUnlistAgain, cronVars,
      PushTask, CreateReport, AgentReportTaskResult
  <2>3. QED
    BY <2>1, <2>2
<1>6. ASSUME NEW r \in Runs, Go(r), ~ServerDies
      PROVE  RunningKept
  <2>1. CASE Cleanup(r)
    <3>1. PICK e \in EntryId : inst' = [inst EXCEPT ![e].running = @ \ {run[r].log}]
      BY <2>1 DEF Cleanup, TypeOK, WellFormed
    <3>2. QED
      BY <1>0, <3>1 DEF Inst
  <2>2. CASE ~Cleanup(r)
    BY <1>1, <1>6, <2>2 DEF Go, Acquire, ValidateDependency, CreateLog, StartProcess, Exit,
      Wake, AfterRun, Panic
  <2>3. QED
    BY <2>1, <2>2
<1>7. CASE \/ Transaction
           \/ \E r \in Runs, e \in EntryId : Tick(r, e)
           \/ \E r \in Runs, t \in Tasks : StartOnceTask(r, t)
           \/ UNCHANGED vars
  BY <1>1, <1>7, TransactionSteps DEF Tick, StartOnceTask, cronVars, vars
<1>8. QED
  BY <1>2, <1>4, <1>5, <1>6, <1>7 DEF Next, Crash

(* A goroutine gets a log row only where the code creates one.             *)
LogKept(r) ==
  run'[r].pc \in HasLog =>
    \/ /\ run[r].pc \in HasLog /\ run'[r].log = run[r].log
       /\ run'[r].entry = run[r].entry
    \/ run'[r].log = nextLog

LEMMA LogKeptNext ==
  ASSUME TypeOK, WellFormed, [Next]_vars, NEW r \in Runs
  PROVE  LogKept(r)
<1>1. CASE ServerDies
  BY <1>1 DEF ServerDies, LogKept, NoRun, HasLog, Working
<1>2. CASE run' = run
  BY <1>2 DEF LogKept
<1>3. ASSUME NEW h \in Handlers, Request(h) \/ Serve(h)
      PROVE  LogKept(r)
  BY <1>3, RequestSparesRuns DEF LogKept
<1>4. ASSUME NEW s \in Runs,
             (\E e \in EntryId : Tick(s, e)) \/ (\E t \in Tasks : StartOnceTask(s, t))
      PROVE  LogKept(r)
  <2>1. PICK pc \in {"check", "wait"} : \E e, t, c : Spawn(s, pc, e, t, c)
    BY <1>4 DEF Tick, StartOnceTask
  <2>2. QED
    BY <2>1, SpawnSteps DEF LogKept, HasLog, Working
<1>5. ASSUME NEW s \in Runs, Go(s), ~ServerDies
      PROVE  LogKept(r)
  <2>0. RunShape(s)
    BY <1>5, GoSteps
  <2>1. CASE run[s].pc = "create"
    <3>1. CreateLog(s)
      BY <1>5, <2>1 DEF Go, Acquire, ValidateDependency, StartProcess, AddTaskRunningIns,
        Exit, Wake, AfterRun, Cleanup, Panic
    <3>2. run'[s].pc \in HasLog => run'[s].log = nextLog
      BY <3>1 DEF CreateLog, Leave, TypeOK, NoRun, Run, HasLog, Working
    <3>3. QED
      BY <2>0, <3>2 DEF RunShape, LogKept
  <2>2. CASE run[s].pc # "create"
    BY <2>0, <2>2 DEF RunShape, LogKept, HasLog, Working
  <2>3. QED
    BY <2>1, <2>2
<1>6. CASE Boot \/ Transaction \/ UNCHANGED vars
  BY <1>2, <1>6, TransactionSteps DEF Boot, BootLoad, BootDone, BootAddTask, vars
<1>7. QED
  BY <1>1, <1>3, <1>4, <1>5, <1>6 DEF Next, Crash

LEMMA UncleanedGrows ==
  ASSUME [Next]_vars, ~ServerDies
  PROVE  uncleaned \subseteq uncleaned'
<1>1. ASSUME NEW h \in Handlers, Request(h) \/ Serve(h)
      PROVE  uncleaned' = uncleaned
  BY <1>1 DEF Request, Serve, StopTask, StartTask, EditTask, AddTask, Save, SyncTaskToNode,
    AddTaskCheck, AddTaskLoad, AddTaskJob, AddTaskPublish, DeleteTaskRemove, DeleteTaskKill,
    DeleteTaskUnlist, DeleteTaskUnlistAgain, PushTask, CreateReport, AgentReportTaskResult,
    ghostVars
<1>2. ASSUME NEW r \in Runs, Go(r)
      PROVE  uncleaned \subseteq uncleaned'
  BY <1>2 DEF Go, Acquire, ValidateDependency, CreateLog, StartProcess, AddTaskRunningIns,
    Exit, Wake, AfterRun, Cleanup, Panic, ghostVars
<1>3. QED
  BY <1>1, <1>2, TransactionSteps DEF Next, Boot, BootLoad, BootDone, BootAddTask, Crash, Tick,
    StartOnceTask, ghostVars, vars

(* Rows in the table keep the task they were written for.                  *)
LEMMA RowsKeepTask ==
  ASSUME TypeOK, WellFormed, [Next]_vars, NEW l \in LogId, l < nextLog
  PROVE  taskLog'[l].task = taskLog[l].task /\ l < nextLog'
<1>0. l \in Nat /\ nextLog \in Nat
  BY ConstantsAssumption DEF LogId, TypeOK
<1>1. CASE QuietForJournal \/ ServerDies
  BY <1>1 DEF QuietForJournal, ServerDies, dbVars
<1>2. ASSUME NEW r \in Runs, CreateLog(r)
      PROVE  taskLog'[l].task = taskLog[l].task /\ l < nextLog'
  BY <1>0, <1>2 DEF CreateLog, TypeOK
<1>3. ASSUME NEW r \in Runs, AfterRun(r)
      PROVE  taskLog'[l].task = taskLog[l].task /\ l < nextLog'
  BY <1>3 DEF AfterRun, TypeOK, Line, ghostVars
<1>4. ASSUME NEW h \in Handlers, CreateReport(h)
      PROVE  taskLog'[l].task = taskLog[l].task /\ l < nextLog'
  BY <1>0, <1>4, ReportAdds
<1>5. QED
  BY <1>1, <1>2, <1>3, <1>4, JournalSteps

LEMMA RegisteredRightNext ==
  ASSUME TypeOK, WellFormed, JournalInv, ListInv, [Next]_vars, ~ServerDies
  PROVE  RegisteredRight'
<1>0. RegisteredRight /\ uncleaned \subseteq uncleaned'
  BY UncleanedGrows DEF ListInv
<1> SUFFICES ASSUME NEW e \in EntryId, NEW l \in inst'[e].running
             PROVE  /\ l < nextLog'
                    /\ taskLog'[l].task = inst'[e].task
                    /\ \A r \in Runs : run'[r].pc \in HasLog /\ run'[r].log = l /\ Once(r)'
                                         => l \in uncleaned'
  BY DEF RegisteredRight
<1>1. CASE l \in inst[e].running /\ inst'[e].task = inst[e].task
  <2>1. l \in LogId /\ l < nextLog /\ l # nextLog /\ taskLog[l].task = inst[e].task
    BY <1>0, <1>1, ConstantsAssumption DEF RegisteredRight, TypeOK, Inst, LogId
  <2>2. ASSUME NEW r \in Runs, run'[r].pc \in HasLog, run'[r].log = l, Once(r)'
        PROVE  l \in uncleaned'
    <3>1. run[r].pc \in HasLog /\ run[r].log = l /\ Once(r)
      BY <2>1, <2>2, LogKeptNext DEF LogKept, Once
    <3>2. QED
      BY <1>0, <1>1, <3>1 DEF RegisteredRight
  <2>3. QED
    BY <1>1, <2>1, <2>2, RowsKeepTask
<1>2. ASSUME NEW q \in Runs, AddTaskRunningIns(q), l \notin inst[e].running
      PROVE  /\ l < nextLog'
             /\ taskLog'[l].task = inst'[e].task
             /\ \A r \in Runs : run'[r].pc \in HasLog /\ run'[r].log = l /\ Once(r)'
                                  => l \in uncleaned'
  <2>1. /\ run[q].pc = "register" /\ run[q].pc \in HasLog /\ run[q].task \in Tasks
        /\ run[q].log \in LogId
    BY <1>2 DEF AddTaskRunningIns, HasLog, Working, WellFormed
  <2>2. /\ TaskList[run[q].task] = e /\ e # NoEntry
        /\ l = run[q].log /\ inst'[e].task = inst[e].task
    BY <1>2, <2>1 DEF AddTaskRunningIns, TypeOK, Inst
  <2>3. inst[e].task = run[q].task
    BY <2>1, <2>2 DEF ListInv, ListedOnce
  <2>4. l < nextLog /\ taskLog[l].task = run[q].task
    BY <2>1, <2>2 DEF JournalInv, RunsOwnRows
  <2>5. UNCHANGED <<taskLog, nextLog>>
    BY <1>2 DEF AddTaskRunningIns
  <2>6. ASSUME NEW r \in Runs, run'[r].pc \in HasLog, run'[r].log = l, Once(r)'
        PROVE  l \in uncleaned'
    <3>1. l # nextLog
      BY <2>2, <2>4, ConstantsAssumption, <2>1 DEF LogId, TypeOK
    <3>2. run[r].pc \in HasLog /\ run[r].log = l /\ Once(r)
      BY <2>6, <3>1, LogKeptNext DEF LogKept, Once
    <3>3. r = q
      BY <2>1, <2>2, <3>2 DEF JournalInv, LogRowOwnedOnce
    <3>4. QED
      BY <1>2, <2>2, <3>2, <3>3 DEF AddTaskRunningIns
  <2>7. QED
    BY <2>2, <2>3, <2>4, <2>5, <2>6
<1>3. ASSUME NEW q \in Runs, AddTaskRunningIns(q), l \in inst[e].running
      PROVE  inst'[e].task = inst[e].task
  BY <1>3 DEF AddTaskRunningIns, TypeOK, WellFormed, Inst
<1>4. CASE RunningKept
  BY <1>1, <1>4 DEF RunningKept
<1>5. QED
  BY <1>1, <1>2, <1>3, <1>4, RunningKeptNext

(* Every instance a request is about to list, by its entry.                *)
Listing(h) == req[h].pc = "publish"

LEMMA ListedOnceNext ==
  ASSUME TypeOK, WellFormed, ListedOnce, [Next]_vars, ~ServerDies
  PROVE  ListedOnce'
<1>0. /\ nextEntry \in Nat /\ InstancesKept
      /\ \A t \in Tasks : TaskList[t] \in EntryId \cup {NoEntry}
      /\ \A h \in Handlers : req[h].entry \in EntryId \cup {NoEntry}
  BY InstancesKeptNext, ConstantsAssumption DEF TypeOK, Req
<1>1. ASSUME NEW e \in EntryId, e < nextEntry
      PROVE  e < nextEntry' /\ inst'[e].task = inst[e].task
  BY <1>0, <1>1 DEF InstancesKept, EntryId
<1>2. ASSUME \A t \in Tasks : TaskList'[t] \in {TaskList[t], NoEntry}
      PROVE  \A t \in Tasks : TaskList'[t] # NoEntry =>
               TaskList'[t] < nextEntry' /\ inst'[TaskList'[t]].task = t
  BY <1>0, <1>1, <1>2 DEF ListedOnce
<1>3. ASSUME \A t \in Tasks : TaskList'[t] \in {TaskList[t], NoEntry},
             \A h \in Handlers : Listing(h)' => req'[h] = req[h] /\ inst'[req[h].entry].running = {}
      PROVE  ListedOnce'
  <2>1. ASSUME NEW h \in Handlers, Listing(h)'
        PROVE  /\ req'[h].entry # NoEntry
               /\ req'[h].entry < nextEntry'
               /\ inst'[req'[h].entry].task = req'[h].task
               /\ inst'[req'[h].entry].running = {}
               /\ \A t \in Tasks : TaskList'[t] # req'[h].entry
               /\ \A g \in Handlers : g # h /\ Listing(g)' => req'[g].entry # req'[h].entry
    BY <1>0, <1>1, <1>3, <2>1 DEF ListedOnce, Listing
  <2>2. QED
    BY <1>2, <1>3, <2>1 DEF ListedOnce, Listing
<1>4. ASSUME \A t \in Tasks : TaskList'[t] \in {TaskList[t], NoEntry},
             UNCHANGED inst, \A h \in Handlers : Listing(h)' => req'[h] = req[h]
      PROVE  ListedOnce'
  BY <1>3, <1>4 DEF ListedOnce, Listing
<1>5. ASSUME NEW t \in Tasks, BootAddTask(t)
      PROVE  ListedOnce'
  <2>1. CASE UNCHANGED <<cronVars, TaskList>>
    BY <1>4, <1>5, <2>1 DEF BootAddTask, cronVars
  <2>2. CASE ~UNCHANGED <<cronVars, TaskList>>
    <3>1. /\ nextEntry' = nextEntry + 1 /\ nextEntry \in EntryId /\ nextEntry # NoEntry
          /\ inst' = [inst EXCEPT ![nextEntry] =
                        [task |-> t, cfg |-> row[t].cfg, running |-> {}]]
          /\ TaskList' = [TaskList EXCEPT ![t] = nextEntry]
          /\ req' = req
      BY <1>0, <1>5, <2>2 DEF BootAddTask, EntryId, TypeOK, NoEntry
    <3>2. \A s \in Tasks : TaskList'[s] # NoEntry =>
            TaskList'[s] < nextEntry' /\ inst'[TaskList'[s]].task = s
      <4>1. ASSUME NEW s \in Tasks, s # t, TaskList'[s] # NoEntry
            PROVE  TaskList'[s] < nextEntry' /\ inst'[TaskList'[s]].task = s
        <5>1. TaskList'[s] = TaskList[s]
          BY <3>1, <4>1 DEF TypeOK
        <5>2. QED
          BY <1>0, <1>1, <4>1, <5>1 DEF ListedOnce
      <4>2. TaskList'[t] < nextEntry' /\ inst'[TaskList'[t]].task = t
        <5>1. TaskList'[t] = nextEntry /\ inst'[nextEntry].task = t
          BY <3>1 DEF TypeOK
        <5>2. QED
          BY <1>0, <3>1, <5>1
      <4>3. QED
        BY <4>1, <4>2
    <3>3. ASSUME NEW h \in Handlers, Listing(h)'
          PROVE  /\ req'[h].entry # NoEntry
                 /\ req'[h].entry < nextEntry'
                 /\ inst'[req'[h].entry].task = req'[h].task
                 /\ inst'[req'[h].entry].running = {}
                 /\ \A s \in Tasks : TaskList'[s] # req'[h].entry
                 /\ \A g \in Handlers : g # h /\ Listing(g)' => req'[g].entry # req'[h].entry
      <4>1. /\ req'[h] = req[h] /\ Listing(h) /\ req[h].entry \in EntryId
            /\ req[h].entry < nextEntry /\ req[h].entry # nextEntry
        BY <1>0, <3>1, <3>3 DEF Listing, ListedOnce, EntryId
      <4>2. inst'[req[h].entry] = inst[req[h].entry]
        BY <3>1, <4>1 DEF TypeOK
      <4>3. \A s \in Tasks : TaskList'[s] # req[h].entry
        BY <3>1, <4>1 DEF ListedOnce, Listing, TypeOK
      <4>4. QED
        BY <1>1, <3>1, <4>1, <4>2, <4>3 DEF ListedOnce, Listing
    <3>4. QED
      BY <3>2, <3>3 DEF ListedOnce, Listing
  <2>3. QED
    BY <2>1, <2>2
<1>6. ASSUME NEW h \in Handlers, AddTaskJob(h)
      PROVE  ListedOnce'
  <2>1. /\ nextEntry' = nextEntry + 1 /\ nextEntry \in EntryId /\ nextEntry # NoEntry
        /\ inst'[nextEntry].task = req[h].task /\ inst'[nextEntry].running = {}
        /\ \A e \in EntryId : e # nextEntry => inst'[e] = inst[e]
        /\ TaskList' = TaskList
        /\ req'[h].entry = nextEntry /\ req'[h].task = req[h].task
        /\ \A g \in Handlers : g # h => req'[g] = req[g]
    BY <1>0, <1>6 DEF AddTaskJob, EntryId, TypeOK, NoEntry, Req, memoryVars
  <2>2. \A t \in Tasks : TaskList'[t] # NoEntry =>
          TaskList'[t] < nextEntry' /\ inst'[TaskList'[t]].task = t
    BY <1>2, <2>1
  <2>3. \A t \in Tasks : TaskList[t] # nextEntry
    BY <1>0, <2>1 DEF ListedOnce
  <2>4. ASSUME NEW g \in Handlers, Listing(g), g # h
        PROVE  /\ req[g].entry # NoEntry /\ req[g].entry < nextEntry'
               /\ req[g].entry # nextEntry
               /\ inst'[req[g].entry].task = req[g].task
               /\ inst'[req[g].entry].running = {}
    <3>1. /\ req[g].entry \in EntryId /\ req[g].entry < nextEntry
          /\ inst[req[g].entry].task = req[g].task /\ inst[req[g].entry].running = {}
      BY <1>0, <2>4 DEF ListedOnce, Listing
    <3>2. req[g].entry # nextEntry
      BY <1>0, <3>1
    <3>3. QED
      BY <1>1, <2>1, <2>4, <3>1, <3>2 DEF ListedOnce, Listing
  <2>5. ASSUME NEW g \in Handlers, Listing(g)'
        PROVE  /\ req'[g].entry # NoEntry
               /\ req'[g].entry < nextEntry'
               /\ inst'[req'[g].entry].task = req'[g].task
               /\ inst'[req'[g].entry].running = {}
               /\ \A t \in Tasks : TaskList'[t] # req'[g].entry
               /\ \A k \in Handlers : k # g /\ Listing(k)' => req'[k].entry # req'[g].entry
    <3>1. CASE g = h
      BY <1>0, <2>1, <2>3, <2>4, <3>1 DEF Listing
    <3>2. CASE g # h
      BY <2>1, <2>4, <2>5, <3>2 DEF ListedOnce, Listing
    <3>3. QED
      BY <3>1, <3>2
  <2>6. QED
    BY <2>2, <2>5 DEF ListedOnce, Listing
<1>7. ASSUME NEW h \in Handlers, AddTaskPublish(h)
      PROVE  ListedOnce'
  <2>1. /\ Listing(h) /\ ~Listing(h)' /\ inst' = inst
        /\ req[h].task \in Tasks
        /\ \A g \in Handlers : g # h => req'[g] = req[g]
        /\ TaskList'[req[h].task] = req[h].entry
        /\ \A t \in Tasks : t # req[h].task => TaskList'[t] = TaskList[t]
    BY <1>7 DEF AddTaskPublish, AddTaskReturns, At, Respond, PushFirst, Pushing, Listing, TypeOK,
      NoReq, cronVars, WellFormed
  <2>2. ASSUME NEW t \in Tasks, TaskList'[t] # NoEntry
        PROVE  TaskList'[t] < nextEntry' /\ inst'[TaskList'[t]].task = t
    BY <1>0, <1>1, <2>1, <2>2 DEF ListedOnce, Listing
  <2>3. ASSUME NEW g \in Handlers, Listing(g)'
        PROVE  /\ req'[g].entry # NoEntry
               /\ req'[g].entry < nextEntry'
               /\ inst'[req'[g].entry].task = req'[g].task
               /\ inst'[req'[g].entry].running = {}
               /\ \A t \in Tasks : TaskList'[t] # req'[g].entry
               /\ \A k \in Handlers : k # g /\ Listing(k)' => req'[k].entry # req'[g].entry
    <3>1. g # h /\ Listing(g) /\ req'[g] = req[g]
      BY <2>1, <2>3 DEF Listing
    <3>2. req[g].entry < nextEntry'
      BY <1>0, <1>1, <3>1 DEF ListedOnce, Listing
    <3>3. req[g].entry # req[h].entry
      BY <2>1, <3>1 DEF ListedOnce, Listing
    <3>4. QED
      BY <2>1, <3>1, <3>2, <3>3 DEF ListedOnce, Listing
  <2>4. QED
    BY <2>2, <2>3 DEF ListedOnce, Listing
<1>8. ASSUME NEW h \in Handlers, Request(h) \/ Serve(h), ~AddTaskJob(h), ~AddTaskPublish(h)
      PROVE  ListedOnce'
  <2>1. inst' = inst
    BY <1>8 DEF Request, Serve, StopTask, StartTask, EditTask, AddTask, Save,
      SyncTaskToNode, AddTaskCheck, AddTaskLoad, DeleteTaskRemove,
      DeleteTaskKill, DeleteTaskUnlist, DeleteTaskUnlistAgain, cronVars,
      PushTask, CreateReport, AgentReportTaskResult
  <2>2. \A t \in Tasks : TaskList'[t] \in {TaskList[t], NoEntry}
    <3>1. CASE TaskList' = TaskList
      BY <3>1
    <3>2. CASE TaskList' = [TaskList EXCEPT ![req[h].task] = NoEntry]
      BY <3>2 DEF TypeOK
    <3>3. QED
      BY <1>8, <3>1, <3>2 DEF Request, Serve, StopTask, StartTask, EditTask, AddTask, Save,
        SyncTaskToNode, AddTaskCheck, AddTaskLoad, DeleteTaskRemove,
        DeleteTaskKill, DeleteTaskUnlist, DeleteTaskUnlistAgain, memoryVars,
        PushTask, CreateReport, AgentReportTaskResult
  <2>3. RequestShape(h)
    BY <1>8, RequestSteps
  <2>4. ~Listing(h)'
    <3>1. CASE req[h].pc = "job"
      BY <1>8, <3>1 DEF Request, Idle, StopTask, StartTask, EditTask, AddTask, Serve, At, Save,
        SyncTaskToNode, AddTaskCheck, AddTaskLoad, AddTaskPublish,
        DeleteTaskRemove, DeleteTaskKill, DeleteTaskUnlist, DeleteTaskUnlistAgain,
        PushTask, CreateReport, AgentReportTaskResult
    <3>2. QED
      BY <2>3, <3>1 DEF RequestShape, Listing
  <2>5. QED
    BY <1>4, <2>1, <2>2, <2>3, <2>4 DEF RequestShape
<1>9. ASSUME NEW r \in Runs, Go(r)
      PROVE  ListedOnce'
  <2>1. UNCHANGED <<TaskList, req>>
    BY <1>9 DEF Go, Acquire, ValidateDependency, CreateLog, StartProcess, AddTaskRunningIns,
      Exit, Wake, AfterRun, Cleanup, Panic, Unchanged4Run
  <2>2. ASSUME NEW q \in Runs, AddTaskRunningIns(q)
        PROVE  ListedOnce'
    <3>1. \A h \in Handlers : Listing(h) => inst'[req[h].entry].running = {}
      <4>1. run[q].task \in Tasks
        BY <2>2 DEF AddTaskRunningIns, WellFormed
      <4>2. ASSUME NEW h \in Handlers, Listing(h)
            PROVE  inst'[req[h].entry] = inst[req[h].entry]
        BY <1>0, <2>2, <4>1, <4>2 DEF AddTaskRunningIns, ListedOnce, Listing, TypeOK
      <4>3. QED
        BY <4>2 DEF ListedOnce, Listing
    <3>2. QED
      BY <1>3, <2>1, <3>1 DEF Listing
  <2>3. CASE ~\E q \in Runs : AddTaskRunningIns(q)
    <3>1. RunningKept
      BY <2>3, RunningKeptNext
    <3>2. \A h \in Handlers : Listing(h) => inst'[req[h].entry].running = {}
      BY <1>0, <3>1 DEF RunningKept, ListedOnce, Listing
    <3>3. QED
      BY <1>3, <2>1, <3>2 DEF Listing
  <2>4. QED
    BY <2>2, <2>3
<1>10. CASE \/ BootLoad \/ BootDone
            \/ Transaction
            \/ \E r \in Runs, e \in EntryId : Tick(r, e)
            \/ \E r \in Runs, t \in Tasks : StartOnceTask(r, t)
            \/ UNCHANGED vars
  <2>1. UNCHANGED <<inst, TaskList, req>>
    BY <1>10, TransactionSteps DEF BootLoad, BootDone, Tick, StartOnceTask, Unchanged4Run,
      cronVars, memoryVars, vars
  <2>2. QED
    BY <1>4, <2>1 DEF Listing
<1>11. QED
  BY <1>5, <1>6, <1>7, <1>8, <1>9, <1>10 DEF Next, Boot, Crash

(* An instance is empty when it is listed.                                 *)
LEMMA ListedEmpty ==
  ASSUME TypeOK, WellFormed, ListedOnce, [Next]_vars, ~ServerDies, NEW t \in Tasks,
         TaskList'[t] # NoEntry, TaskList'[t] # TaskList[t]
  PROVE  inst'[TaskList'[t]].running = {}
<1>1. ASSUME NEW s \in Tasks, BootAddTask(s)
      PROVE  inst'[TaskList'[t]].running = {}
  <2>1. /\ TaskList'[t] = nextEntry /\ nextEntry \in EntryId
        /\ inst'[nextEntry].running = {}
    BY <1>1, ConstantsAssumption DEF BootAddTask, TypeOK, EntryId
  <2>2. QED
    BY <2>1
<1>2. ASSUME NEW h \in Handlers, AddTaskPublish(h)
      PROVE  inst'[TaskList'[t]].running = {}
  <2>1. TaskList'[t] = req[h].entry /\ inst' = inst /\ Listing(h)
    BY <1>2 DEF AddTaskPublish, At, Listing, TypeOK, cronVars
  <2>2. QED
    BY <2>1 DEF ListedOnce, Listing
<1>3. CASE (\E s \in Tasks : BootAddTask(s)) \/ (\E h \in Handlers : AddTaskPublish(h))
  BY <1>1, <1>2, <1>3
<1>4. CASE ~(\E s \in Tasks : BootAddTask(s)) /\ ~(\E h \in Handlers : AddTaskPublish(h))
  <2>1. CASE UNCHANGED TaskList
    BY <2>1
  <2>2. ASSUME NEW h \in Handlers, TaskList' = [TaskList EXCEPT ![req[h].task] = NoEntry]
        PROVE  FALSE
    BY <2>2 DEF TypeOK
  <2>3. ASSUME NEW h \in Handlers, Request(h) \/ Serve(h)
        PROVE  UNCHANGED TaskList \/ TaskList' = [TaskList EXCEPT ![req[h].task] = NoEntry]
    BY <1>4, <2>3 DEF Request, Serve, StopTask, StartTask, EditTask, AddTask, Save,
      SyncTaskToNode, AddTaskCheck, AddTaskLoad, AddTaskJob, DeleteTaskRemove, DeleteTaskKill,
      DeleteTaskUnlist, DeleteTaskUnlistAgain, PushTask, CreateReport, AgentReportTaskResult,
      memoryVars
  <2>4. ASSUME NEW r \in Runs, Go(r)
        PROVE  UNCHANGED TaskList
    BY <2>4 DEF Go, Acquire, ValidateDependency, CreateLog, StartProcess, AddTaskRunningIns,
      Exit, Wake, AfterRun, Cleanup, Panic, memoryVars
  <2>5. QED
    BY <1>4, <2>1, <2>2, <2>3, <2>4, TransactionSteps DEF Next, Boot, BootLoad, BootDone, Crash,
      Tick, StartOnceTask, memoryVars, vars
<1>5. QED
  BY <1>3, <1>4

(* A run that has a log row keeps it, but for the three ways to end.       *)
StillThere(r) == run'[r].pc \in HasLog /\ run'[r].log = run[r].log

LEMMA RunEnds ==
  ASSUME TypeOK, WellFormed, [Next]_vars, ~ServerDies, NEW r \in Runs, run[r].pc \in HasLog
  PROVE  \/ StillThere(r)
         \/ AfterRun(r) /\ Once(r)
         \/ Cleanup(r)
         \/ Panic(r)
<1> USE DEF StillThere
<1>0. run \in [Runs -> Run]
  BY DEF TypeOK
<1>1. CASE run'[r] = run[r]
  BY <1>1
<1>2. ASSUME NEW h \in Handlers, Request(h) \/ Serve(h)
      PROVE  StillThere(r)
  BY <1>2, RequestSparesRuns
<1>3. ASSUME NEW s \in Runs,
             (\E e \in EntryId : Tick(s, e)) \/ (\E t \in Tasks : StartOnceTask(s, t))
      PROVE  StillThere(r)
  <2>1. PICK pc \in {"check", "wait"} :
          run[s].pc = "free" /\ \E e, t, c : Spawn(s, pc, e, t, c)
    BY <1>3 DEF Tick, StartOnceTask
  <2>2. QED
    BY <1>1, <2>1, SpawnSteps DEF HasLog, Working
<1>4. ASSUME NEW s \in Runs, Go(s)
      PROVE  StillThere(r) \/ (AfterRun(r) /\ Once(r)) \/ Cleanup(r) \/ Panic(r)
  <2>1. CASE s # r
    BY <1>1, <1>4, <2>1, GoSteps DEF RunShape
  <2>2. CASE s = r /\ AfterRun(r) /\ ~Once(r)
    BY <1>0, <2>2 DEF AfterRun, Run, HasLog
  <2>3. CASE s = r /\ ~AfterRun(r) /\ ~Cleanup(r) /\ ~Panic(r)
    <3>1. ~Acquire(r) /\ ~ValidateDependency(r) /\ ~CreateLog(r)
      BY DEF Acquire, ValidateDependency, CreateLog, HasLog, Working
    <3>2. QuietForJournal
      BY <1>4, <2>3, <3>1, QuietGo
    <3>3. run[r].pc \in Working
      BY <1>4, <2>3, <3>1 DEF Go, StartProcess, AddTaskRunningIns, Exit, Wake, Working
    <3>4. QED
      BY <3>2, <3>3 DEF QuietForJournal, KeepsRun, HasLog
  <2>4. QED
    BY <1>4, <2>1, <2>2, <2>3
<1>5. CASE Boot \/ Transaction \/ UNCHANGED vars
  BY <1>1, <1>5, TransactionSteps DEF Boot, BootLoad, BootDone, BootAddTask, vars
<1>6. QED
  BY <1>2, <1>3, <1>4, <1>5 DEF Next, Crash

LEMMA NoOtherLeakNext ==
  ASSUME TypeOK, WellFormed, JournalInv, ListInv, [Next]_vars, ~ServerDies
  PROVE  NoOtherLeak'
<1>0. /\ ListedOnce /\ RegisteredRight /\ NoOtherLeak
      /\ uncleaned \subseteq uncleaned'
  BY UncleanedGrows DEF ListInv
<1> SUFFICES ASSUME NEW t \in Tasks, TaskList'[t] # NoEntry,
                    NEW l \in inst'[TaskList'[t]].running
             PROVE  \/ l \in uncleaned'
                    \/ \E r \in Runs : run'[r].log = l /\ run'[r].pc \in HasLog
  BY DEF NoOtherLeak
<1>1. /\ TaskList'[t] = TaskList[t] /\ TaskList[t] \in EntryId
      /\ inst[TaskList[t]].task = t
  BY <1>0, ListedEmpty DEF ListedOnce, TypeOK
<1> DEFINE e == TaskList[t]
<1>2. CASE l \in inst[e].running
  <2>1. taskLog[l].task = t
    BY <1>0, <1>1, <1>2 DEF RegisteredRight
  <2>2. CASE l \in uncleaned
    BY <1>0, <2>2
  <2>3. ASSUME NEW r \in Runs, run[r].log = l, run[r].pc \in HasLog
        PROVE  \/ l \in uncleaned'
               \/ \E s \in Runs : run'[s].log = l /\ run'[s].pc \in HasLog
    <3>1. run[r].task = t
      BY <2>1, <2>3 DEF JournalInv, RunsOwnRows
    <3>2. CASE StillThere(r)
      BY <2>3, <3>2 DEF StillThere
    <3>3. CASE AfterRun(r) /\ Once(r)
      BY <1>0, <1>1, <1>2, <2>3, <3>3 DEF RegisteredRight
    <3>4. CASE Cleanup(r)
      <4>1. inst'[e].running = inst[e].running \ {l}
        BY <1>1, <2>3, <3>1, <3>4 DEF Cleanup, TypeOK, Inst
      <4>2. QED
        BY <1>1, <4>1
    <3>5. CASE Panic(r)
      BY <1>1, <2>3, <3>1, <3>5 DEF Panic
    <3>6. QED
      BY <2>3, <3>2, <3>3, <3>4, <3>5, RunEnds
  <2>4. QED
    BY <1>0, <1>1, <1>2, <2>2, <2>3 DEF NoOtherLeak
<1>3. CASE l \notin inst[e].running
  <2>1. PICK q \in Runs : AddTaskRunningIns(q)
    BY <1>1, <1>3, RunningKeptNext DEF RunningKept
  <2>2. l = run[q].log
    BY <1>1, <1>3, <2>1 DEF AddTaskRunningIns, TypeOK, Inst, WellFormed
  <2>3. run'[q].log = run[q].log /\ run'[q].pc = "running"
    BY <2>1 DEF AddTaskRunningIns, TypeOK, Run
  <2>4. QED
    BY <2>2, <2>3 DEF HasLog, Working
<1>4. QED
  BY <1>2, <1>3

LEMMA ListCorrect == Spec => []ListInv
<1>1. Init => ListInv
  BY ListInit
<1>2. TypeOK /\ WellFormed /\ JournalInv /\ ListInv /\ [Next]_vars => ListInv'
  <2>1. SUFFICES ASSUME TypeOK, WellFormed, JournalInv, ListInv, [Next]_vars
                 PROVE  ListInv'
    OBVIOUS
  <2>2. CASE ServerDies
    BY <2>2, ListDies
  <2>3. CASE ~ServerDies
    BY <2>1, <2>3, ListedOnceNext, RegisteredRightNext, NoOtherLeakNext DEF ListInv
  <2>4. QED
    BY <2>2, <2>3
<1>3. QED
  BY <1>1, <1>2, JournalCorrect, PTL DEF Spec

(* What a listed instance shows as running, and would be killed, is under  *)
(* way, but for the two ways the code forgets to take a run off.           *)
THEOREM OnlyKnownLeaks == Spec => []NoOtherLeak
<1>1. ListInv => NoOtherLeak
  BY DEF ListInv
<1>2. QED
  BY <1>1, ListCorrect, PTL

(***************************************************************************)
(* Dependencies.  A request checks the dependency it was given, holds it   *)
(* in its copy of the row while others delete and save, and writes it at   *)
(* the end: the copies in flight have to be good as well.                  *)
(***************************************************************************)
USE DEF AtWork, Aside

DepKnown(t, c) == c.dep \in Tasks => c.dep # t /\ row[c.dep].state # "none"

ToBeSaved == {"save", "remove", "kill", "unlist", "unlistAgain"}
CopyKnown(h) ==
  /\ req[h].pc \notin Aside => DepKnown(req[h].task, req[h].snap.cfg)
  /\ req[h].pc \in ToBeSaved => req[h].snap.state = "live"

RowsStay == \A t \in Tasks : row[t].state # "none" => row'[t].state # "none"

KnownInv == DependencyKnown /\ \A h \in Handlers : CopyKnown(h)

LEMMA DependencyKnownByRow ==
  DependencyKnown <=> \A t \in Tasks : row[t].state # "none" => DepKnown(t, row[t].cfg)
BY DEF DependencyKnown, DepKnown

(* A good dependency stays good, because no key is ever free again.        *)
LEMMA KnownStays ==
  ASSUME RowsStay, NEW t, NEW c, DepKnown(t, c)
  PROVE  DepKnown(t, c)'
BY DEF RowsStay, DepKnown

LEMMA KnownTransaction ==
  ASSUME TypeOK, KnownInv, Transaction
  PROVE  RowsStay /\ DependencyKnown'
<1>1. ASSUME NEW t \in Tasks, DeleteTask(t)
      PROVE  RowsStay /\ DependencyKnown'
  <2>1. \A u \in Tasks : /\ row'[u].cfg = row[u].cfg
                         /\ row'[u].state = row[u].state \/ (u = t /\ row'[u].state = "deleted")
    BY <1>1 DEF DeleteTask, TypeOK, Row
  <2>2. row[t].state # "none"
    BY <1>1 DEF DeleteTask, Live
  <2>3. QED
    BY <2>1, <2>2 DEF RowsStay, KnownInv, DependencyKnown
<1>2. ASSUME NEW items \in ImportFiles, ImportTasks(items)
      PROVE  RowsStay /\ DependencyKnown'
  <2>1. PICK m \in OldToNew(items) :
          /\ \A t \in DOMAIN items : ImportAccepted(items, m, t)
          /\ row' = [t \in Tasks |->
                       IF t \in DOMAIN items
                       THEN [state |-> "live", disabled |-> TRUE,
                             cfg |-> [items[t].cfg EXCEPT !.dep = ImportedDep(items, m, t)]]
                       ELSE row[t]]
    BY <1>2 DEF ImportTasks
  <2>2. \A t \in Tasks : t \notin DOMAIN items => row'[t] = row[t]
    BY <2>1
  <2>3. \A t \in DOMAIN items : t \in Tasks /\ row'[t].state = "live"
    BY <2>1, ImportedRow
  <2>4. RowsStay
    BY <2>2, <2>3 DEF RowsStay
  <2>5. \A t \in DOMAIN items : row'[t].cfg.dep = ImportedDep(items, m, t)
    BY <2>1, ImportedRow
  <2>6. ASSUME NEW t \in DOMAIN items, row'[t].cfg.dep \in Tasks
        PROVE  row'[t].cfg.dep # t /\ row'[row'[t].cfg.dep].state # "none"
    <3>1. row'[t].cfg.dep # t /\ (Live(row'[t].cfg.dep) \/ row'[t].cfg.dep \in DOMAIN items)
      BY <2>1, <2>5, <2>6 DEF ImportAccepted
    <3>2. QED
      BY <2>3, <2>4, <2>6, <3>1 DEF Live, RowsStay
  <2>7. QED
    BY <2>2, <2>4, <2>6 DEF RowsStay, KnownInv, DependencyKnown
<1>3. QED
  BY <1>1, <1>2 DEF Transaction

(* A request checks its dependency and copies a row; the copy follows it   *)
(* through every step until it is answered.                                *)
LEMMA KnownRequest ==
  ASSUME TypeOK, WellFormed, KnownInv, NEW h \in Handlers, Request(h) \/ Serve(h)
  PROVE  RowsStay /\ KnownInv'
<1>0. /\ req \in [Handlers -> Req] /\ row \in [Tasks -> Row]
      /\ CopyKnown(h) /\ (req[h].pc \notin Aside => req[h].task \in Tasks)
      /\ \A t \in Tasks : row[t].state # "none" => DepKnown(t, row[t].cfg)
  BY DependencyKnownByRow DEF KnownInv, TypeOK, WellFormed
<1>1. RowsStay /\ DependencyKnown'
  <2>1. ASSUME NEW t \in Tasks, NEW c \in Configs, NEW d \in BOOLEAN, AddTask(h, t, c, d)
        PROVE  RowsStay /\ DependencyKnown'
    <3>1. /\ row' = [row EXCEPT ![t] = [state |-> "live", disabled |-> d, cfg |-> c]]
          /\ row[t].state = "none" /\ (c.dep \in Tasks => Live(c.dep))
      BY <2>1 DEF AddTask, ValidDependency
    <3>2. /\ row'[t].state = "live" /\ row'[t].cfg = c
          /\ \A u \in Tasks : u # t => row'[u] = row[u]
      BY <1>0, <3>1
    <3>3. RowsStay
      BY <3>2 DEF RowsStay
    <3>4. c.dep \in Tasks => c.dep # t /\ row'[c.dep].state # "none"
      BY <3>1, <3>2 DEF Live
    <3>5. QED
      BY <3>2, <3>3, <3>4 DEF RowsStay, KnownInv, DependencyKnown
  <2>2. CASE Save(h) /\ Live(req[h].task)
    <3>1. /\ req[h].task \in Tasks /\ req[h].pc = "save"
          /\ row' = [row EXCEPT ![req[h].task] = req[h].snap]
      BY <1>0, <2>2 DEF Save, At
    <3>2. /\ row'[req[h].task] = req[h].snap
          /\ \A u \in Tasks : u # req[h].task => row'[u] = row[u]
      BY <1>0, <3>1
    <3>3. req[h].snap.state = "live" /\ DepKnown(req[h].task, req[h].snap.cfg)
      BY <1>0, <3>1 DEF CopyKnown, ToBeSaved
    <3>4. RowsStay
      BY <3>2, <3>3 DEF RowsStay
    <3>5. QED
      BY <3>2, <3>3, <3>4 DEF RowsStay, KnownInv, DependencyKnown, DepKnown
  <2>3. CASE row' = row
    BY <2>3 DEF RowsStay, KnownInv, DependencyKnown
  <2>4. QED
    BY <2>1, <2>2, <2>3 DEF Request, Serve, StopTask, StartTask, EditTask, Save, SyncTaskToNode,
      AddTaskCheck, AddTaskLoad, AddTaskJob, AddTaskPublish, DeleteTaskRemove, DeleteTaskKill,
      DeleteTaskUnlist, DeleteTaskUnlistAgain, dbVars,
      PushTask, CreateReport, AgentReportTaskResult
<1>2. \A g \in Handlers : g # h => CopyKnown(g)'
  <2>1. ASSUME NEW g \in Handlers, g # h
        PROVE  CopyKnown(g)'
    <3>1. req'[g] = req[g] /\ CopyKnown(g)
      BY <2>1, RequestSteps DEF RequestShape, KnownInv
    <3>2. QED
      BY <1>1, <3>1, KnownStays DEF CopyKnown, DepKnown, RowsStay
  <2>2. QED
    BY <2>1
<1>3. CopyKnown(h)'
  <2>1. CASE req'[h].pc \in Aside
    BY <2>1 DEF CopyKnown, ToBeSaved
  <2>2. ASSUME NEW t \in Tasks, Live(t), NEW snap, NEW op, NEW pc, Accept(h, op, pc, t, snap),
               snap.cfg = row[t].cfg, snap.state = "live"
        PROVE  CopyKnown(h)'
    <3>1. req'[h].task = t /\ req'[h].snap = snap
      BY <1>0, <2>2 DEF Accept
    <3>2. QED
      BY <1>0, <1>1, <2>2, <3>1 DEF CopyKnown, DepKnown, RowsStay, Live
  <2>3. CASE CallAddTask(h) \/ (req'[h].snap = NoRow /\ req'[h].pc \notin ToBeSaved)
    <3>1. req'[h].snap = NoRow /\ req'[h].pc \notin ToBeSaved
      BY <1>0, <2>3, EmptyRecords DEF CallAddTask, NoReq, ToBeSaved
    <3>2. QED
      BY <3>1, ConstantsAssumption DEF CopyKnown, DepKnown, NoRow, NoConfig
  <2>4. CASE /\ req'[h].snap = req[h].snap /\ req'[h].task = req[h].task /\ req[h].pc \notin Aside
             /\ req'[h].pc \in ToBeSaved => req[h].pc \in ToBeSaved
    BY <1>0, <1>1, <2>4 DEF CopyKnown, DepKnown, RowsStay
  <2>5. CASE Request(h)
    <3>1. ASSUME NEW t \in Tasks, StopTask(h, t) \/ StartTask(h, t)
          PROVE  CopyKnown(h)'
      <4>1. \A d \in BOOLEAN : /\ [row[t] EXCEPT !.disabled = d].cfg = row[t].cfg
                               /\ [row[t] EXCEPT !.disabled = d].state = row[t].state
        BY <1>0 DEF Row
      <4>2. QED
        BY <2>2, <3>1, <4>1 DEF StopTask, StartTask, Live
    <3>2. ASSUME NEW t \in Tasks, NEW c \in Configs, NEW d \in BOOLEAN, EditTask(h, t, c, d)
          PROVE  CopyKnown(h)'
      <4>1. /\ [row[t] EXCEPT !.disabled = d, !.cfg = c].cfg = c
            /\ [row[t] EXCEPT !.disabled = d, !.cfg = c].state = row[t].state
        BY <1>0 DEF Row
      <4>2. req'[h].task = t /\ req'[h].snap = [row[t] EXCEPT !.disabled = d, !.cfg = c]
        BY <1>0, <3>2 DEF EditTask, Accept
      <4>3. row[t].state = "live" /\ (c.dep \in Tasks => c.dep # t /\ row[c.dep].state = "live")
        BY <3>2 DEF EditTask, ValidDependency, Live
      <4>4. QED
        BY <1>1, <4>1, <4>2, <4>3 DEF CopyKnown, DepKnown, RowsStay
    <3>3. ASSUME NEW t \in Tasks, NEW c \in Configs, NEW d \in BOOLEAN, AddTask(h, t, c, d)
          PROVE  CopyKnown(h)'
      BY <1>0, <2>3, <3>3 DEF AddTask, Accept, ToBeSaved
    <3>4. ASSUME NEW t \in Tasks, AgentReportTaskResult(h, t)
          PROVE  CopyKnown(h)'
      BY <1>0, <2>1, <3>4 DEF AgentReportTaskResult, Accept
    <3>5. QED
      BY <2>5, <3>1, <3>2, <3>3, <3>4 DEF Request
  <2>6. CASE Respond(h) \/ PushFirst(h)
    BY <1>0, <2>1, <2>6, EmptyRecords DEF Respond, PushFirst, Pushing, NoReq
  <2>7. ASSUME AfterDelete(h), req[h].pc \in ToBeSaved
        PROVE  CopyKnown(h)'
    <3>1. CASE req' = [req EXCEPT ![h].pc = "save", ![h].entry = NoEntry]
      BY <1>0, <2>4, <2>7, <3>1 DEF Req, ToBeSaved
    <3>2. QED
      BY <2>3, <2>6, <2>7, <3>1 DEF AfterDelete
  <2>8. ASSUME NEW pc, Goto(h, pc), req[h].pc \notin Aside,
               pc \in ToBeSaved => req[h].pc \in ToBeSaved
        PROVE  CopyKnown(h)'
    BY <1>0, <2>4, <2>8 DEF Goto, Req
  <2>9. CASE Save(h) \/ SyncTaskToNode(h) \/ AddTaskCheck(h) \/ AddTaskPublish(h)
    BY <2>3, <2>6, <2>8, <2>9 DEF Save, SyncTaskToNode, AddTaskCheck, AddTaskPublish,
      AddTaskReturns, At, ToBeSaved
  <2>10. CASE AddTaskLoad(h)
    <3>1. CASE req' = [req EXCEPT ![h].pc = "job", ![h].snap = row[req[h].task]]
      <4>1. /\ req'[h].snap = row[req[h].task] /\ req'[h].task = req[h].task
            /\ req'[h].pc = "job" /\ req[h].task \in Tasks
        BY <1>0, <2>10, <3>1 DEF AddTaskLoad, At, Req
      <4>2. row[req[h].task].state = "live" \/ Respond(h)
        BY <2>10 DEF AddTaskLoad, Live
      <4>3. QED
        BY <1>0, <1>1, <2>6, <4>1, <4>2 DEF CopyKnown, DepKnown, RowsStay, ToBeSaved
    <3>2. QED
      BY <2>6, <2>10, <3>1 DEF AddTaskLoad, AddTaskReturns
  <2>11. CASE AddTaskJob(h)
    BY <1>0, <2>4, <2>11 DEF AddTaskJob, At, Req, ToBeSaved
  <2>12. CASE DeleteTaskRemove(h)
    <3>1. CASE req' = [req EXCEPT ![h].pc = "kill", ![h].entry = TaskList[req[h].task]]
      BY <1>0, <2>4, <2>12, <3>1 DEF DeleteTaskRemove, At, Req, ToBeSaved
    <3>2. QED
      BY <2>7, <2>12, <3>1 DEF DeleteTaskRemove, At, ToBeSaved
  <2>13. CASE DeleteTaskKill(h) \/ DeleteTaskUnlist(h)
    BY <2>8, <2>13 DEF DeleteTaskKill, DeleteTaskUnlist, At, ToBeSaved
  <2>14. CASE DeleteTaskUnlistAgain(h)
    BY <2>7, <2>14 DEF DeleteTaskUnlistAgain, At, ToBeSaved
  <2>15. CASE PushTask(h) \/ CreateReport(h)
    BY <2>6, <2>15 DEF PushTask, CreateReport
  <2>16. QED
    BY <2>5, <2>9, <2>10, <2>11, <2>12, <2>13, <2>14, <2>15 DEF Serve
<1>4. QED
  BY <1>1, <1>2, <1>3 DEF KnownInv

LEMMA KnownNext ==
  ASSUME TypeOK, WellFormed, KnownInv, [Next]_vars
  PROVE  KnownInv'
<1>1. CASE UNCHANGED <<row, req>>
  BY <1>1 DEF KnownInv, DependencyKnown, CopyKnown, DepKnown
<1>2. CASE ServerDies
  <2>1. row' = row /\ \A h \in Handlers : req'[h] = NoReq
    BY <1>2 DEF ServerDies, dbVars
  <2>2. QED
    BY <2>1 DEF KnownInv, DependencyKnown, CopyKnown, NoReq, ToBeSaved
<1>3. CASE Transaction
  <2>1. req' = req /\ RowsStay /\ DependencyKnown'
    BY <1>3, TransactionSteps, KnownTransaction
  <2>2. \A h \in Handlers : CopyKnown(h)'
    BY <2>1, KnownStays DEF KnownInv, CopyKnown, DepKnown, RowsStay
  <2>3. QED
    BY <2>1, <2>2 DEF KnownInv
<1>4. ASSUME NEW h \in Handlers, Request(h) \/ Serve(h)
      PROVE  KnownInv'
  BY <1>4, KnownRequest
<1>5. ASSUME NEW r \in Runs, Go(r), ~ServerDies
      PROVE  UNCHANGED <<row, req>>
  BY <1>5 DEF Go, Acquire, ValidateDependency, CreateLog, StartProcess, AddTaskRunningIns, Exit,
    Wake, AfterRun, Cleanup, Panic, Unchanged4Run
<1>6. QED
  BY <1>1, <1>2, <1>3, <1>4, <1>5 DEF Next, Boot, BootLoad, BootDone, BootAddTask, Crash, Tick,
    StartOnceTask, Unchanged4Run, dbVars, vars

(* A task never depends on itself nor on a key that no task ever had,      *)
(* through imports, additions, edits and saves of old copies (task.go,     *)
(* task_transfer.go), for any number of requests at a time.                *)
THEOREM DependenciesKnown == Spec => []DependencyKnown
<1>1. Init => KnownInv
  BY DEF Init, KnownInv, DependencyKnown, CopyKnown, NoRow, NoReq, ToBeSaved
<1>2. KnownInv => DependencyKnown
  BY DEF KnownInv
<1>3. QED
  BY <1>1, <1>2, KnownNext, Shape, PTL DEF Spec

(* Imported tasks depend on each other as they did where they were         *)
(* exported, whatever keys they got (importTaskItems).                     *)
THEOREM ImportsKeepGraph == Spec => ImportKeepsGraph
<1>1. ASSUME NEW items \in ImportFiles, ImportTasks(items), NEW t \in DOMAIN items
      PROVE  /\ row'[t].cfg.dep = NoTask <=> items[t].dep = NoTask
             /\ \A u \in DOMAIN items :
                  items[t].dep \in Tasks /\ {v \in DOMAIN items : items[v].old = items[t].dep} = {u}
                  => row'[t].cfg.dep = u
  <2>1. PICK m \in OldToNew(items) :
          row' = [v \in Tasks |->
                    IF v \in DOMAIN items
                    THEN [state |-> "live", disabled |-> TRUE,
                          cfg |-> [items[v].cfg EXCEPT !.dep = ImportedDep(items, m, v)]]
                    ELSE row[v]]
    BY <1>1 DEF ImportTasks
  <2>2. row'[t].cfg.dep = ImportedDep(items, m, t)
    BY <2>1, ImportedRow
  <2>3. items[t].dep \in Tasks \cup {NoTask}
    BY ImportedRow DEF ImportItem
  <2>4. \A k \in Tasks : /\ m[k] \in DOMAIN items \cup {NoTask}
                         /\ IF \E v \in DOMAIN items : items[v].old = k
                            THEN m[k] # NoTask /\ items[m[k]].old = k ELSE m[k] = NoTask
    BY DEF OldToNew
  <2>5. QED
    BY <2>2, <2>3, <2>4, ConstantsAssumption DEF ImportedDep
<1>2. [Next]_vars
        => [\A items \in ImportFiles : ImportTasks(items) =>
              \A t \in DOMAIN items :
                /\ row'[t].cfg.dep = NoTask <=> items[t].dep = NoTask
                /\ \A u \in DOMAIN items :
                     items[t].dep \in Tasks
                       /\ {v \in DOMAIN items : items[v].old = items[t].dep} = {u}
                     => row'[t].cfg.dep = u]_vars
  BY <1>1
<1>3. QED
  BY <1>2, PTL DEF Spec, ImportKeepsGraph

-----------------------------------------------------------------------------
(***************************************************************************)
(* The schedule and the table, as long as no two requests about one task   *)
(* are under way together.  How far the two may differ about a task        *)
(* follows from where the request about it has come to (RequestRight);     *)
(* they agree about every other task (TaskRight), and every entry of cron  *)
(* is listed or about to be (EntryRight).                                  *)
(***************************************************************************)

Agrees(t) ==
  TaskList[t] # NoEntry => /\ ~row[t].disabled /\ IsLocal(row[t].cfg)
                           /\ inst[TaskList[t]].cfg = row[t].cfg
Covered(t) == ~row[t].disabled /\ row[t].cfg.node = "master" => TaskList[t] # NoEntry

Removing == {"kill", "unlist"}
Taking == Removing \cup {"remove", "unlistAgain"}
Making == {"sync", "load", "job", "publish"}

RowRight(q, t) ==
  /\ q.pc \in Taking /\ q.op = "edit" =>
       q.snap.disabled = row[t].disabled /\ q.snap.cfg = row[t].cfg
  /\ q.pc = "save" /\ q.op = "start" =>
       Agrees(t) /\ ~q.snap.disabled /\ q.snap.cfg = row[t].cfg
  /\ q.pc = "check" => Agrees(t)
  /\ q.pc \in {"job", "publish"} => ~row[t].disabled /\ IsLocal(row[t].cfg)
  /\ q.pc = "job" => q.snap.cfg = row[t].cfg
  /\ q.pc = "publish" => inst[q.entry].cfg = row[t].cfg

AboutRight(q, t) ==
  /\ phase = "up" /\ row[t].state # "none"
  /\ q.pc \in Making \cup {"unlistAgain"} \/ (q.pc = "save" /\ q.op = "stop")
       => TaskList[t] = NoEntry
  /\ q.pc \in Removing => TaskList[t] \notin cron
  /\ q.pc = "publish" => q.entry \in cron
  /\ q.pc \in Taking => q.op \in {"stop", "edit"}
  /\ q.pc = "save" => q.op \in {"stop", "start", "edit"}
  /\ q.pc \in Taking \cup {"save"} /\ q.op = "stop" => q.snap.disabled
  /\ Live(t) => RowRight(q, t)

RequestRight(h) == req[h].pc \notin Aside => AboutRight(req[h], req[h].task)

TaskRight(t) ==
  /\ row[t].state = "none" \/ phase = "down" => TaskList[t] = NoEntry
  /\ Live(t) /\ Untouched(t) =>
       /\ Agrees(t)
       /\ phase = "up" \/ (phase = "booting" /\ t \notin bootList) => Covered(t)
  /\ TaskList[t] # NoEntry =>
       TaskList[t] \in cron \/ \E h \in Handlers : req[h].task = t /\ req[h].pc \in Removing

EntryRight(e) ==
  \/ \E t \in Tasks : TaskList[t] = e
  \/ \E h \in Handlers : req[h].pc = "publish" /\ req[h].entry = e

SchedInv ==
  /\ \A h \in Handlers : RequestRight(h)
  /\ \A t \in Tasks : TaskRight(t)
  /\ \A e \in cron : EntryRight(e)

LEMMA SchedInit == Init => SchedInv
BY DEF Init, SchedInv, RequestRight, TaskRight, NoReq, Agrees, NoRow, Live

LEMMA SchedDies ==
  ASSUME ServerDies
  PROVE  SchedInv'
<1>1. /\ phase' = "down" /\ cron' = {}
      /\ \A h \in Handlers : req'[h].pc \in Aside
      /\ \A t \in Tasks : TaskList'[t] = NoEntry
  BY DEF ServerDies, NoReq
<1>2. QED
  BY <1>1 DEF SchedInv, RequestRight, TaskRight, Agrees

(* Listed instances and one about to be listed keep their settings.        *)
LEMMA InUseKept ==
  ASSUME TypeOK, InstancesKept, ListedOnce
  PROVE  /\ \A t \in Tasks : TaskList[t] # NoEntry => inst'[TaskList[t]].cfg = inst[TaskList[t]].cfg
         /\ \A h \in Handlers : req[h].pc = "publish" =>
              inst'[req[h].entry].cfg = inst[req[h].entry].cfg
<1>1. \A t \in Tasks : TaskList[t] # NoEntry => TaskList[t] \in EntryId /\ TaskList[t] < nextEntry
  BY DEF TypeOK, ListedOnce
<1>2. \A h \in Handlers : req[h].pc = "publish" =>
        req[h].entry \in EntryId /\ req[h].entry < nextEntry
  BY DEF TypeOK, ListedOnce, Req
<1>3. QED
  BY <1>1, <1>2 DEF InstancesKept

LEMMA SchedStays ==
  ASSUME TypeOK, WellFormed, ListedOnce, SchedInv, InstancesKept,
         UNCHANGED <<phase, bootList, row, req, TaskList, cron>>
  PROVE  SchedInv'
<1>1. /\ \A t \in Tasks : TaskList[t] # NoEntry => inst'[TaskList[t]].cfg = inst[TaskList[t]].cfg
      /\ \A h \in Handlers : req[h].pc = "publish" =>
           inst'[req[h].entry].cfg = inst[req[h].entry].cfg
  BY InUseKept
<1>2. \A t \in Tasks : (Agrees(t) <=> Agrees(t)') /\ (Covered(t) <=> Covered(t)')
  BY <1>1 DEF Agrees, Covered
<1>3. \A t \in Tasks : TaskRight(t)'
  BY <1>2 DEF SchedInv, TaskRight, Live, Untouched
<1>4. ASSUME NEW h \in Handlers, req[h].pc \notin Aside, req[h].task \in Tasks
      PROVE  AboutRight(req[h], req[h].task)'
  <2>1. AboutRight(req[h], req[h].task)
    BY <1>4 DEF SchedInv, RequestRight
  <2>2. Live(req[h].task) => RowRight(req[h], req[h].task)'
    BY <1>1, <1>2, <1>4, <2>1 DEF AboutRight, RowRight
  <2>3. QED
    BY <2>1, <2>2 DEF AboutRight, Live
<1>5. \A h \in Handlers : RequestRight(h)'
  <2>1. SUFFICES ASSUME NEW h \in Handlers, req'[h].pc \notin Aside
                 PROVE  AboutRight(req[h], req[h].task)'
    BY DEF RequestRight
  <2>2. QED
    BY <1>4, <2>1 DEF WellFormed
<1>6. \A e \in cron' : EntryRight(e)'
  BY DEF SchedInv, EntryRight
<1>7. QED
  BY <1>3, <1>5, <1>6 DEF SchedInv

(* While the server is up, a step of request h about task t leaves the     *)
(* other tasks right, and the other requests.                              *)
Elsewhere(u) ==
  /\ row'[u] = row[u] /\ TaskList'[u] = TaskList[u]
  /\ TaskList[u] # NoEntry => inst'[TaskList[u]].cfg = inst[TaskList[u]].cfg
  /\ TaskList[u] \in cron <=> TaskList[u] \in cron'

OthersKept(h) ==
  \A g \in Handlers :
    g # h => /\ req'[g] = req[g]
             /\ req[g].pc = "publish" =>
                  /\ inst'[req[g].entry].cfg = inst[req[g].entry].cfg
                  /\ req[g].entry \in cron => req[g].entry \in cron'

LEMMA OthersKeptNext ==
  ASSUME TypeOK, WellFormed, ListedOnce, NEW h \in Handlers, Request(h) \/ Serve(h)
  PROVE  OthersKept(h)
<1>1. \A g \in Handlers : g # h => req'[g] = req[g]
  BY RequestSteps DEF RequestShape
<1>2. \A g \in Handlers : req[g].pc = "publish" =>
        /\ req[g].entry \in EntryId /\ req[g].entry < nextEntry
        /\ \A t \in Tasks : TaskList[t] # req[g].entry
  BY DEF ListedOnce, TypeOK, Req
<1>3. CASE AddTaskJob(h)
  <2>1. cron \subseteq cron' /\ \E i : inst' = [inst EXCEPT ![nextEntry] = i]
    BY <1>3 DEF AddTaskJob
  <2>2. \A e \in EntryId : e < nextEntry => inst'[e] = inst[e]
    BY <2>1 DEF TypeOK, EntryId
  <2>3. QED
    BY <1>1, <1>2, <2>1, <2>2 DEF OthersKept
<1>4. CASE DeleteTaskRemove(h)
  <2>1. inst' = inst /\ cron' = cron \ {TaskList[req[h].task]} /\ req[h].task \in Tasks
    BY <1>4 DEF DeleteTaskRemove, At, WellFormed
  <2>2. QED
    BY <1>1, <1>2, <2>1 DEF OthersKept
<1>5. CASE ~AddTaskJob(h) /\ ~DeleteTaskRemove(h)
  <2>1. inst' = inst /\ cron' = cron
    BY <1>5 DEF Request, Serve, StopTask, StartTask, EditTask, AddTask, Save, SyncTaskToNode,
      AddTaskCheck, AddTaskLoad, AddTaskPublish, DeleteTaskKill, DeleteTaskUnlist,
      DeleteTaskUnlistAgain, cronVars, PushTask, CreateReport, AgentReportTaskResult
  <2>2. QED
    BY <1>1, <2>1 DEF OthersKept
<1>6. QED
  BY <1>3, <1>4, <1>5

LEMMA SchedElsewhere ==
  ASSUME NEW h \in Handlers, NEW u \in Tasks, Elsewhere(u), OthersKept(h), TaskRight(u),
         phase = "up", phase' = "up",
         req[h].pc \notin Aside => req[h].task # u,
         req'[h].pc \notin Aside => req'[h].task # u
  PROVE  TaskRight(u)'
<1>1. /\ Untouched(u) <=> Untouched(u)'
      /\ \A g \in Handlers : req[g].task = u /\ req[g].pc \in Removing =>
           req'[g].task = u /\ req'[g].pc \in Removing
  BY DEF OthersKept, Untouched, Removing
<1>2. (Agrees(u) <=> Agrees(u)') /\ (Covered(u) <=> Covered(u)')
  BY DEF Elsewhere, Agrees, Covered
<1>3. QED
  BY <1>1, <1>2 DEF TaskRight, Live, Elsewhere

LEMMA SchedOther ==
  ASSUME NEW h \in Handlers, NEW g \in Handlers, NEW u \in Tasks, g # h, req[g].task = u,
         OthersKept(h), Elsewhere(u), phase' = "up", RequestRight(g)
  PROVE  RequestRight(g)'
<1>1. SUFFICES ASSUME req[g].pc \notin Aside PROVE AboutRight(req[g], u)'
  BY DEF RequestRight, OthersKept
<1>2. AboutRight(req[g], u) /\ req'[g] = req[g]
  BY <1>1 DEF RequestRight, OthersKept
<1>3. /\ row'[u] = row[u] /\ TaskList'[u] = TaskList[u]
      /\ TaskList[u] \in cron <=> TaskList[u] \in cron'
      /\ Agrees(u) <=> Agrees(u)'
  BY DEF Elsewhere, Agrees
<1>4. req[g].pc = "publish" =>
        /\ inst'[req[g].entry].cfg = inst[req[g].entry].cfg
        /\ req[g].entry \in cron => req[g].entry \in cron'
  BY DEF OthersKept
<1>5. Live(u) => RowRight(req[g], u)'
  BY <1>2, <1>3, <1>4 DEF AboutRight, RowRight
<1>6. QED
  BY <1>2, <1>3, <1>4, <1>5 DEF AboutRight, Live

LEMMA SchedAbout ==
  ASSUME RequestsApart, RequestsApart', WellFormed, SchedInv,
         NEW h \in Handlers, NEW t \in Tasks, OthersKept(h),
         phase = "up", phase' = "up", req[h].pc \notin Aside \/ req'[h].pc \notin Aside,
         req[h].pc \notin Aside => req[h].task = t,
         req'[h].pc \notin Aside => req'[h].task = t /\ AboutRight(req[h], t)',
         \A u \in Tasks : u # t => Elsewhere(u),
         TaskRight(t)', \A e \in cron' : EntryRight(e)'
  PROVE  SchedInv'
<1>1. \A u \in Tasks : TaskRight(u)'
  BY SchedElsewhere DEF SchedInv
<1>2. ASSUME NEW g \in Handlers, g # h
      PROVE  RequestRight(g)'
  <2>1. CASE req[g].pc \in Aside
    BY <1>2, <2>1 DEF OthersKept, RequestRight
  <2>2. CASE req[g].pc \notin Aside
    <3>1. req[g].task # t /\ req[g].task \in Tasks
      BY <1>2, <2>2 DEF RequestsApart, OthersKept, WellFormed
    <3>2. QED
      BY <1>2, <3>1, SchedOther DEF SchedInv
  <2>3. QED
    BY <2>1, <2>2
<1>3. RequestRight(h)'
  BY DEF RequestRight
<1>4. QED
  BY <1>1, <1>2, <1>3 DEF SchedInv

(* The task of a request that has not come to its instance is on cron if   *)
(* it is listed; and what is on cron stays listed or about to be while     *)
(* TaskList stays as it is.                                                *)
LEMMA SchedListed ==
  ASSUME RequestsApart, NEW h \in Handlers, NEW t \in Tasks, TaskRight(t),
         req[h].task = t, req[h].pc \notin Removing \cup Aside, TaskList[t] # NoEntry
  PROVE  TaskList[t] \in cron
BY DEF TaskRight, RequestsApart, Removing

LEMMA SchedEntries ==
  ASSUME SchedInv, NEW h \in Handlers, OthersKept(h), TaskList' = TaskList,
         req[h].pc # "publish", NEW e \in cron
  PROVE  EntryRight(e)'
<1>1. CASE \E t \in Tasks : TaskList[t] = e
  BY <1>1 DEF EntryRight
<1>2. CASE \E g \in Handlers : req[g].pc = "publish" /\ req[g].entry = e
  <2>1. PICK g \in Handlers : req[g].pc = "publish" /\ req[g].entry = e
    BY <1>2
  <2>2. req'[g] = req[g]
    BY <2>1 DEF OthersKept
  <2>3. QED
    BY <2>1, <2>2 DEF EntryRight
<1>3. QED
  BY <1>1, <1>2 DEF SchedInv, EntryRight

(* What an answer, Goto and AddTask's entry leave in the request's record. *)
LEMMA RequestRecords ==
  ASSUME TypeOK, NEW h \in Handlers
  PROVE  /\ Respond(h) \/ PushFirst(h) => req'[h].pc \in Aside
         /\ CallAddTask(h) => /\ req'[h].pc = "check" /\ req'[h].op = req[h].op
                              /\ req'[h].task = req[h].task
         /\ \A pc : Goto(h, pc) => /\ req'[h].pc = pc /\ req'[h].op = req[h].op
                                   /\ req'[h].task = req[h].task /\ req'[h].snap = req[h].snap
                                   /\ req'[h].entry = req[h].entry
<1>1. req[h] \in Req /\ req \in [Handlers -> Req]
  BY DEF TypeOK
<1>2. Respond(h) \/ PushFirst(h) => req'[h].pc \in Aside
  BY <1>1 DEF Respond, PushFirst, NoReq, Pushing
<1>3. CallAddTask(h) => /\ req'[h].pc = "check" /\ req'[h].op = req[h].op
                        /\ req'[h].task = req[h].task
  BY <1>1 DEF CallAddTask, NoReq
<1>4. ASSUME NEW pc, Goto(h, pc)
      PROVE  /\ req'[h].pc = pc /\ req'[h].op = req[h].op
             /\ req'[h].task = req[h].task /\ req'[h].snap = req[h].snap
             /\ req'[h].entry = req[h].entry
  BY <1>1, <1>4 DEF Goto, Req
<1>5. QED
  BY <1>2, <1>3, <1>4

(* A step of a request aside, or that ends there, and changes no more than *)
(* the journal, changes nothing of all this.                               *)
LEMMA SchedAside ==
  ASSUME SchedInv, NEW h \in Handlers, \A g \in Handlers : g # h => req'[g] = req[g],
         req[h].pc \in Aside, req'[h].pc \in Aside,
         UNCHANGED <<phase, bootList, row, TaskList, cron, inst>>
  PROVE  SchedInv'
<1>1. \A t \in Tasks : (Agrees(t) <=> Agrees(t)') /\ (Covered(t) <=> Covered(t)')
  BY DEF Agrees, Covered
<1>2. ASSUME NEW t \in Tasks PROVE TaskRight(t)'
  <2>1. Untouched(t) <=> Untouched(t)'
    BY DEF Untouched
  <2>2. (\E g \in Handlers : req[g].task = t /\ req[g].pc \in Removing) =>
          \E g \in Handlers : req'[g].task = t /\ req'[g].pc \in Removing
    BY DEF Removing
  <2>3. QED
    BY <1>1, <2>1, <2>2 DEF SchedInv, TaskRight, Live
<1>3. ASSUME NEW g \in Handlers, req'[g].pc \notin Aside
      PROVE  AboutRight(req[g], req[g].task)'
  <2>1. AboutRight(req[g], req[g].task) /\ req'[g] = req[g]
    BY <1>3 DEF SchedInv, RequestRight
  <2>2. Live(req[g].task) => RowRight(req[g], req[g].task)'
    BY <2>1 DEF AboutRight, RowRight, Agrees
  <2>3. QED
    BY <2>1, <2>2 DEF AboutRight, Live
<1>4. ASSUME NEW e \in cron PROVE EntryRight(e)'
  <2>1. (\E g \in Handlers : req[g].pc = "publish" /\ req[g].entry = e) =>
          \E g \in Handlers : req'[g].pc = "publish" /\ req'[g].entry = e
    OBVIOUS
  <2>2. QED
    BY <2>1 DEF SchedInv, EntryRight
<1>5. QED
  BY <1>2, <1>3, <1>4 DEF SchedInv, RequestRight

(* After Manager.DeleteTask: nothing of the task is listed.                *)
LEMMA SchedAfterDelete ==
  ASSUME TypeOK, NEW h \in Handlers, NEW t \in Tasks, AfterDelete(h), req[h].task = t,
         phase' = "up", row' = row, bootList' = bootList,
         AboutRight(req[h], t), req[h].pc \in Taking, TaskList'[t] = NoEntry
  PROVE  /\ req'[h].pc \notin Aside => req'[h].task = t /\ AboutRight(req[h], t)'
         /\ req'[h].pc \in Aside => Covered(t)' \/ ~Live(t)'
         /\ req'[h].pc # "publish"
<1>1. Agrees(t)'
  BY DEF Agrees
<1>2. CASE req' = [req EXCEPT ![h].pc = "save", ![h].entry = NoEntry] /\ req[h].op = "stop"
  <2>1. /\ req'[h].pc = "save" /\ req'[h].op = "stop" /\ req'[h].task = t
        /\ req'[h].snap = req[h].snap
    BY <1>2 DEF TypeOK, Req
  <2>2. req[h].snap.disabled /\ row[t].state # "none"
    BY <1>2 DEF AboutRight
  <2>3. RowRight(req[h], t)'
    BY <2>1 DEF RowRight, Taking, Removing
  <2>4. AboutRight(req[h], t)'
    BY <2>1, <2>2, <2>3 DEF AboutRight, Taking, Removing, Making
  <2>5. QED
    BY <2>1, <2>4
<1>3. CASE CallAddTask(h)
  <2>1. req'[h].pc = "check" /\ req'[h].task = t
    BY <1>3, RequestRecords
  <2>2. row[t].state # "none"
    BY DEF AboutRight
  <2>3. AboutRight(req[h], t)'
    BY <1>1, <2>1, <2>2 DEF AboutRight, RowRight, Taking, Removing, Making
  <2>4. QED
    BY <2>1, <2>3
<1>4. CASE Respond(h) /\ req[h].op = "edit" /\ ~(IsLocal(req[h].snap.cfg) /\ ~req[h].snap.disabled)
  <2>1. req'[h].pc \in Aside
    BY <1>4, RequestRecords
  <2>2. Live(t) => row[t].disabled \/ row[t].cfg.node # "master"
    BY <1>4 DEF AboutRight, RowRight, IsLocal
  <2>3. QED
    BY <2>1, <2>2 DEF Covered, Live
<1>5. QED
  BY <1>2, <1>3, <1>4 DEF AfterDelete

LEMMA SchedSave ==
  ASSUME RequestsApart, RequestsApart', TypeOK, WellFormed, KnownInv, SchedInv,
         NEW h \in Handlers, NEW t \in Tasks, OthersKept(h),
         req[h].task = t, AboutRight(req[h], t), TaskRight(t), Save(h)
  PROVE  SchedInv'
<1>1. /\ req[h].pc = "save" /\ phase = "up" /\ phase' = "up" /\ bootList' = bootList
      /\ TaskList' = TaskList /\ cron' = cron /\ inst' = inst
  BY DEF Save, At, AboutRight, cronVars, memoryVars
<1>2. row' = IF Live(t) THEN [row EXCEPT ![t] = req[h].snap] ELSE row
  BY DEF Save
<1>3. \A u \in Tasks : u # t => Elsewhere(u)
  BY <1>1, <1>2 DEF Elsewhere, TypeOK
<1>4. /\ Live(t) => row'[t] = req[h].snap /\ req[h].snap.state = "live"
      /\ row'[t].state # "none"
      /\ Live(t)' => Live(t)
  BY <1>1, <1>2 DEF TypeOK, Live, KnownInv, CopyKnown, ToBeSaved, AboutRight
<1>5. TaskList[t] # NoEntry => TaskList[t] \in cron
  BY <1>1, SchedListed DEF Removing
<1>6. \A e \in cron' : EntryRight(e)'
  BY <1>1, SchedEntries
<1>7. CASE Live(t) /\ req[h].op = "start" /\ CallAddTask(h)
  <2>1. req'[h].pc = "check" /\ req'[h].task = t
    BY <1>7, RequestRecords
  <2>2. Agrees(t) /\ ~row'[t].disabled /\ row'[t].cfg = row[t].cfg
    BY <1>1, <1>4, <1>7 DEF AboutRight, RowRight
  <2>3. Agrees(t)'
    BY <1>1, <2>2 DEF Agrees
  <2>4. AboutRight(req[h], t)'
    BY <1>1, <1>4, <2>1, <2>3 DEF AboutRight, RowRight, Taking, Removing, Making
  <2>5. TaskRight(t)'
    BY <1>1, <1>4, <1>5, <2>1 DEF TaskRight, Untouched
  <2>6. QED
    BY <1>1, <1>3, <1>6, <2>1, <2>4, <2>5, SchedAbout
<1>8. CASE Live(t) /\ req[h].op = "edit" /\ Goto(h, "remove")
  <2>1. /\ req'[h].pc = "remove" /\ req'[h].task = t /\ req'[h].op = "edit"
        /\ req'[h].snap = req[h].snap
    BY <1>8, RequestRecords
  <2>2. RowRight(req[h], t)'
    BY <1>4, <1>8, <2>1 DEF RowRight
  <2>3. AboutRight(req[h], t)'
    BY <1>1, <1>4, <2>1, <2>2 DEF AboutRight, Taking, Removing, Making
  <2>4. TaskRight(t)'
    BY <1>1, <1>4, <1>5, <2>1 DEF TaskRight, Untouched
  <2>5. QED
    BY <1>1, <1>3, <1>6, <2>1, <2>3, <2>4, SchedAbout
<1>9. CASE (~Live(t) \/ req[h].op = "stop") /\ (Respond(h) \/ PushFirst(h))
  <2>1. req'[h].pc \in Aside
    BY <1>9, RequestRecords
  <2>2. Live(t)' => TaskList[t] = NoEntry /\ row'[t].disabled
    BY <1>1, <1>4, <1>9 DEF AboutRight
  <2>3. TaskRight(t)'
    BY <1>1, <1>4, <1>5, <2>2 DEF TaskRight, Agrees, Covered
  <2>4. QED
    BY <1>1, <1>3, <1>6, <2>1, <2>3, SchedAbout
<1>10. QED
  BY <1>7, <1>8, <1>9 DEF Save

(* Up to here AddTask has changed nothing but the record of its request.   *)
LEMMA SchedAdd ==
  ASSUME RequestsApart, RequestsApart', TypeOK, WellFormed, SchedInv, InstanceFixed,
         ListedOnce, NEW h \in Handlers, NEW t \in Tasks, OthersKept(h),
         req[h].task = t, AboutRight(req[h], t), TaskRight(t),
         SyncTaskToNode(h) \/ AddTaskCheck(h) \/ AddTaskLoad(h)
  PROVE  SchedInv'
<1>1. /\ req[h].pc \in {"sync", "check", "load"} /\ phase = "up" /\ phase' = "up"
      /\ bootList' = bootList /\ row' = row
      /\ TaskList' = TaskList /\ cron' = cron /\ inst' = inst
  BY DEF SyncTaskToNode, AddTaskCheck, AddTaskLoad, At, AboutRight, cronVars, memoryVars, dbVars
<1>2. /\ \A u \in Tasks : u # t => Elsewhere(u)
      /\ Agrees(t) <=> Agrees(t)'
      /\ Covered(t) <=> Covered(t)'
      /\ Live(t) <=> Live(t)'
  BY <1>1 DEF Elsewhere, Agrees, Covered, Live
<1>3. TaskList[t] # NoEntry => TaskList[t] \in cron
  BY <1>1, SchedListed DEF Removing
<1>4. row'[t].state # "none" /\ (req[h].pc \in {"sync", "load"} => TaskList[t] = NoEntry)
  BY <1>1 DEF AboutRight, Making
<1>5. \A e \in cron' : EntryRight(e)'
  BY <1>1, SchedEntries
<1>6. ASSUME req'[h].pc \notin Aside, req'[h].task = t, AboutRight(req[h], t)'
      PROVE  SchedInv'
  <2>1. TaskRight(t)'
    BY <1>1, <1>3, <1>4, <1>6 DEF TaskRight, Untouched
  <2>2. QED
    BY <1>1, <1>2, <1>5, <1>6, <2>1, SchedAbout
<1>7. ASSUME Respond(h) \/ PushFirst(h), Live(t) => Agrees(t) /\ Covered(t)
      PROVE  SchedInv'
  <2>1. req'[h].pc \in Aside
    BY <1>7, RequestRecords
  <2>2. TaskRight(t)'
    BY <1>1, <1>2, <1>3, <1>4, <1>7 DEF TaskRight
  <2>3. QED
    BY <1>1, <1>2, <1>5, <2>1, <2>2, SchedAbout
<1>8. CASE SyncTaskToNode(h)
  <2>1. TaskList[t] = NoEntry
    BY <1>4, <1>8 DEF SyncTaskToNode, At
  <2>2. Agrees(t)
    BY <2>1 DEF Agrees
  <2>3. CASE CallAddTask(h)
    <3>1. req'[h].pc = "check" /\ req'[h].task = t
      BY <2>3, RequestRecords
    <3>2. AboutRight(req[h], t)'
      BY <1>1, <1>2, <1>4, <2>2, <3>1 DEF AboutRight, RowRight, Taking, Removing, Making
    <3>3. QED
      BY <1>6, <3>1, <3>2
  <2>4. CASE Respond(h) /\ ~(Live(t) /\ row[t].cfg.node = "master")
    BY <1>7, <2>2, <2>4 DEF Covered
  <2>5. QED
    BY <1>8, <2>3, <2>4 DEF SyncTaskToNode
<1>9. CASE AddTaskCheck(h)
  <2>1. Live(t) => Agrees(t)
    BY <1>9 DEF AboutRight, RowRight, AddTaskCheck, At
  <2>2. CASE TaskList[t] = NoEntry /\ Goto(h, "load")
    <3>1. req'[h].pc = "load" /\ req'[h].task = t
      BY <2>2, RequestRecords
    <3>2. AboutRight(req[h], t)'
      BY <1>1, <1>4, <2>2, <3>1 DEF AboutRight, RowRight, Taking, Removing, Making
    <3>3. QED
      BY <1>6, <3>1, <3>2
  <2>3. CASE TaskList[t] # NoEntry /\ Respond(h)
    BY <1>7, <2>1, <2>3 DEF Covered
  <2>4. QED
    BY <1>9, <2>2, <2>3 DEF AddTaskCheck
<1>10. CASE AddTaskLoad(h)
  <2>1. TaskList[t] = NoEntry
    BY <1>4, <1>10 DEF AddTaskLoad, At
  <2>2. CASE /\ ~row[t].disabled /\ IsLocal(row[t].cfg)
             /\ req' = [req EXCEPT ![h].pc = "job", ![h].snap = row[t]]
    <3>1. req'[h].pc = "job" /\ req'[h].task = t /\ req'[h].snap = row[t]
      BY <2>2 DEF TypeOK, Req
    <3>2. RowRight(req[h], t)'
      BY <1>1, <2>2, <3>1 DEF RowRight, Taking, Removing, IsLocal
    <3>3. AboutRight(req[h], t)'
      BY <1>1, <1>4, <2>1, <3>1, <3>2 DEF AboutRight, Taking, Removing, Making
    <3>4. QED
      BY <1>6, <3>1, <3>3
  <2>3. CASE /\ Respond(h) \/ PushFirst(h)
             /\ ~(Live(t) /\ ~row[t].disabled /\ IsLocal(row[t].cfg))
    BY <1>7, <2>1, <2>3 DEF Agrees, Covered, IsLocal
  <2>4. QED
    BY <1>10, <2>2, <2>3 DEF AddTaskLoad, AddTaskReturns
<1>11. QED
  BY <1>8, <1>9, <1>10

LEMMA SchedJob ==
  ASSUME RequestsApart, RequestsApart', TypeOK, WellFormed, SchedInv, InstanceFixed,
         ListedOnce, NEW h \in Handlers, NEW t \in Tasks, OthersKept(h),
         req[h].task = t, AboutRight(req[h], t), TaskRight(t), AddTaskJob(h)
  PROVE  SchedInv'
<1>1. /\ req[h].pc = "job" /\ phase = "up" /\ phase' = "up" /\ bootList' = bootList
      /\ row' = row /\ TaskList' = TaskList /\ cron' = cron \cup {nextEntry}
      /\ nextEntry \in EntryId
      /\ inst' = [inst EXCEPT ![nextEntry] =
                    [task |-> t, cfg |-> req[h].snap.cfg, running |-> {}]]
  BY DEF AddTaskJob, At, AboutRight, memoryVars, dbVars, TypeOK, EntryId
<1>2. inst'[nextEntry].cfg = req[h].snap.cfg
  BY <1>1 DEF TypeOK
<1>3. \A u \in Tasks : TaskList[u] # NoEntry => inst'[TaskList[u]] = inst[TaskList[u]]
  BY <1>1 DEF TypeOK, ListedOnce, EntryId
<1>4. \A u \in Tasks : u # t => Elsewhere(u)
  <2>1. \A u \in Tasks : TaskList[u] # nextEntry
    BY ConstantsAssumption DEF TypeOK, ListedOnce, NoEntry
  <2>2. QED
    BY <1>1, <1>3, <2>1 DEF Elsewhere
<1>5. /\ req'[h].pc = "publish" /\ req'[h].entry = nextEntry /\ req'[h].task = t
  BY DEF AddTaskJob, TypeOK, Req
<1>6. TaskList[t] = NoEntry /\ row[t].state # "none"
  BY <1>1 DEF AboutRight, Making
<1>7. Live(t) => ~row[t].disabled /\ IsLocal(row[t].cfg) /\ req[h].snap.cfg = row[t].cfg
  BY <1>1 DEF AboutRight, RowRight
<1>8. AboutRight(req[h], t)'
  <2>1. (Live(t) => RowRight(req[h], t))'
    BY <1>1, <1>2, <1>5, <1>7 DEF RowRight, Live, IsLocal, Taking, Removing
  <2>2. QED
    BY <1>1, <1>5, <1>6, <2>1 DEF AboutRight, Taking, Removing, Making
<1>9. TaskRight(t)'
  BY <1>1, <1>5, <1>6 DEF TaskRight, Untouched
<1>10. \A e \in cron' : EntryRight(e)'
  <2>1. \A e \in cron : EntryRight(e)'
    BY <1>1, SchedEntries
  <2>2. ASSUME NEW e, e = nextEntry PROVE EntryRight(e)'
    BY <1>5, <2>2 DEF EntryRight
  <2>3. QED
    BY <1>1, <2>1, <2>2 DEF EntryRight
<1>11. QED
  BY <1>1, <1>4, <1>5, <1>8, <1>9, <1>10, SchedAbout

LEMMA SchedPublish ==
  ASSUME RequestsApart, RequestsApart', TypeOK, WellFormed, SchedInv,
         NEW h \in Handlers, NEW t \in Tasks, OthersKept(h),
         req[h].task = t, AboutRight(req[h], t), TaskRight(t), AddTaskPublish(h)
  PROVE  SchedInv'
<1>1. /\ req[h].pc = "publish" /\ phase = "up" /\ phase' = "up" /\ bootList' = bootList
      /\ row' = row /\ cron' = cron /\ inst' = inst
      /\ TaskList' = [TaskList EXCEPT ![t] = req[h].entry]
  BY DEF AddTaskPublish, At, AboutRight, cronVars, dbVars
<1>2. \A u \in Tasks : u # t => Elsewhere(u)
  BY <1>1 DEF Elsewhere, TypeOK
<1>3. TaskList'[t] = req[h].entry /\ req'[h].pc \in Aside
  BY <1>1, RequestRecords DEF AddTaskPublish, AddTaskReturns, TypeOK
<1>4. /\ TaskList[t] = NoEntry /\ row[t].state # "none"
      /\ req[h].entry \in cron /\ req[h].entry # NoEntry
  BY <1>1, ConstantsAssumption DEF AboutRight, Making, TypeOK, EntryId, NoEntry
<1>5. Live(t) => Agrees(t)' /\ Covered(t)'
  BY <1>1, <1>3, <1>4 DEF AboutRight, RowRight, Agrees, Covered, IsLocal
<1>6. TaskRight(t)'
  BY <1>1, <1>3, <1>4, <1>5 DEF TaskRight, Live
<1>7. ASSUME NEW e \in cron PROVE EntryRight(e)'
  <2>1. e # NoEntry
    BY ConstantsAssumption DEF TypeOK, EntryId, NoEntry
  <2>2. CASE e = req[h].entry
    BY <1>3, <2>2 DEF EntryRight
  <2>3. ASSUME NEW u \in Tasks, TaskList[u] = e
        PROVE  EntryRight(e)'
    <3>1. TaskList'[u] = e
      BY <1>2, <1>4, <2>1, <2>3 DEF Elsewhere
    <3>2. QED
      BY <3>1 DEF EntryRight
  <2>4. ASSUME NEW g \in Handlers, g # h, req[g].pc = "publish", req[g].entry = e
        PROVE  EntryRight(e)'
    BY <2>4 DEF OthersKept, EntryRight
  <2>5. QED
    BY <2>2, <2>3, <2>4 DEF SchedInv, EntryRight
<1>8. QED
  BY <1>1, <1>2, <1>3, <1>6, <1>7, SchedAbout

LEMMA SchedRemove ==
  ASSUME RequestsApart, RequestsApart', TypeOK, WellFormed, SchedInv, ListedOnce,
         NEW h \in Handlers, NEW t \in Tasks, OthersKept(h),
         req[h].task = t, AboutRight(req[h], t), TaskRight(t), DeleteTaskRemove(h)
  PROVE  SchedInv'
<1>1. /\ req[h].pc = "remove" /\ phase = "up" /\ phase' = "up" /\ bootList' = bootList
      /\ row' = row /\ cron' = cron \ {TaskList[t]} /\ inst' = inst /\ TaskList' = TaskList
  BY DEF DeleteTaskRemove, At, AboutRight, memoryVars, dbVars
<1>2. \A u \in Tasks : u # t => Elsewhere(u)
  <2>1. ASSUME NEW u \in Tasks, u # t, TaskList[u] \in cron
        PROVE  TaskList[u] # TaskList[t]
    BY <2>1, ConstantsAssumption DEF TypeOK, ListedOnce, EntryId, NoEntry
  <2>2. QED
    BY <1>1, <2>1 DEF Elsewhere
<1>3. row[t].state # "none"
  BY <1>1 DEF AboutRight
<1>5. \A e \in cron' : EntryRight(e)'
  BY <1>1, SchedEntries
<1>6. CASE TaskList[t] = NoEntry /\ AfterDelete(h)
  <2>1. /\ req'[h].pc \notin Aside => req'[h].task = t /\ AboutRight(req[h], t)'
        /\ req'[h].pc \in Aside => Covered(t)' \/ ~Live(t)'
    BY <1>1, <1>6, SchedAfterDelete DEF Taking
  <2>2. TaskRight(t)'
    BY <1>1, <1>6, <2>1 DEF TaskRight, Agrees, Untouched
  <2>3. QED
    BY <1>1, <1>2, <1>5, <2>1, <2>2, SchedAbout
<1>7. CASE TaskList[t] # NoEntry /\ req' = [req EXCEPT ![h].pc = "kill", ![h].entry = TaskList[t]]
  <2>1. /\ req'[h].pc = "kill" /\ req'[h].task = t /\ req'[h].op = req[h].op
        /\ req'[h].snap = req[h].snap
    BY <1>7 DEF TypeOK, Req
  <2>2. (Live(t) => RowRight(req[h], t))'
    BY <1>1, <2>1 DEF AboutRight, RowRight, Live, Taking
  <2>3. AboutRight(req[h], t)'
    BY <1>1, <1>3, <2>1, <2>2 DEF AboutRight, Taking, Removing, Making
  <2>4. TaskRight(t)'
    BY <1>1, <1>3, <2>1 DEF TaskRight, Untouched, Removing
  <2>5. QED
    BY <1>1, <1>2, <1>5, <2>1, <2>3, <2>4, SchedAbout
<1>8. QED
  BY <1>6, <1>7 DEF DeleteTaskRemove

LEMMA SchedUnlist ==
  ASSUME RequestsApart, RequestsApart', TypeOK, WellFormed, SchedInv,
         NEW h \in Handlers, NEW t \in Tasks, OthersKept(h),
         req[h].task = t, AboutRight(req[h], t), TaskRight(t),
         DeleteTaskKill(h) \/ DeleteTaskUnlist(h) \/ DeleteTaskUnlistAgain(h)
  PROVE  SchedInv'
<1>1. /\ req[h].pc \in {"kill", "unlist", "unlistAgain"} /\ phase = "up" /\ phase' = "up"
      /\ bootList' = bootList /\ row' = row /\ cron' = cron /\ inst' = inst
      /\ TaskList' = IF DeleteTaskKill(h) THEN TaskList ELSE [TaskList EXCEPT ![t] = NoEntry]
  BY DEF DeleteTaskKill, DeleteTaskUnlist, DeleteTaskUnlistAgain, At, AboutRight, memoryVars,
         cronVars, dbVars
<1>2. \A u \in Tasks : u # t => Elsewhere(u)
  BY <1>1 DEF Elsewhere, TypeOK
<1>3. row[t].state # "none"
  BY <1>1 DEF AboutRight
<1>4. TaskList[t] \notin cron
  BY <1>1, ConstantsAssumption DEF AboutRight, Removing, TypeOK, EntryId, NoEntry
<1>5. ASSUME NEW e \in cron PROVE EntryRight(e)'
  <2>1. ASSUME NEW u \in Tasks, TaskList[u] = e
        PROVE  EntryRight(e)'
    <3>1. TaskList'[u] = e
      BY <1>2, <1>4, <2>1 DEF Elsewhere
    <3>2. QED
      BY <3>1 DEF EntryRight
  <2>2. ASSUME NEW g \in Handlers, req[g].pc = "publish", req[g].entry = e
        PROVE  EntryRight(e)'
    BY <1>1, <2>2 DEF OthersKept, EntryRight
  <2>3. QED
    BY <2>1, <2>2 DEF SchedInv, EntryRight
<1>6. ASSUME NEW pc \in {"unlist", "unlistAgain"}, Goto(h, pc),
             pc = "unlistAgain" => TaskList'[t] = NoEntry,
             pc = "unlist" => TaskList' = TaskList
      PROVE  SchedInv'
  <2>1. /\ req'[h].pc = pc /\ req'[h].task = t /\ req'[h].op = req[h].op
        /\ req'[h].snap = req[h].snap
    BY <1>6, RequestRecords
  <2>2. (Live(t) => RowRight(req[h], t))'
    BY <1>1, <2>1 DEF AboutRight, RowRight, Live, Taking, Removing
  <2>3. AboutRight(req[h], t)'
    BY <1>1, <1>3, <1>4, <1>6, <2>1, <2>2 DEF AboutRight, Taking, Removing, Making
  <2>4. TaskRight(t)'
    BY <1>1, <1>3, <1>6, <2>1 DEF TaskRight, Untouched, Removing
  <2>5. QED
    BY <1>1, <1>2, <1>5, <2>1, <2>3, <2>4, SchedAbout
<1>7. CASE DeleteTaskKill(h)
  BY <1>1, <1>6, <1>7 DEF DeleteTaskKill
<1>8. CASE DeleteTaskUnlist(h)
  <2>1. TaskList'[t] = NoEntry /\ Goto(h, "unlistAgain")
    BY <1>8 DEF DeleteTaskUnlist, TypeOK
  <2>2. QED
    BY <1>6, <2>1
<1>9. CASE DeleteTaskUnlistAgain(h)
  <2>1. TaskList'[t] = NoEntry /\ AfterDelete(h) /\ req[h].pc \in Taking
    BY <1>9 DEF DeleteTaskUnlistAgain, TypeOK, At, Taking
  <2>2. /\ req'[h].pc \notin Aside => req'[h].task = t /\ AboutRight(req[h], t)'
        /\ req'[h].pc \in Aside => Covered(t)' \/ ~Live(t)'
    BY <1>1, <2>1, SchedAfterDelete
  <2>3. TaskRight(t)'
    BY <1>1, <2>1, <2>2 DEF TaskRight, Agrees, Untouched
  <2>4. QED
    BY <1>1, <1>2, <1>5, <2>2, <2>3, SchedAbout
<1>10. QED
  BY <1>7, <1>8, <1>9

LEMMA SchedServe ==
  ASSUME RequestsApart, RequestsApart', TypeOK, WellFormed, KnownInv, InstanceFixed,
         ListedOnce, SchedInv, NEW h \in Handlers, Serve(h)
  PROVE  SchedInv'
<1>1. CASE PushTask(h) \/ CreateReport(h)
  <2>1. /\ req[h].pc \in Aside /\ Respond(h)
        /\ UNCHANGED <<phase, bootList, row, TaskList, cron, inst>>
    BY <1>1 DEF PushTask, CreateReport, At, dbVars, cronVars, memoryVars
  <2>2. req'[h].pc \in Aside /\ \A g \in Handlers : g # h => req'[g] = req[g]
    BY <2>1, RequestRecords DEF Respond, TypeOK
  <2>3. QED
    BY <2>1, <2>2, SchedAside
<1>2. CASE ~PushTask(h) /\ ~CreateReport(h)
  <2>1. req[h].pc \notin Aside
    BY <1>2 DEF Serve, Save, SyncTaskToNode, AddTaskCheck, AddTaskLoad, AddTaskJob,
      AddTaskPublish, DeleteTaskRemove, DeleteTaskKill, DeleteTaskUnlist,
      DeleteTaskUnlistAgain, At
  <2>2. req[h].task \in Tasks /\ AboutRight(req[h], req[h].task) /\ TaskRight(req[h].task)
    BY <2>1 DEF WellFormed, SchedInv, RequestRight
  <2>3. QED
    BY <1>2, <2>2, OthersKeptNext, SchedSave, SchedAdd, SchedJob, SchedPublish, SchedRemove,
       SchedUnlist
    DEF Serve
<1>3. QED
  BY <1>1, <1>2

(* A request begins: none about its task is under way, so it is covered.   *)
LEMMA SchedRequest ==
  ASSUME RequestsApart, RequestsApart', TypeOK, WellFormed, ListedOnce, SchedInv,
         NEW h \in Handlers, Request(h)
  PROVE  SchedInv'
<1>1. phase = "up" /\ req[h].pc \in Aside /\ OthersKept(h)
  BY OthersKeptNext DEF Request, StopTask, StartTask, EditTask, AddTask, Idle,
    AgentReportTaskResult
<1>2. ASSUME NEW t \in Tasks, req'[h].pc \notin Aside, req'[h].task = t
      PROVE  /\ Untouched(t)
             /\ TaskList[t] # NoEntry => TaskList[t] \in cron
             /\ Live(t) => Agrees(t) /\ Covered(t)
  <2>1. Untouched(t)
    BY <1>1, <1>2 DEF Untouched, RequestsApart, OthersKept
  <2>2. QED
    BY <1>1, <2>1 DEF Untouched, SchedInv, TaskRight, Removing
<1>3. ASSUME NEW t \in Tasks, NEW op, NEW pc, NEW snap, Accept(h, op, pc, t, snap),
             row[t].state # "none" => row'[t] = row[t], row'[t].state # "none",
             row[t].state = "none" => TaskList[t] = NoEntry,
             \A u \in Tasks : u # t => row'[u] = row[u],
             UNCHANGED <<phase, bootList, TaskList, cron, inst>>,
             \/ pc = "remove" /\ op = "stop" /\ snap.disabled
             \/ pc = "save" /\ op = "start" /\ ~snap.disabled /\ snap.cfg = row'[t].cfg /\ Live(t)
             \/ pc = "save" /\ op = "edit"
             \/ pc = "sync" /\ op = "add" /\ TaskList[t] = NoEntry
      PROVE  SchedInv'
  <2>1. /\ req'[h].pc = pc /\ req'[h].op = op /\ req'[h].task = t /\ req'[h].snap = snap
        /\ req'[h].pc \notin Aside
    BY <1>3 DEF Accept, TypeOK
  <2>2. (Live(t) => RowRight(req[h], t))'
    <3>1. CASE pc = "save" /\ op = "start"
      <4>1. Agrees(t)'
        BY <1>2, <1>3, <2>1, <3>1 DEF Agrees, Live
      <4>2. QED
        BY <1>3, <2>1, <3>1, <4>1 DEF RowRight, Taking, Removing
    <3>2. CASE ~(pc = "save" /\ op = "start")
      BY <1>3, <2>1, <3>2 DEF RowRight, Taking, Removing
    <3>3. QED
      BY <3>1, <3>2
  <2>3. AboutRight(req[h], t)'
    BY <1>1, <1>3, <2>1, <2>2 DEF AboutRight, Taking, Removing, Making
  <2>4. TaskRight(t)'
    BY <1>1, <1>2, <1>3, <2>1 DEF TaskRight, Untouched
  <2>5. \A u \in Tasks : u # t => Elsewhere(u)
    BY <1>3 DEF Elsewhere
  <2>6. \A e \in cron' : EntryRight(e)'
    BY <1>1, <1>3, SchedEntries
  <2>7. QED
    BY <1>1, <1>3, <2>1, <2>3, <2>4, <2>5, <2>6, SchedAbout
<1>4. \A t \in Tasks : row[t].state = "none" => TaskList[t] = NoEntry
  BY DEF SchedInv, TaskRight
<1>5. ASSUME NEW t \in Tasks, StopTask(h, t) \/ StartTask(h, t)
      PROVE  SchedInv'
  <2>1. /\ Live(t) /\ row' = row /\ UNCHANGED <<phase, bootList, TaskList, cron, inst>>
        /\ row[t].state # "none"
    BY <1>5 DEF StopTask, StartTask, Live, dbVars, cronVars, memoryVars
  <2>2. CASE StopTask(h, t)
    <3>1. Accept(h, "stop", "remove", t, [row[t] EXCEPT !.disabled = TRUE])
      BY <2>2 DEF StopTask
    <3>2. [row[t] EXCEPT !.disabled = TRUE].disabled
      BY DEF TypeOK, Row
    <3>3. QED
      BY <1>3, <2>1, <3>1, <3>2
  <2>3. CASE StartTask(h, t)
    <3>1. Accept(h, "start", "save", t, [row[t] EXCEPT !.disabled = FALSE])
      BY <2>3 DEF StartTask
    <3>2. /\ ~[row[t] EXCEPT !.disabled = FALSE].disabled
          /\ [row[t] EXCEPT !.disabled = FALSE].cfg = row'[t].cfg
      BY <2>1 DEF TypeOK, Row
    <3>3. QED
      BY <1>3, <2>1, <3>1, <3>2
  <2>4. QED
    BY <1>5, <2>2, <2>3
<1>6. ASSUME NEW t \in Tasks, NEW c \in Configs, NEW d \in BOOLEAN, EditTask(h, t, c, d)
      PROVE  SchedInv'
  <2>1. /\ Live(t) /\ row' = row /\ UNCHANGED <<phase, bootList, TaskList, cron, inst>>
        /\ row[t].state # "none"
        /\ Accept(h, "edit", "save", t, [row[t] EXCEPT !.disabled = d, !.cfg = c])
    BY <1>6 DEF EditTask, Live, dbVars, cronVars, memoryVars
  <2>2. QED
    BY <1>3, <2>1
<1>7. ASSUME NEW t \in Tasks, NEW c \in Configs, NEW d \in BOOLEAN, AddTask(h, t, c, d)
      PROVE  SchedInv'
  <2>1. /\ row[t].state = "none" /\ UNCHANGED <<phase, bootList, TaskList, cron, inst>>
        /\ row'[t].state # "none" /\ \A u \in Tasks : u # t => row'[u] = row[u]
        /\ Accept(h, "add", "sync", t, NoRow)
    BY <1>7 DEF AddTask, cronVars, memoryVars, TypeOK
  <2>2. QED
    BY <1>3, <1>4, <2>1
<1>8. ASSUME NEW t \in Tasks, AgentReportTaskResult(h, t)
      PROVE  SchedInv'
  <2>1. /\ UNCHANGED <<phase, bootList, row, TaskList, cron, inst>>
        /\ req'[h].pc \in Aside
    BY <1>8 DEF AgentReportTaskResult, Accept, TypeOK, dbVars, cronVars, memoryVars
  <2>2. QED
    BY <1>1, <2>1, SchedAside DEF OthersKept
<1>9. QED
  BY <1>5, <1>6, <1>7, <1>8 DEF Request

(* A transaction deletes a task, or makes disabled ones under new keys.    *)
LEMMA SchedTransaction ==
  ASSUME TypeOK, WellFormed, SchedInv, Transaction
  PROVE  SchedInv'
<1> DEFINE Fate(t) == \/ row'[t] = row[t]
                      \/ row[t].state # "none" /\ row'[t].state = "deleted"
                      \/ row[t].state = "none" /\ row'[t].state = "live" /\ row'[t].disabled
<1>1. /\ phase = "up" /\ UNCHANGED <<phase, bootList, TaskList, cron, inst, req>>
      /\ \A t \in Tasks : Fate(t)
  <2>1. phase = "up" /\ UNCHANGED <<phase, bootList, TaskList, cron, inst, req>>
    BY DEF Transaction, DeleteTask, ImportTasks, cronVars, memoryVars
  <2>2. ASSUME NEW u \in Tasks, DeleteTask(u), NEW t \in Tasks
        PROVE  Fate(t)
    <3>1. CASE t = u
      BY <2>2, <3>1 DEF DeleteTask, Live, TypeOK, Row
    <3>2. CASE t # u
      BY <2>2, <3>2 DEF DeleteTask, TypeOK
    <3>3. QED
      BY <3>1, <3>2
  <2>3. ASSUME NEW items \in ImportFiles, ImportTasks(items), NEW t \in Tasks
        PROVE  Fate(t)
    <3>1. DOMAIN items \subseteq {u \in Tasks : row[u].state = "none"}
      BY DEF ImportFiles
    <3>2. IF t \in DOMAIN items THEN row'[t].state = "live" /\ row'[t].disabled
                                ELSE row'[t] = row[t]
      BY <2>3 DEF ImportTasks
    <3>3. QED
      BY <3>1, <3>2
  <2>4. QED
    BY <2>1, <2>2, <2>3 DEF Transaction
<1>2. ASSUME NEW t \in Tasks PROVE TaskRight(t)'
  <2>1. TaskRight(t)
    BY DEF SchedInv
  <2>2. CASE row'[t] = row[t]
    BY <1>1, <2>1, <2>2 DEF TaskRight, Live, Untouched, Agrees, Covered
  <2>3. CASE row[t].state # "none" /\ row'[t].state = "deleted"
    BY <1>1, <2>1, <2>3 DEF TaskRight, Live
  <2>4. CASE row[t].state = "none" /\ row'[t].disabled
    BY <1>1, <2>1, <2>4 DEF TaskRight, Agrees, Covered
  <2>5. QED
    BY <1>1, <2>2, <2>3, <2>4
<1>3. ASSUME NEW h \in Handlers, req'[h].pc \notin Aside
      PROVE  AboutRight(req[h], req[h].task)'
  <2>1. AboutRight(req[h], req[h].task) /\ req[h].task \in Tasks
    BY <1>1, <1>3 DEF WellFormed, SchedInv, RequestRight
  <2>2. CASE row'[req[h].task] = row[req[h].task]
    BY <1>1, <2>1, <2>2 DEF AboutRight, RowRight, Live, Agrees
  <2>3. CASE row'[req[h].task].state = "deleted"
    BY <1>1, <2>1, <2>3 DEF AboutRight, Live
  <2>4. QED
    BY <1>1, <2>1, <2>2, <2>3 DEF AboutRight
<1>4. QED
  BY <1>1, <1>2, <1>3 DEF SchedInv, RequestRight, EntryRight

(* The service starts after the last task of bootList was added.           *)
LEMMA SchedBoot ==
  ASSUME TypeOK, ListedOnce, SchedInv, Boot
  PROVE  SchedInv'
<1>1. /\ phase # "up" /\ row' = row /\ req' = req
      /\ \A h \in Handlers : req[h].pc \in Aside
  BY DEF Boot, BootLoad, BootDone, BootAddTask, dbVars, SchedInv, RequestRight, AboutRight
<1>2. \A h \in Handlers : RequestRight(h)'
  BY <1>1 DEF RequestRight
<1>3. /\ \A t \in Tasks : Untouched(t) /\ (TaskList[t] # NoEntry => TaskList[t] \in cron)
      /\ \A e \in cron : \E t \in Tasks : TaskList[t] = e
  BY <1>1 DEF Untouched, SchedInv, TaskRight, EntryRight, Removing
<1>4. CASE BootLoad
  <2>1. /\ phase = "down" /\ phase' = "booting" /\ TaskList' = TaskList /\ cron' = cron
        /\ bootList' = {t \in Tasks : Live(t) /\ ~row[t].disabled}
    BY <1>4 DEF BootLoad, memoryVars, cronVars
  <2>2. \A t \in Tasks : TaskRight(t)'
    BY <1>1, <2>1 DEF SchedInv, TaskRight, Agrees, Covered, Live
  <2>3. QED
    BY <1>1, <1>2, <2>1, <2>2 DEF SchedInv, EntryRight
<1>5. CASE BootDone
  <2>1. /\ phase = "booting" /\ phase' = "up" /\ bootList = {} /\ TaskList' = TaskList
        /\ cron' = cron /\ inst' = inst
    BY <1>5 DEF BootDone, memoryVars, cronVars
  <2>2. \A t \in Tasks : TaskRight(t)'
    BY <1>1, <1>3, <2>1 DEF SchedInv, TaskRight, Agrees, Covered, Live
  <2>3. QED
    BY <1>1, <1>2, <2>1, <2>2 DEF SchedInv, EntryRight
<1>6. ASSUME NEW t \in Tasks, BootAddTask(t)
      PROVE  SchedInv'
  <2>1. /\ phase = "booting" /\ phase' = "booting" /\ bootList' = bootList \ {t}
        /\ nextEntry \in EntryId
    BY <1>6 DEF BootAddTask, TypeOK, EntryId
  <2>2. CASE /\ ~(TaskList[t] = NoEntry /\ Live(t) /\ ~row[t].disabled /\ IsLocal(row[t].cfg))
             /\ UNCHANGED <<cronVars, TaskList>>
    <3>1. UNCHANGED <<cron, inst, TaskList>>
      BY <2>2 DEF cronVars
    <3>2. ASSUME NEW u \in Tasks PROVE TaskRight(u)'
      <4>1. TaskRight(u) /\ Untouched(u) /\ (TaskList[u] # NoEntry => TaskList[u] \in cron)
        BY <1>3 DEF SchedInv
      <4>2. (Agrees(u) <=> Agrees(u)') /\ (Covered(u) <=> Covered(u)') /\ (Live(u) <=> Live(u)')
        BY <1>1, <3>1 DEF Agrees, Covered, Live
      <4>3. u = t /\ Live(t) => Covered(t)
        BY <2>2 DEF Covered, IsLocal
      <4>4. QED
        BY <1>1, <2>1, <3>1, <4>1, <4>2, <4>3 DEF TaskRight
    <3>3. QED
      BY <1>1, <1>2, <3>1, <3>2 DEF SchedInv, EntryRight
  <2>3. CASE /\ TaskList[t] = NoEntry /\ Live(t) /\ ~row[t].disabled /\ IsLocal(row[t].cfg)
             /\ cron' = cron \cup {nextEntry}
             /\ inst' = [inst EXCEPT ![nextEntry] =
                           [task |-> t, cfg |-> row[t].cfg, running |-> {}]]
             /\ TaskList' = [TaskList EXCEPT ![t] = nextEntry]
    <3>1. TaskList'[t] = nextEntry /\ nextEntry # NoEntry /\ inst'[nextEntry].cfg = row[t].cfg
      BY <2>1, <2>3, ConstantsAssumption DEF TypeOK, EntryId, NoEntry
    <3>2. TaskRight(t)'
      BY <1>1, <2>1, <2>3, <3>1 DEF TaskRight, Agrees, Covered, Live, IsLocal
    <3>3. ASSUME NEW u \in Tasks, u # t PROVE TaskRight(u)'
      <4>1. TaskRight(u) /\ Untouched(u) /\ (TaskList[u] # NoEntry => TaskList[u] \in cron)
        BY <1>3 DEF SchedInv
      <4>2. /\ TaskList'[u] = TaskList[u]
            /\ TaskList[u] # NoEntry => inst'[TaskList[u]] = inst[TaskList[u]]
        BY <2>1, <2>3, <3>3 DEF TypeOK, ListedOnce, EntryId
      <4>3. (Agrees(u) <=> Agrees(u)') /\ (Covered(u) <=> Covered(u)') /\ (Live(u) <=> Live(u)')
        BY <1>1, <4>2 DEF Agrees, Covered, Live
      <4>4. QED
        BY <1>1, <2>1, <2>3, <3>3, <4>1, <4>2, <4>3 DEF TaskRight
    <3>4. ASSUME NEW e \in cron' PROVE \E u \in Tasks : TaskList'[u] = e
      <4>1. CASE e = nextEntry
        BY <3>1, <4>1
      <4>2. CASE e \in cron
        <5>1. PICK u \in Tasks : TaskList[u] = e
          BY <1>3, <4>2
        <5>2. e # NoEntry
          BY <4>2, ConstantsAssumption DEF TypeOK, EntryId, NoEntry
        <5>3. u # t
          BY <2>3, <5>1, <5>2
        <5>4. QED
          BY <2>3, <5>1, <5>3 DEF TypeOK
      <4>3. QED
        BY <2>3, <4>1, <4>2
    <3>5. QED
      BY <1>2, <3>2, <3>3, <3>4 DEF SchedInv, EntryRight
  <2>4. QED
    BY <1>6, <2>2, <2>3 DEF BootAddTask
<1>7. QED
  BY <1>4, <1>5, <1>6 DEF Boot

LEMMA SchedNext ==
  ASSUME RequestsApart, RequestsApart', TypeOK, WellFormed, KnownInv, InstanceFixed,
         ListedOnce, SchedInv, [Next]_vars
  PROVE  SchedInv'
<1>1. CASE ServerDies
  BY <1>1, SchedDies
<1>2. CASE ~ServerDies /\ UNCHANGED <<phase, bootList, row, req, TaskList, cron>>
  BY <1>2, InstancesKeptNext, SchedStays
<1>3. ASSUME NEW r \in Runs, Go(r), ~ServerDies
      PROVE  UNCHANGED <<phase, bootList, row, req, TaskList, cron>>
  BY <1>3 DEF Go, Acquire, ValidateDependency, CreateLog, StartProcess, AddTaskRunningIns, Exit,
    Wake, AfterRun, Cleanup, Panic, Unchanged4Run
<1>4. QED
  BY <1>1, <1>2, <1>3, SchedBoot, SchedRequest, SchedServe, SchedTransaction
  DEF Next, Crash, Tick, StartOnceTask, Unchanged4Run, vars

LEMMA SchedCorrect ==
  Spec /\ []RequestsApart => [](TypeOK /\ WellFormed /\ ListedOnce /\ KnownInv /\ SchedInv)
<1>1. Init => KnownInv /\ SchedInv
  BY SchedInit DEF Init, KnownInv, DependencyKnown, CopyKnown, NoRow, NoReq, ToBeSaved
<1>2. TypeOK /\ WellFormed /\ InstanceFixed /\ ListedOnce /\ KnownInv /\ SchedInv
        /\ RequestsApart /\ RequestsApart' /\ [Next]_vars
      => KnownInv' /\ SchedInv'
  BY KnownNext, SchedNext
<1>3. ListInv => ListedOnce
  BY DEF ListInv
<1>4. QED
  BY <1>1, <1>2, <1>3, Shape, ListCorrect, WrapperCorrect, PTL DEF Spec

(* Requests that do not meet about one task leave no entry on cron without *)
(* its place in TaskList, whatever crashes, firings, deletions and imports *)
(* happen in the middle of them (AddTask, DeleteTask of the Manager).      *)
THEOREM EntriesListed == Spec /\ []RequestsApart => []EveryEntryListed
<1>1. TypeOK /\ ListedOnce /\ SchedInv => EveryEntryListed
  <2>1. SUFFICES ASSUME TypeOK, ListedOnce, SchedInv, Quiet
                 PROVE  /\ cron = {TaskList[t] : t \in Tasks} \ {NoEntry}
                        /\ \A t \in Tasks : TaskList[t] # NoEntry => inst[TaskList[t]].task = t
    BY DEF EveryEntryListed
  <2>2. \A h \in Handlers : req[h].pc \in Aside
    BY <2>1 DEF Quiet
  <2>3. \A e \in cron : e # NoEntry /\ \E t \in Tasks : TaskList[t] = e
    BY <2>1, <2>2, ConstantsAssumption DEF SchedInv, EntryRight, TypeOK, EntryId, NoEntry
  <2>4. \A t \in Tasks : TaskList[t] # NoEntry => TaskList[t] \in cron
    BY <2>1, <2>2 DEF SchedInv, TaskRight, Removing
  <2>5. QED
    BY <2>1, <2>3, <2>4 DEF ListedOnce
<1>2. QED
  BY <1>1, SchedCorrect, PTL

(* Requests that do not meet about one task keep the schedule what the     *)
(* table asks for, task by task: every enabled local row listed with its   *)
(* settings and no other (StartTask, StopTask, EditTask, AddTask, Start),  *)
(* crashes and requests about other tasks in between included.             *)
THEOREM ScheduleIsTable == Spec /\ []RequestsApart => []ScheduleMatchesTable
<1>1. SchedInv => ScheduleMatchesTable
  BY DEF SchedInv, TaskRight, ScheduleMatchesTable, Untouched, Agrees, Covered
<1>2. QED
  BY <1>1, SchedCorrect, PTL

(* AddTask makes a second instance of a task only when two requests about  *)
(* the task are under way together.                                        *)
THEOREM SecondInstanceNeedsTwo == Spec /\ []RequestsApart => []NoSecondInstance
<1>1. EveryEntryListed => NoSecondInstance
  BY DEF EveryEntryListed, NoSecondInstance
<1>2. QED
  BY <1>1, EntriesListed, PTL

-----------------------------------------------------------------------------
(***************************************************************************)
(* Runs and the instance of their task, as long as no stop and no edit of  *)
(* a task is under way together with a run of its schedule.                *)
(***************************************************************************)
Displacing == {"stop", "edit"}

(* A run of the schedule came from the listed instance of its task, or     *)
(* from the one a request is about to list.                                *)
FromListed(r) ==
  run[r].pc # "free" /\ ~Once(r) =>
    \/ run[r].entry = TaskList[run[r].task]
    \/ \E h \in Handlers : /\ req[h].pc = "publish" /\ req[h].task = run[r].task
                           /\ req[h].entry = run[r].entry

FromListedInv == \A r \in Runs : FromListed(r)

LEMMA FiredFromListed ==
  ASSUME TypeOK, WellFormed, ListedOnce, SchedInv, NEW e \in cron, inst[e].task \in Tasks
  PROVE  \/ e = TaskList[inst[e].task]
         \/ \E h \in Handlers : /\ req[h].pc = "publish" /\ req[h].task = inst[e].task
                                /\ req[h].entry = e
<1>1. e # NoEntry
  BY DEF TypeOK, EntryId, NoEntry
<1>2. CASE \E t \in Tasks : TaskList[t] = e
  BY <1>1, <1>2 DEF ListedOnce
<1>3. CASE \E h \in Handlers : req[h].pc = "publish" /\ req[h].entry = e
  BY <1>3 DEF ListedOnce
<1>4. QED
  BY <1>2, <1>3 DEF SchedInv, EntryRight

(* Steps that keep the two sources of a run.                               *)
LEMMA ListedSteps ==
  ASSUME TypeOK, WellFormed, ListedOnce, SchedInv, RequestsApart,
         RunsApartFrom(Displacing), [Next]_vars, ~ServerDies,
         NEW r \in Runs, run[r].pc # "free", ~Once(r), FromListed(r)
  PROVE  \/ run[r].entry = TaskList'[run[r].task]
         \/ \E h \in Handlers : /\ req'[h].pc = "publish" /\ req'[h].task = run[r].task
                                /\ req'[h].entry = run[r].entry
<1> DEFINE t == run[r].task
           Goal == \/ run[r].entry = TaskList'[t]
                   \/ \E h \in Handlers : /\ req'[h].pc = "publish" /\ req'[h].task = t
                                          /\ req'[h].entry = run[r].entry
<1>0. t \in Tasks /\ run[r].entry # NoEntry
  BY DEF WellFormed, Once
<1>1. ASSUME UNCHANGED TaskList,
             \A h \in Handlers : req[h].pc = "publish" => req'[h] = req[h]
      PROVE  Goal
  BY <1>1 DEF FromListed
<1>2. CASE BootLoad \/ BootDone \/ Transaction \/ UNCHANGED vars
  BY <1>1, <1>2, TransactionSteps DEF BootLoad, BootDone, memoryVars, vars
<1>3. ASSUME NEW u \in Tasks, BootAddTask(u)
      PROVE  Goal
  <2>1. req' = req /\ (TaskList' = TaskList \/ (TaskList[u] = NoEntry
                                               /\ \A v \in Tasks : v # u => TaskList'[v] = TaskList[v]))
    BY <1>3 DEF BootAddTask, TypeOK
  <2>2. CASE run[r].entry = TaskList[t]
    BY <1>0, <2>1, <2>2
  <2>3. CASE run[r].entry # TaskList[t]
    BY <2>1, <2>3 DEF FromListed
  <2>4. QED
    BY <2>2, <2>3
<1>4. ASSUME NEW s \in Runs,
             \/ \E e \in EntryId : Tick(s, e)
             \/ \E u \in Tasks : StartOnceTask(s, u)
             \/ Go(s)
      PROVE  Goal
  <2>1. UNCHANGED <<TaskList, req>>
    BY <1>4 DEF Tick, StartOnceTask, Go, Acquire, ValidateDependency, CreateLog,
      StartProcess, AddTaskRunningIns, Exit, Wake, AfterRun, Cleanup, Panic, Unchanged4Run
  <2>2. QED
    BY <1>1, <2>1
<1>5. ASSUME NEW h \in Handlers, Request(h)
      PROVE  Goal
  <2>1. \A g \in Handlers : g # h => req'[g] = req[g]
    BY <1>5, RequestSteps DEF RequestShape
  <2>2. req[h].pc \in Aside /\ UNCHANGED TaskList
    BY <1>5 DEF Request, StopTask, StartTask, EditTask, AddTask, Idle, memoryVars,
      AgentReportTaskResult
  <2>3. QED
    BY <1>1, <2>1, <2>2
<1>6. ASSUME NEW h \in Handlers, Serve(h), ~AddTaskPublish(h)
      PROVE  Goal
  <2>1. \A g \in Handlers : g # h => req'[g] = req[g]
    BY <1>6, RequestSteps DEF RequestShape
  <2>2. req[h].pc # "publish"
    BY <1>6 DEF Serve, At, Save, SyncTaskToNode, AddTaskCheck, AddTaskLoad, AddTaskJob,
      DeleteTaskRemove, DeleteTaskKill, DeleteTaskUnlist, DeleteTaskUnlistAgain,
      PushTask, CreateReport
  <2>3. CASE DeleteTaskUnlist(h) \/ DeleteTaskUnlistAgain(h)
    <3>1. /\ req[h].pc \in {"unlist", "unlistAgain"} /\ req[h].task \in Tasks
          /\ TaskList' = [TaskList EXCEPT ![req[h].task] = NoEntry]
      BY <2>3 DEF DeleteTaskUnlist, DeleteTaskUnlistAgain, At, WellFormed
    <3>2. AboutRight(req[h], req[h].task)
      BY <3>1 DEF SchedInv, RequestRight
    <3>3. req[h].op \in Displacing
      BY <3>1, <3>2 DEF AboutRight, Taking, Removing, Displacing
    <3>4. req[h].task # t
      BY <3>1, <3>3 DEF RunsApartFrom
    <3>5. TaskList'[t] = TaskList[t]
      BY <1>0, <3>1, <3>4 DEF TypeOK
    <3>6. QED
      BY <2>1, <2>2, <3>5 DEF FromListed
  <2>4. CASE ~(DeleteTaskUnlist(h) \/ DeleteTaskUnlistAgain(h))
    <3>1. UNCHANGED TaskList
      BY <1>6, <2>4 DEF Serve, Save, SyncTaskToNode, AddTaskCheck, AddTaskLoad, AddTaskJob,
        DeleteTaskRemove, DeleteTaskKill, memoryVars, PushTask, CreateReport
    <3>2. QED
      BY <1>1, <2>1, <2>2, <3>1
  <2>5. QED
    BY <2>3, <2>4
<1>7. ASSUME NEW h \in Handlers, AddTaskPublish(h)
      PROVE  Goal
  <2>1. /\ req[h].pc = "publish" /\ req[h].task \in Tasks
        /\ TaskList' = [TaskList EXCEPT ![req[h].task] = req[h].entry]
    BY <1>7 DEF AddTaskPublish, At, WellFormed
  <2>2. \A g \in Handlers : g # h => req'[g] = req[g]
    BY <1>7, RequestSteps DEF RequestShape, Serve
  <2>3. CASE req[h].task = t
    <3>1. AboutRight(req[h], t)
      BY <2>1, <2>3 DEF SchedInv, RequestRight
    <3>2. TaskList[t] = NoEntry
      BY <2>1, <3>1 DEF AboutRight, Making
    <3>3. PICK g \in Handlers : /\ req[g].pc = "publish" /\ req[g].task = t
                               /\ req[g].entry = run[r].entry
      BY <1>0, <3>2 DEF FromListed
    <3>4. g = h
      BY <2>1, <2>3, <3>3 DEF RequestsApart
    <3>5. QED
      BY <1>0, <2>1, <2>3, <3>3, <3>4 DEF TypeOK
  <2>4. CASE req[h].task # t
    <3>1. TaskList'[t] = TaskList[t]
      BY <1>0, <2>1, <2>4 DEF TypeOK
    <3>2. QED
      BY <2>2, <2>4, <3>1 DEF FromListed
  <2>5. QED
    BY <2>3, <2>4
<1>8. CASE \E h \in Handlers : Request(h) \/ Serve(h)
  BY <1>5, <1>6, <1>7, <1>8
<1>9. CASE \E s \in Runs : \/ \E e \in EntryId : Tick(s, e)
                           \/ \E u \in Tasks : StartOnceTask(s, u)
                           \/ Go(s)
  BY <1>4, <1>9
<1>10. QED
  BY <1>2, <1>3, <1>8, <1>9 DEF Next, Crash, Boot

LEMMA FromListedNext ==
  ASSUME TypeOK, WellFormed, ListedOnce, SchedInv, RequestsApart,
         RunsApartFrom(Displacing), FromListedInv, [Next]_vars
  PROVE  FromListedInv'
<1>1. CASE ServerDies
  BY <1>1 DEF ServerDies, NoRun, FromListedInv, FromListed
<1>2. CASE ~ServerDies
  <2> SUFFICES ASSUME NEW r \in Runs, run'[r].pc # "free", run'[r].entry # NoEntry
               PROVE  \/ run'[r].entry = TaskList'[run'[r].task]
                      \/ \E h \in Handlers : /\ req'[h].pc = "publish"
                                             /\ req'[h].task = run'[r].task
                                             /\ req'[h].entry = run'[r].entry
    BY DEF FromListedInv, FromListed, Once
  <2>1. CASE run[r].pc # "free" /\ run'[r].entry = run[r].entry /\ run'[r].task = run[r].task
    BY <1>2, <2>1, ListedSteps DEF FromListedInv, Once
  <2>2. CASE run[r].pc = "free"
    <3>1. PICK e \in EntryId : Tick(r, e)
      <4>1. ~ \E h \in Handlers : Request(h) \/ Serve(h)
        BY <2>2, RequestSparesRuns
      <4>2. ASSUME NEW s \in Runs, Go(s)
            PROVE  FALSE
        BY <1>2, <2>2, <4>2, GoSteps DEF RunShape
      <4>3. ASSUME NEW s \in Runs, NEW t \in Tasks, StartOnceTask(s, t)
            PROVE  FALSE
        BY <2>2, <4>3, SpawnSteps DEF StartOnceTask
      <4>4. ASSUME NEW s \in Runs, NEW e \in EntryId, Tick(s, e)
            PROVE  s = r
        BY <2>2, <4>4, SpawnSteps DEF Tick
      <4>5. ~(Boot \/ Transaction \/ UNCHANGED vars)
        BY <2>2, TransactionSteps DEF Boot, BootLoad, BootDone, BootAddTask, vars
      <4>6. QED
        BY <1>2, <4>1, <4>2, <4>3, <4>4, <4>5 DEF Next, Crash
    <3>2. e \in cron /\ inst[e].task \in Tasks /\ UNCHANGED <<TaskList, req>>
      BY <3>1 DEF Tick, WellFormed, Unchanged4Run
    <3>3. run'[r].entry = e /\ run'[r].task = inst[e].task
      BY <3>1, SpawnSteps DEF Tick
    <3>4. QED
      BY <3>2, <3>3, FiredFromListed
  <2>3. QED
    <3>1. CASE run[r].pc # "free"
      <4>1. Stands(r) \/ Goes(r) \/ Ends(r)
        BY <1>2, <3>1, RunStep DEF Begins
      <4>2. run'[r].entry = run[r].entry
        BY <4>1 DEF Stands, Goes, Ends
      <4>3. run'[r].task = run[r].task
        <5>1. CASE \E s \in Runs : Go(s)
          BY <1>2, <5>1, GoSteps DEF RunShape
        <5>2. CASE \E h \in Handlers : Request(h) \/ Serve(h)
          BY <5>2, RequestSparesRuns
        <5>3. ASSUME NEW s \in Runs, NEW e \in EntryId, Tick(s, e)
              PROVE  run'[r] = run[r]
          BY <3>1, <5>3, SpawnSteps DEF Tick
        <5>4. ASSUME NEW s \in Runs, NEW t \in Tasks, StartOnceTask(s, t)
              PROVE  run'[r] = run[r]
          BY <3>1, <5>4, SpawnSteps DEF StartOnceTask
        <5>5. CASE Boot \/ Transaction \/ UNCHANGED vars
          BY <5>5, TransactionSteps DEF Boot, BootLoad, BootDone, BootAddTask, vars
        <5>6. QED
          BY <1>2, <5>1, <5>2, <5>3, <5>4, <5>5 DEF Next, Crash
      <4>4. QED
        BY <2>1, <3>1, <4>2, <4>3
    <3>2. QED
      BY <2>2, <3>1
<1>3. QED
  BY <1>1, <1>2

LEMMA FromListedCorrect ==
  Spec /\ []RequestsApart /\ []RunsApartFrom(Displacing) => []FromListedInv
<1>1. Init => FromListedInv
  BY DEF Init, FromListedInv, FromListed, NoRun
<1>2. TypeOK /\ WellFormed /\ ListedOnce /\ SchedInv /\ RequestsApart
        /\ RunsApartFrom(Displacing) /\ FromListedInv /\ [Next]_vars
      => FromListedInv'
  BY FromListedNext
<1>3. QED
  BY <1>1, <1>2, SchedCorrect, PTL DEF Spec

(* The strategy of a task holds for the task, and not only for each of its *)
(* instances, as long as no stop or edit of it meets a scheduled run.      *)
THEOREM TasksExclude ==
  Spec /\ []RequestsApart /\ []RunsApartFrom({"stop", "edit"}) => []TaskExclusion
<1>1. ASSUME TypeOK, WellFormed, SchedInv, RequestsApart, FromListedInv,
             StrategyExclusion,
             NEW r \in Runs, NEW s \in Runs, r # s, run[r].task = run[s].task,
             ~Once(r), ~Once(s), run[r].pc \in Inside, run[s].pc \in Inside
      PROVE  run[r].cfg.strategy = "parallel" \/ run[s].cfg.strategy = "parallel"
  <2> DEFINE t == run[r].task
  <2>0. /\ run[r].pc # "free" /\ run[s].pc # "free" /\ t \in Tasks
        /\ run[r].entry # NoEntry /\ run[s].entry # NoEntry
    BY <1>1 DEF Inside, Working, WellFormed, Once
  <2>1. ASSUME NEW h \in Handlers, req[h].pc = "publish", req[h].task = t
        PROVE  /\ TaskList[t] = NoEntry
               /\ \A g \in Handlers : req[g].pc = "publish" /\ req[g].task = t => g = h
    BY <1>1, <2>1 DEF SchedInv, RequestRight, AboutRight, Making, RequestsApart
  <2>2. FromListed(r) /\ FromListed(s)
    BY <1>1 DEF FromListedInv
  <2>3. run[r].entry = run[s].entry
    BY <1>1, <2>0, <2>1, <2>2 DEF FromListed
  <2>4. QED
    BY <1>1, <2>3 DEF StrategyExclusion
<1>2. TypeOK /\ WellFormed /\ SchedInv /\ RequestsApart /\ FromListedInv
        /\ StrategyExclusion => TaskExclusion
  BY <1>1 DEF TaskExclusion
<1>3. QED
  BY <1>2, SchedCorrect, FromListedCorrect, StrategiesExclude, PTL DEF Displacing

(* A run that ends finds the instance it dereferences, so that nothing     *)
(* panics there, as long as no request about its task meets it.            *)
THEOREM CleanupFinds ==
  Spec /\ []RequestsApart /\ []RunsApartFrom({"stop", "edit", "start", "add"})
    => []CleanupFindsInstance
<1>1. RunsApartFrom({"stop", "edit", "start", "add"}) => RunsApartFrom(Displacing)
  BY DEF RunsApartFrom, Displacing
<1>2. ASSUME TypeOK, WellFormed, FromListedInv, SchedInv,
             RunsApartFrom({"stop", "edit", "start", "add"}),
             \A h \in Handlers : OnItsWay(h),
             NEW r \in Runs, run[r].pc = "cleanup"
      PROVE  TaskList[run[r].task] # NoEntry
  <2>1. ~Once(r) /\ FromListed(r)
    BY <1>2 DEF WellFormed, FromListedInv
  <2>2. ASSUME NEW h \in Handlers, req[h].pc = "publish"
        PROVE  req[h].task # run[r].task
    <3>1. req[h].op \in {"stop", "edit", "start", "add"}
      BY <1>2, <2>2 DEF OnItsWay
    <3>2. QED
      BY <1>2, <2>1, <2>2, <3>1 DEF RunsApartFrom
  <2>3. QED
    BY <1>2, <2>1, <2>2 DEF FromListed, Once
<1>3. TypeOK /\ WellFormed /\ FromListedInv /\ SchedInv
        /\ RunsApartFrom({"stop", "edit", "start", "add"})
        /\ (\A h \in Handlers : OnItsWay(h)) => CleanupFindsInstance
  BY <1>2 DEF CleanupFindsInstance
<1>4. QED
  BY <1>1, <1>3, SchedCorrect, FromListedCorrect, RequestsOnTheirWay, PTL
-----------------------------------------------------------------------------
(***************************************************************************)
(* Whole rows written back.  A request to stop or start a task that has    *)
(* not saved yet holds the settings of the row.                            *)
(***************************************************************************)
Switching(q) == q.op \in {"stop", "start"} /\ q.pc \in ToBeSaved
CopyCurrent(h) ==
  Switching(req[h]) /\ Live(req[h].task) => req[h].snap.cfg = row[req[h].task].cfg

LEMMA SwitchSteps ==
  ASSUME TypeOK, WellFormed, [Next]_vars, NEW h \in Handlers, Switching(req'[h])
  PROVE  \/ /\ Switching(req[h]) /\ req'[h].task = req[h].task /\ req'[h].snap = req[h].snap
         \/ /\ row' = row /\ req'[h].snap.cfg = row[req'[h].task].cfg
<1>0. req \in [Handlers -> Req] /\ row \in [Tasks -> Row]
  BY DEF TypeOK
<1>1. CASE req'[h] = req[h]
  BY <1>1
<1>2. CASE ServerDies
  BY <1>2 DEF ServerDies, NoReq, Switching, ToBeSaved
<1>3. ASSUME NEW t \in Tasks, StopTask(h, t) \/ StartTask(h, t)
      PROVE  row' = row /\ req'[h].snap.cfg = row[req'[h].task].cfg
  <2>1. PICK op, pc, d : d \in BOOLEAN /\ Accept(h, op, pc, t, [row[t] EXCEPT !.disabled = d])
    <3>1. CASE StopTask(h, t)
      BY <3>1 DEF StopTask
    <3>2. CASE StartTask(h, t)
      BY <3>2 DEF StartTask
    <3>3. QED
      BY <1>3, <3>1, <3>2
  <2>2. req'[h].task = t /\ req'[h].snap = [row[t] EXCEPT !.disabled = d]
    BY <1>0, <2>1 DEF Accept
  <2>3. [row[t] EXCEPT !.disabled = d].cfg = row[t].cfg
    BY <1>0 DEF Row
  <2>4. QED
    BY <1>3, <2>2, <2>3 DEF StopTask, StartTask, dbVars
<1>4. ASSUME NEW t \in Tasks, NEW c \in Configs, NEW d \in BOOLEAN,
             EditTask(h, t, c, d) \/ AddTask(h, t, c, d)
      PROVE  FALSE
  <2>1. req'[h].op \in {"edit", "add"}
    BY <1>0, <1>4 DEF EditTask, AddTask, Accept
  <2>2. QED
    BY <2>1 DEF Switching
<1>4a. ASSUME NEW t \in Tasks, AgentReportTaskResult(h, t)
       PROVE  FALSE
  BY <1>0, <1>4a DEF AgentReportTaskResult, Accept, Switching
<1>5. CASE Serve(h)
  <2>1. Proceeds(h)
    BY <1>5, ServeProceeds
  <2>2. req'[h].op = req[h].op /\ Switching(req[h]) /\ req[h].pc # "save"
    BY <2>1 DEF Proceeds, Switching, ToBeSaved
  <2>3. req'[h].task = req[h].task /\ req'[h].snap = req[h].snap
    <3>1. ASSUME NEW pc, Goto(h, pc)
          PROVE  req'[h].task = req[h].task /\ req'[h].snap = req[h].snap
      BY <3>1, RequestRecords
    <3>2. ~CallAddTask(h) /\ ~Respond(h)
      BY RequestRecords DEF Switching, ToBeSaved, NoReq
    <3>3. ASSUME AfterDelete(h)
          PROVE  req'[h].task = req[h].task /\ req'[h].snap = req[h].snap
      BY <1>0, <3>2, <3>3 DEF AfterDelete, Req
    <3>4. QED
      BY <1>0, <1>5, <2>2, <3>1, <3>2, <3>3
      DEF Serve, Save, SyncTaskToNode, AddTaskCheck, AddTaskLoad, AddTaskJob, AddTaskPublish,
          DeleteTaskRemove, DeleteTaskKill, DeleteTaskUnlist, DeleteTaskUnlistAgain, At,
          Switching, ToBeSaved, Req, PushTask, CreateReport
  <2>4. QED
    BY <2>2, <2>3
<1>6. ASSUME NEW g \in Handlers, g # h, Request(g) \/ Serve(g)
      PROVE  req'[h] = req[h]
  BY <1>6, RequestSteps DEF RequestShape
<1>7. ASSUME NEW r \in Runs, Go(r), ~ServerDies
      PROVE  req'[h] = req[h]
  BY <1>7 DEF Go, Acquire, ValidateDependency, CreateLog, StartProcess, AddTaskRunningIns, Exit,
    Wake, AfterRun, Cleanup, Panic, Unchanged4Run
<1>8. CASE Transaction
  BY <1>8, TransactionSteps
<1>9. QED
  BY <1>1, <1>2, <1>3, <1>4, <1>4a, <1>5, <1>6, <1>7, <1>8 DEF Next, Request, Boot, BootLoad,
    BootDone, BootAddTask, Crash, Tick, StartOnceTask, Unchanged4Run, vars

(* Who writes the task table.                                              *)
LEMMA RowSteps ==
  ASSUME [Next]_vars
  PROVE  \/ row' = row
         \/ \E t \in Tasks : DeleteTask(t)
         \/ \E items \in ImportFiles : ImportTasks(items)
         \/ \E h \in Handlers, t \in Tasks, c \in Configs, d \in BOOLEAN : AddTask(h, t, c, d)
         \/ \E h \in Handlers : Save(h)
<1>1. ASSUME NEW h \in Handlers, Request(h) \/ Serve(h)
      PROVE  \/ row' = row \/ Save(h)
             \/ \E t \in Tasks, c \in Configs, d \in BOOLEAN : AddTask(h, t, c, d)
  BY <1>1 DEF Request, Serve, StopTask, StartTask, EditTask, SyncTaskToNode,
    AddTaskCheck, AddTaskLoad, AddTaskJob, AddTaskPublish, DeleteTaskRemove, DeleteTaskKill,
    DeleteTaskUnlist, DeleteTaskUnlistAgain, dbVars,
    PushTask, CreateReport, AgentReportTaskResult
<1>2. ASSUME NEW r \in Runs, Go(r)
      PROVE  row' = row
  BY <1>2 DEF Go, Acquire, ValidateDependency, CreateLog, StartProcess, AddTaskRunningIns,
    Exit, Wake, AfterRun, Cleanup, Panic, Unchanged4Run, ServerDies, dbVars
<1>3. QED
  BY <1>1, <1>2 DEF Next, Transaction, Boot, BootLoad, BootDone,
    BootAddTask, Crash, ServerDies, Tick, StartOnceTask, Unchanged4Run, dbVars, vars

(* An import makes new rows and leaves the others alone.                   *)
LEMMA ImportedElsewhere ==
  ASSUME NEW items \in ImportFiles, ImportTasks(items), NEW t \in Tasks, row[t].state # "none"
  PROVE  row'[t] = row[t]
<1>1. t \notin DOMAIN items
  BY DEF ImportFiles
<1>2. QED
  BY <1>1 DEF ImportTasks

(* The settings of a row in use are written by a save.                     *)
LEMMA SettingsSteps ==
  ASSUME TypeOK, [Next]_vars, NEW t \in Tasks, row[t].state # "none",
         row'[t].cfg # row[t].cfg
  PROVE  \E h \in Handlers : /\ At(h, "save") /\ req[h].task = t
                             /\ Live(t) /\ row'[t].cfg = req[h].snap.cfg
<1>0. row \in [Tasks -> Row] /\ row' # row
  BY DEF TypeOK
<1>1. ASSUME NEW u \in Tasks, DeleteTask(u) PROVE FALSE
  BY <1>0, <1>1 DEF DeleteTask, Row
<1>2. ASSUME NEW items \in ImportFiles, ImportTasks(items) PROVE FALSE
  BY <1>2, ImportedElsewhere
<1>3. ASSUME NEW h \in Handlers, NEW u \in Tasks, NEW c \in Configs, NEW d \in BOOLEAN,
             AddTask(h, u, c, d)
      PROVE  FALSE
  BY <1>0, <1>3 DEF AddTask
<1>4. ASSUME NEW h \in Handlers, Save(h)
      PROVE  /\ At(h, "save") /\ req[h].task = t
             /\ Live(t) /\ row'[t].cfg = req[h].snap.cfg
  BY <1>0, <1>4 DEF Save
<1>5. QED
  BY <1>0, <1>1, <1>2, <1>3, <1>4, RowSteps

LEMMA SettingsKept ==
  ASSUME TypeOK, WellFormed, \A h \in Handlers : OnItsWay(h) /\ CopyCurrent(h), [Next]_vars,
         NEW t \in Tasks, Live(t), row'[t].cfg # row[t].cfg
  PROVE  \E h \in Handlers : At(h, "save") /\ req[h].op = "edit" /\ req[h].task = t
<1>1. PICK h \in Handlers : /\ At(h, "save") /\ req[h].task = t
                            /\ row'[t].cfg = req[h].snap.cfg
  BY SettingsSteps DEF Live
<1>2. req[h].op \in {"stop", "start", "edit"}
  BY <1>1 DEF At, OnItsWay
<1>3. ~Switching(req[h])
  BY <1>1 DEF CopyCurrent
<1>4. QED
  BY <1>1, <1>2, <1>3 DEF Switching, ToBeSaved, At

(* A deleted row does not come back.                                       *)
LEMMA LiveBefore ==
  ASSUME TypeOK, WellFormed, [Next]_vars, NEW t \in Tasks,
         row[t].state # "none", row'[t].state = "live"
  PROVE  Live(t)
<1>0. row \in [Tasks -> Row]
  BY DEF TypeOK
<1>1. CASE row' = row
  BY <1>1 DEF Live
<1>2. ASSUME NEW u \in Tasks, DeleteTask(u) PROVE Live(t)
  BY <1>0, <1>2 DEF DeleteTask, Row, Live
<1>3. ASSUME NEW items \in ImportFiles, ImportTasks(items) PROVE Live(t)
  <2>1. row'[t] = row[t]
    BY <1>3, ImportedElsewhere
  <2>2. QED
    BY <2>1 DEF Live
<1>4. ASSUME NEW h \in Handlers, NEW u \in Tasks, NEW c \in Configs, NEW d \in BOOLEAN,
             AddTask(h, u, c, d)
      PROVE  Live(t)
  BY <1>0, <1>4 DEF AddTask, Live
<1>5. ASSUME NEW h \in Handlers, Save(h) PROVE Live(t)
  BY <1>0, <1>5 DEF Save, Live
<1>6. QED
  BY <1>1, <1>2, <1>3, <1>4, <1>5, RowSteps

LEMMA CopiesStayCurrent ==
  ASSUME TypeOK, WellFormed, RequestsApart, SchedInv, \A h \in Handlers : CopyCurrent(h),
         [Next]_vars, NEW h \in Handlers
  PROVE  CopyCurrent(h)'
<1> SUFFICES ASSUME Switching(req'[h]), row'[req'[h].task].state = "live"
             PROVE  req'[h].snap.cfg = row'[req'[h].task].cfg
  BY DEF CopyCurrent, Live
<1>1. CASE row' = row /\ req'[h].snap.cfg = row[req'[h].task].cfg
  BY <1>1
<1>2. CASE Switching(req[h]) /\ req'[h].task = req[h].task /\ req'[h].snap = req[h].snap
  <2> DEFINE t == req[h].task
  <2>1. t \in Tasks /\ req[h].pc \notin Aside
    BY <1>2 DEF Switching, ToBeSaved, WellFormed
  <2>2. row[t].state # "none"
    BY <2>1 DEF SchedInv, RequestRight, AboutRight
  <2>3. req[h].snap.cfg = row[t].cfg
    BY <1>2, <2>1, <2>2, LiveBefore DEF CopyCurrent
  <2>4. CASE row'[t].cfg # row[t].cfg
    <3>1. PICK g \in Handlers : /\ At(g, "save") /\ req[g].task = t
                                /\ row'[t].cfg = req[g].snap.cfg
      BY <2>1, <2>2, <2>4, SettingsSteps
    <3>2. g = h
      BY <2>1, <3>1 DEF RequestsApart, At
    <3>3. QED
      BY <1>2, <3>1, <3>2
  <2>5. QED
    BY <1>2, <2>3, <2>4
<1>3. QED
  BY <1>1, <1>2, SwitchSteps

(* What an edit has set stays until the next edit, although every request  *)
(* writes whole rows, as long as requests do not meet about one task.      *)
THEOREM SettingsStay == Spec /\ []RequestsApart => SettingsChangeByEdit
<1> DEFINE Current == \A h \in Handlers : CopyCurrent(h)
           OnWay == \A h \in Handlers : OnItsWay(h)
<1>1. Init => Current
  BY DEF Init, CopyCurrent, Switching, NoReq, ToBeSaved
<1>2. TypeOK /\ WellFormed /\ RequestsApart /\ SchedInv /\ Current /\ [Next]_vars => Current'
  BY CopiesStayCurrent
<1>3. TypeOK /\ WellFormed /\ OnWay /\ Current /\ [Next]_vars =>
        [\A t \in Tasks : Live(t) /\ row'[t].cfg # row[t].cfg =>
           \E h \in Handlers : At(h, "save") /\ req[h].op = "edit" /\ req[h].task = t]_row
  BY SettingsKept
<1>4. QED
  BY <1>1, <1>2, <1>3, Shape, SchedCorrect, RequestsOnTheirWay, PTL DEF Spec, SettingsChangeByEdit

-----------------------------------------------------------------------------
(***************************************************************************)
(* The schedule implements the timetable.                                  *)
(***************************************************************************)
Publishing(t) == \E h \in Handlers : req[h].pc = "publish" /\ req[h].task = t

LEMMA CronBelow ==
  ASSUME TypeOK, ListedOnce, SchedInv, NEW e \in cron
  PROVE  e \in EntryId /\ e < nextEntry /\ e # NoEntry /\ nextEntry \in Nat
<1>1. e \in EntryId /\ e # NoEntry /\ nextEntry \in Nat
  BY ConstantsAssumption DEF TypeOK, EntryId, NoEntry
<1>2. EntryRight(e)
  BY DEF SchedInv
<1>3. QED
  BY <1>1, <1>2 DEF EntryRight, ListedOnce

(* What is fired is the listed instance, if it is on cron.                 *)
LEMMA ListedFired ==
  ASSUME TypeOK, WellFormed, ListedOnce, SchedInv, NEW t \in Tasks, ~Publishing(t)
  PROVE  Fired(t) = IF TaskList[t] \in cron THEN {inst[TaskList[t]].cfg} ELSE {}
<1>1. ASSUME NEW e \in cron, inst[e].task = t PROVE e = TaskList[t]
  BY <1>1, FiredFromListed DEF Publishing
<1>2. ASSUME TaskList[t] \in cron PROVE inst[TaskList[t]].task = t
  BY <1>2, CronBelow DEF ListedOnce
<1>3. QED
  BY <1>1, <1>2 DEF Fired

(* What is fired for a task depends on its entries alone.                  *)
LEMMA FiredSame ==
  ASSUME NEW t, \A e \in cron \cup cron' :
                  (e \in cron /\ inst[e].task = t) \/ (e \in cron' /\ inst'[e].task = t) =>
                    /\ e \in cron /\ e \in cron'
                    /\ inst'[e].task = inst[e].task /\ inst'[e].cfg = inst[e].cfg
  PROVE  Fired(t)' = Fired(t)
<1>1. {e \in cron : inst[e].task = t} = {e \in cron' : inst'[e].task = t}
  OBVIOUS
<1>2. \A e \in {e \in cron : inst[e].task = t} : inst'[e].cfg = inst[e].cfg
  OBVIOUS
<1>3. QED
  BY <1>1, <1>2 DEF Fired

LEMMA FiredKept ==
  ASSUME TypeOK, ListedOnce, SchedInv, InstancesKept, cron' = cron, NEW t
  PROVE  Fired(t)' = Fired(t)
<1>1. \A e \in cron : inst'[e].task = inst[e].task /\ inst'[e].cfg = inst[e].cfg
  BY CronBelow DEF InstancesKept
<1>2. QED
  BY <1>1, FiredSame

RightNow(t) ==
  \/ row[t].state = "deleted"
  \/ Fired(t) = Wanted(t)
  \/ Fired(t) = {} /\ Wanted(t) \subseteq {c \in Config : c.node = "unknown"}

(* The table is followed while no request is about the task.               *)
LEMMA UntouchedRight ==
  ASSUME TypeOK, WellFormed, ListedOnce, SchedInv, NEW t \in Tasks, phase = "up", Untouched(t)
  PROVE  RightNow(t)
<1>0. row[t] \in Row /\ row[t].cfg \in Config /\ TaskRight(t) /\ NoEntry \notin cron
  BY CronBelow DEF TypeOK, Row, SchedInv
<1>1. Fired(t) = IF TaskList[t] \in cron THEN {inst[TaskList[t]].cfg} ELSE {}
  BY ListedFired DEF Publishing, Untouched
<1>2. CASE row[t].state = "none"
  BY <1>0, <1>1, <1>2 DEF TaskRight, Live, Wanted, RightNow
<1>3. CASE Live(t) /\ TaskList[t] # NoEntry
  <2>1. TaskList[t] \in cron
    BY <1>0, <1>3 DEF TaskRight, Untouched, Removing
  <2>2. Wanted(t) = {inst[TaskList[t]].cfg}
    BY <1>0, <1>3 DEF TaskRight, Agrees, Wanted
  <2>3. QED
    BY <1>1, <2>1, <2>2 DEF RightNow
<1>4. CASE Live(t) /\ TaskList[t] = NoEntry
  <2>1. row[t].disabled \/ row[t].cfg.node # "master"
    BY <1>0, <1>4 DEF TaskRight, Covered
  <2>2. Wanted(t) = {} \/ (Wanted(t) = {row[t].cfg} /\ row[t].cfg.node = "unknown")
    BY <1>0, <2>1 DEF Wanted, IsLocal, Config, Node
  <2>3. QED
    BY <1>0, <1>1, <1>4, <2>2 DEF RightNow
<1>5. QED
  BY <1>0, <1>2, <1>3, <1>4 DEF Live, Row, RightNow

AllRight == phase = "up" => \A t \in Tasks : Untouched(t) => RightNow(t)

LEMMA UntouchedAllRight ==
  ASSUME TypeOK, WellFormed, ListedOnce, SchedInv
  PROVE  AllRight
BY UntouchedRight DEF AllRight

(***************************************************************************)
(* The steps of the timetable, read off the variables of the scheduler.    *)
(***************************************************************************)
WantedKept == \A u \in Tasks : Wanted(u)' = Wanted(u)
FiredStays == \A u \in Tasks : Fired(u)' = Fired(u)
GoneKept   == \A u \in Tasks : row'[u].state = "deleted" <=> row[u].state = "deleted"
TouchedKept == \A u \in Tasks : Untouched(u)' <=> Untouched(u)
OnlyWantedAt(t) == \A u \in Tasks \ {t} : Wanted(u)' = Wanted(u)
OnlyTouchedAt(t) == \A u \in Tasks \ {t} : Untouched(u)' <=> Untouched(u)

LEMMA TableStutters ==
  ASSUME phase' = phase, WantedKept, FiredStays, GoneKept, TouchedKept
  PROVE  Table!Next \/ UNCHANGED Table!vars
BY DEF WantedKept, FiredStays, GoneKept, TouchedKept, Table!vars

LEMMA TableBegins ==
  ASSUME NEW t \in Tasks, phase = "up", phase' = phase, FiredStays, GoneKept,
         Untouched(t), ~Untouched(t)', OnlyTouchedAt(t),
         WantedKept \/ (Wanted(t) = {} /\ OnlyWantedAt(t))
  PROVE  Table!Next
<1>1. Table!Begin(t)
  BY DEF FiredStays, GoneKept, OnlyTouchedAt, WantedKept, OnlyWantedAt, Table!Begin,
    Table!OnlyAskedAt
<1>2. QED
  BY <1>1 DEF Table!Next

LEMMA TableAsks ==
  ASSUME NEW t \in Tasks, phase' = phase, FiredStays, GoneKept, TouchedKept, ~Untouched(t),
         OnlyWantedAt(t)
  PROVE  Table!Next
<1>1. Table!Ask(t)
  BY DEF FiredStays, GoneKept, TouchedKept, OnlyWantedAt, Table!Ask, Table!OnlyAskedAt
<1>2. QED
  BY <1>1 DEF Table!Next

LEMMA TableChanges ==
  ASSUME NEW t \in Tasks, phase' = phase, WantedKept, GoneKept, TouchedKept, ~Untouched(t),
         \A u \in Tasks \ {t} : Fired(u)' = Fired(u),
         Fired(t)' = {} \/ Fired(t)' = Wanted(t) \/ row[t].state = "deleted"
  PROVE  Table!Next
<1>1. Table!Change(t)
  BY DEF WantedKept, GoneKept, TouchedKept, Table!Change, Table!OnlyFiredAt
<1>2. QED
  BY <1>1 DEF Table!Next

LEMMA TableFinishes ==
  ASSUME NEW t \in Tasks, phase' = phase, FiredStays, GoneKept, OnlyTouchedAt(t),
         ~Untouched(t), Untouched(t)', OnlyWantedAt(t), RightNow(t)'
  PROVE  Table!Next
<1>1. Table!Right(t)'
  BY DEF RightNow, Table!Right
<1>2. Table!Finish(t)
  BY <1>1 DEF FiredStays, GoneKept, OnlyTouchedAt, OnlyWantedAt, Table!Finish,
    Table!OnlyAskedAt
<1>3. QED
  BY <1>2 DEF Table!Next

(***************************************************************************)
(* Every step of the scheduler is one of these.                            *)
(***************************************************************************)
LEMMA ServeKeepsTask ==
  ASSUME TypeOK, NEW h \in Handlers, Serve(h), ~PushTask(h), ~CreateReport(h)
  PROVE  req[h].pc \notin Aside /\ (req'[h].pc \notin Aside => req'[h].task = req[h].task)
<1>0. req \in [Handlers -> Req]
  BY DEF TypeOK
<1>1. req[h].pc \notin Aside
  BY DEF Serve, At, Save, SyncTaskToNode, AddTaskCheck, AddTaskLoad, AddTaskJob,
    AddTaskPublish, DeleteTaskRemove, DeleteTaskKill, DeleteTaskUnlist, DeleteTaskUnlistAgain
<1>2. ASSUME Respond(h) \/ PushFirst(h) \/ CallAddTask(h) \/ \E pc : Goto(h, pc)
      PROVE  req'[h].pc \notin Aside => req'[h].task = req[h].task
  BY <1>2, RequestRecords
<1>3. ASSUME AfterDelete(h)
      PROVE  req'[h].pc \notin Aside => req'[h].task = req[h].task
  BY <1>0, <1>2, <1>3 DEF AfterDelete, Req
<1>4. CASE AddTaskLoad(h)
  BY <1>0, <1>1, <1>2, <1>4 DEF AddTaskLoad, AddTaskReturns, Req
<1>5. CASE AddTaskJob(h)
  BY <1>0, <1>1, <1>5 DEF AddTaskJob, Req
<1>6. CASE DeleteTaskRemove(h)
  BY <1>0, <1>1, <1>3, <1>6 DEF DeleteTaskRemove, Req
<1>7. QED
  BY <1>1, <1>2, <1>3, <1>4, <1>5, <1>6 DEF Serve, Save, SyncTaskToNode, AddTaskCheck,
    AddTaskPublish, AddTaskReturns, DeleteTaskKill, DeleteTaskUnlist, DeleteTaskUnlistAgain

(* A request that begins or goes on meets no other about its task.         *)
LEMMA TouchedSteps ==
  ASSUME RequestsApart, RequestsApart', NEW h \in Handlers, NEW t \in Tasks,
         \A g \in Handlers : g # h => req'[g] = req[g],
         req[h].pc \notin Aside => req[h].task = t,
         req'[h].pc \notin Aside => req'[h].task = t,
         req[h].pc \notin Aside \/ req'[h].pc \notin Aside
  PROVE  /\ OnlyTouchedAt(t)
         /\ Untouched(t) <=> req[h].pc \in Aside
         /\ Untouched(t)' <=> req'[h].pc \in Aside
<1>1. OnlyTouchedAt(t)
  BY DEF OnlyTouchedAt, Untouched
<1>2. ASSUME req[h].pc \in Aside PROVE Untouched(t)
  BY <1>2 DEF RequestsApart, Untouched
<1>3. ASSUME req'[h].pc \in Aside PROVE Untouched(t)'
  BY <1>3 DEF RequestsApart, Untouched
<1>4. QED
  BY <1>1, <1>2, <1>3 DEF Untouched

(* A request that is aside and stays there is none of the timetable's.     *)
LEMMA TableAside ==
  ASSUME NEW h \in Handlers, req[h].pc \in Aside, req'[h].pc \in Aside,
         \A g \in Handlers : g # h => req'[g] = req[g],
         UNCHANGED <<phase, row, cron, inst>>
  PROVE  Table!Next \/ UNCHANGED Table!vars
<1>1. TouchedKept
  BY DEF TouchedKept, Untouched
<1>2. FiredStays /\ GoneKept /\ WantedKept
  BY DEF FiredStays, Fired, GoneKept, WantedKept, Wanted, Live
<1>3. QED
  BY <1>1, <1>2, TableStutters

LEMMA TablePush ==
  ASSUME TypeOK, NEW h \in Handlers, PushTask(h) \/ CreateReport(h)
  PROVE  Table!Next \/ UNCHANGED Table!vars
<1>1. /\ req[h].pc \in Aside /\ Respond(h)
      /\ UNCHANGED <<phase, row, cron, inst>>
  BY DEF PushTask, CreateReport, At, dbVars, cronVars
<1>2. req'[h].pc \in Aside /\ \A g \in Handlers : g # h => req'[g] = req[g]
  BY <1>1, RequestRecords DEF Respond, TypeOK
<1>3. QED
  BY <1>1, <1>2, TableAside

LEMMA TableRequest ==
  ASSUME TypeOK, WellFormed, ListedOnce, SchedInv, RequestsApart, RequestsApart',
         NEW h \in Handlers, Request(h)
  PROVE  Table!Next \/ UNCHANGED Table!vars
<1>0. row \in [Tasks -> Row] /\ req \in [Handlers -> Req]
  BY DEF TypeOK
<1>a. CASE \E t \in Tasks : AgentReportTaskResult(h, t)
  <2>1. /\ req[h].pc \in Aside /\ req'[h].pc \in Aside
        /\ \A g \in Handlers : g # h => req'[g] = req[g]
        /\ UNCHANGED <<phase, row, cron, inst>>
    BY <1>0, <1>a DEF AgentReportTaskResult, Accept, Idle, dbVars, cronVars
  <2>2. QED
    BY <2>1, TableAside
<1>b. SUFFICES ASSUME ~ \E t \in Tasks : AgentReportTaskResult(h, t)
               PROVE  Table!Next
  BY <1>a
<1>1. PICK t \in Tasks : \E op, pc, snap : pc \notin Aside /\ Accept(h, op, pc, t, snap)
  BY <1>b DEF Request, StopTask, StartTask, EditTask, AddTask
<1>2. req'[h].pc \notin Aside /\ req'[h].task = t /\ \A g \in Handlers : g # h => req'[g] = req[g]
  BY <1>0, <1>1 DEF Accept
<1>3. /\ phase = "up" /\ phase' = phase /\ req[h].pc \in Aside
      /\ cron' = cron /\ inst' = inst
  BY <1>b DEF Request, StopTask, StartTask, EditTask, AddTask, Idle, cronVars
<1>4. FiredStays
  BY <1>3 DEF FiredStays, Fired
<1>5. Untouched(t) /\ ~Untouched(t)' /\ OnlyTouchedAt(t)
  BY <1>2, <1>3, TouchedSteps
<1>6. CASE row' = row
  BY <1>3, <1>4, <1>5, <1>6, TableBegins DEF WantedKept, Wanted, Live, GoneKept
<1>7. ASSUME NEW u \in Tasks, NEW c \in Configs, NEW d \in BOOLEAN, AddTask(h, u, c, d)
      PROVE  Table!Next
  <2>1. u = t /\ row[t].state = "none"
    BY <1>0, <1>2, <1>7 DEF AddTask, Accept
  <2>2. row' = [row EXCEPT ![t] = [state |-> "live", disabled |-> d, cfg |-> c]]
    BY <1>7, <2>1 DEF AddTask
  <2>3. GoneKept /\ Wanted(t) = {} /\ OnlyWantedAt(t)
    BY <1>0, <2>1, <2>2 DEF GoneKept, Wanted, OnlyWantedAt, Live
  <2>4. QED
    BY <1>3, <1>4, <1>5, <2>3, TableBegins
<1>8. QED
  BY <1>b, <1>6, <1>7 DEF Request, StopTask, StartTask, EditTask, dbVars

LEMMA TableServe ==
  ASSUME TypeOK, WellFormed, ListedOnce, KnownInv, SchedInv, RequestsApart,
         AllRight', RequestsApart',
         NEW h \in Handlers, Serve(h), ~PushTask(h), ~CreateReport(h)
  PROVE  Table!Next \/ UNCHANGED Table!vars
<1>a. /\ req[h].pc \notin Aside /\ (req'[h].pc \notin Aside => req'[h].task = req[h].task)
      /\ row \in [Tasks -> Row] /\ req \in [Handlers -> Req] /\ req[h].task \in Tasks
  BY ServeKeepsTask DEF TypeOK, WellFormed
<1>b. PICK t \in Tasks : t = req[h].task
  BY <1>a
<1>0. /\ req[h].pc \notin Aside /\ t = req[h].task /\ (req'[h].pc \notin Aside => req'[h].task = t)
      /\ row \in [Tasks -> Row] /\ req \in [Handlers -> Req]
  BY <1>a, <1>b
<1>1. phase = "up" /\ phase' = phase /\ AboutRight(req[h], t)
  <2>1. phase' = phase
    BY DEF Serve, Save, SyncTaskToNode, AddTaskCheck, AddTaskLoad, AddTaskJob, AddTaskPublish,
      DeleteTaskRemove, DeleteTaskKill, DeleteTaskUnlist, DeleteTaskUnlistAgain,
      PushTask, CreateReport
  <2>2. QED
    BY <1>0, <2>1 DEF SchedInv, RequestRight, AboutRight
<1>2. /\ OnlyTouchedAt(t) /\ ~Untouched(t)
      /\ Untouched(t)' <=> req'[h].pc \in Aside
  BY <1>0, TouchedSteps, RequestSteps DEF RequestShape
<1>3. ASSUME FiredStays, GoneKept, OnlyWantedAt(t), WantedKept \/ Save(h)
      PROVE  Table!Next \/ UNCHANGED Table!vars
  <2>1. CASE req'[h].pc \in Aside
    <3>1. RightNow(t)'
      BY <1>0, <1>1, <1>2, <2>1 DEF AllRight
    <3>2. QED
      BY <1>0, <1>1, <1>2, <1>3, <2>1, <3>1, TableFinishes
  <2>2. CASE req'[h].pc \notin Aside
    <3>1. TouchedKept
      BY <1>2, <2>2 DEF TouchedKept, OnlyTouchedAt
    <3>2. QED
      BY <1>0, <1>1, <1>2, <1>3, <3>1, TableAsks
  <2>3. QED
    BY <2>1, <2>2
<1>4. CASE Save(h)
  <2>1. cron' = cron /\ inst' = inst /\ row' = IF Live(t) THEN [row EXCEPT ![t] = req[h].snap] ELSE row
    BY <1>0, <1>4 DEF Save, cronVars
  <2>2. req[h].snap.state = "live"
    BY <1>4 DEF Save, At, KnownInv, CopyKnown, ToBeSaved
  <2>3. FiredStays /\ GoneKept /\ OnlyWantedAt(t)
    BY <1>0, <2>1, <2>2 DEF FiredStays, Fired, GoneKept, OnlyWantedAt, Wanted, Live
  <2>4. QED
    BY <1>3, <1>4, <2>3
<1>5. ASSUME row' = row
      PROVE  WantedKept /\ GoneKept /\ OnlyWantedAt(t)
  BY <1>5 DEF WantedKept, GoneKept, OnlyWantedAt, Wanted, Live
<1>6. CASE row' = row /\ cron' = cron /\ inst' = inst
  BY <1>3, <1>5, <1>6 DEF FiredStays, Fired
<1>7. \A g \in Handlers : req[g].pc \notin Aside /\ req[g].task = t => g = h
  BY <1>0 DEF RequestsApart
<1>8. \A u \in Tasks \ {t} : Untouched(u)' <=> Untouched(u)
  BY <1>2 DEF OnlyTouchedAt
<1>9. CASE AddTaskJob(h)
  <2>1. /\ cron' = cron \cup {nextEntry} /\ nextEntry' = nextEntry + 1 /\ row' = row
        /\ inst' = [inst EXCEPT ![nextEntry] = [task |-> t, cfg |-> req[h].snap.cfg, running |-> {}]]
        /\ req'[h].pc = "publish" /\ req[h].pc = "job"
    BY <1>0, <1>9 DEF AddTaskJob, At, dbVars, Req
  <2>2. /\ nextEntry \in EntryId /\ inst \in [EntryId -> Inst]
        /\ \A e \in cron : e # nextEntry /\ inst'[e] = inst[e]
        /\ inst'[nextEntry].task = t /\ inst'[nextEntry].cfg = req[h].snap.cfg
    <3>1. nextEntry \in EntryId /\ inst \in [EntryId -> Inst]
      BY <1>9, ConstantsAssumption DEF AddTaskJob, TypeOK, EntryId
    <3>2. \A e \in cron : e # nextEntry /\ e \in EntryId
      BY CronBelow
    <3>3. QED
      BY <2>1, <3>1, <3>2
  <2>3. \A u \in Tasks \ {t} : Fired(u)' = Fired(u)
    <3>1. ASSUME NEW u \in Tasks \ {t} PROVE Fired(u)' = Fired(u)
      BY <2>1, <2>2, FiredSame
    <3>2. QED
      BY <3>1
  <2>4. Fired(t) = {}
    <3>1. TaskList[t] = NoEntry /\ ~Publishing(t)
      BY <1>1, <1>7, <2>1 DEF AboutRight, Making, Publishing
    <3>2. NoEntry \notin cron
      BY CronBelow
    <3>3. QED
      BY <1>0, <3>1, <3>2, ListedFired
  <2>5. Fired(t)' = {req[h].snap.cfg}
    <3>1. \A e \in cron : inst[e].task # t
      BY <2>4 DEF Fired
    <3>2. {e \in cron' : inst'[e].task = t} = {nextEntry}
      BY <2>1, <2>2, <3>1
    <3>3. QED
      BY <2>2, <3>2 DEF Fired
  <2>6. row[t].state = "deleted" \/ Wanted(t) = {req[h].snap.cfg}
    BY <1>0, <1>1, <2>1 DEF AboutRight, RowRight, Wanted, Live, Row
  <2>7. TouchedKept
    BY <1>2, <2>1 DEF TouchedKept, OnlyTouchedAt
  <2>8. QED
    BY <1>0, <1>1, <1>2, <1>5, <2>1, <2>3, <2>5, <2>6, <2>7, TableChanges
<1>10. CASE DeleteTaskRemove(h)
  <2>1. /\ cron' = cron \ {TaskList[t]} /\ inst' = inst /\ row' = row /\ req[h].pc = "remove"
        /\ TaskList[t] = NoEntry \/ req'[h].pc = "kill"
    BY <1>0, <1>10 DEF DeleteTaskRemove, At, dbVars, Req
  <2>2. CASE TaskList[t] \notin cron
    <3>1. cron' = cron
      BY <2>1, <2>2
    <3>2. QED
      BY <1>6, <2>1, <3>1
  <2>3. CASE TaskList[t] \in cron
    <3>1. req'[h].pc = "kill"
      BY <2>1, <2>3, CronBelow
    <3>2. inst[TaskList[t]].task = t
      BY <1>0, <2>3, CronBelow DEF ListedOnce
    <3>3. \A u \in Tasks \ {t} : Fired(u)' = Fired(u)
      <4>1. ASSUME NEW u \in Tasks \ {t} PROVE Fired(u)' = Fired(u)
        BY <2>1, <3>2, FiredSame
      <4>2. QED
        BY <4>1
    <3>4. Fired(t)' = {}
      <4>1. ASSUME NEW e \in cron, inst[e].task = t PROVE e = TaskList[t]
        BY <1>0, <1>7, <2>1, <4>1, FiredFromListed
      <4>2. {e \in cron' : inst'[e].task = t} = {}
        BY <2>1, <4>1
      <4>3. QED
        BY <4>2 DEF Fired
    <3>5. TouchedKept
      BY <1>2, <3>1 DEF TouchedKept, OnlyTouchedAt
    <3>6. QED
      BY <1>0, <1>1, <1>2, <1>5, <2>1, <3>3, <3>4, <3>5, TableChanges
  <2>4. QED
    BY <2>2, <2>3
<1>11. QED
  BY <1>4, <1>6, <1>9, <1>10 DEF Serve, SyncTaskToNode, AddTaskCheck, AddTaskLoad, AddTaskPublish,
    DeleteTaskKill, DeleteTaskUnlist, DeleteTaskUnlistAgain, dbVars, cronVars

LEMMA TableRuns ==
  ASSUME TypeOK, WellFormed, ListedOnce, SchedInv, [Next]_vars, ~ServerDies,
         UNCHANGED <<phase, row, cron, req>>
  PROVE  UNCHANGED Table!vars
<1>1. FiredStays
  BY InstancesKeptNext, FiredKept DEF FiredStays
<1>2. WantedKept /\ GoneKept /\ TouchedKept
  BY DEF WantedKept, Wanted, Live, GoneKept, TouchedKept, Untouched
<1>3. QED
  BY <1>1, <1>2 DEF WantedKept, FiredStays, GoneKept, TouchedKept, Table!vars

LEMMA TableBoot ==
  ASSUME TypeOK, WellFormed, ListedOnce, SchedInv, AllRight', Boot
  PROVE  Table!Next \/ UNCHANGED Table!vars
<1>1. row' = row /\ req' = req
  BY DEF Boot, BootLoad, BootDone, BootAddTask, dbVars
<1>2. WantedKept /\ GoneKept /\ TouchedKept
  BY <1>1 DEF WantedKept, Wanted, Live, GoneKept, TouchedKept, Untouched
<1>3. ASSUME cron' = cron, inst' = inst
      PROVE  FiredStays
  BY <1>3 DEF FiredStays, Fired
<1>4. CASE BootLoad
  <2>1. Table!Boot
    BY <1>2, <1>3, <1>4 DEF BootLoad, cronVars, WantedKept, GoneKept, TouchedKept, FiredStays,
      Table!Boot
  <2>2. QED
    BY <2>1 DEF Table!Next
<1>5. CASE BootDone
  <2>1. phase = "booting" /\ phase' = "up" /\ FiredStays
    BY <1>3, <1>5 DEF BootDone, cronVars
  <2>2. \A t \in Tasks : Untouched(t)'
    BY <1>1, <2>1 DEF SchedInv, RequestRight, AboutRight, Untouched
  <2>3. \A t \in Tasks : \/ row[t].state = "deleted" \/ Fired(t) = Wanted(t)
                         \/ Fired(t) = {} /\ Wanted(t) \subseteq {c \in Config : c.node = "unknown"}
    BY <1>2, <2>1, <2>2 DEF AllRight, RightNow, WantedKept, FiredStays, GoneKept
  <2>4. Table!Open
    BY <1>2, <2>1, <2>3 DEF WantedKept, GoneKept, TouchedKept, FiredStays, Table!Open, Table!Right
  <2>5. QED
    BY <2>4 DEF Table!Next
<1>6. ASSUME NEW t \in Tasks, BootAddTask(t)
      PROVE  Table!Next \/ UNCHANGED Table!vars
  <2>1. CASE UNCHANGED cronVars
    <3>1. FiredStays /\ phase' = phase
      BY <1>3, <1>6, <2>1 DEF BootAddTask, cronVars
    <3>2. QED
      BY <1>2, <3>1, TableStutters
  <2>2. CASE ~UNCHANGED cronVars
    <3>1. /\ phase = "booting" /\ phase' = phase /\ TaskList[t] = NoEntry /\ nextEntry <= MaxEntries
          /\ cron' = cron \cup {nextEntry} /\ Wanted(t) = {row[t].cfg}
          /\ inst' = [inst EXCEPT ![nextEntry] = [task |-> t, cfg |-> row[t].cfg, running |-> {}]]
      BY <1>6, <2>2 DEF BootAddTask, Wanted
    <3>2. /\ inst'[nextEntry].task = t /\ inst'[nextEntry].cfg = row[t].cfg
          /\ \A e \in cron : e # nextEntry /\ inst'[e] = inst[e]
      <4>1. nextEntry \in EntryId /\ inst \in [EntryId -> Inst]
        BY <3>1, ConstantsAssumption DEF TypeOK, EntryId
      <4>2. \A e \in cron : e # nextEntry /\ e \in EntryId
        BY CronBelow
      <4>3. QED
        BY <3>1, <4>1, <4>2
    <3>3. \A u \in Tasks \ {t} : Fired(u)' = Fired(u)
      <4>1. ASSUME NEW u \in Tasks \ {t} PROVE Fired(u)' = Fired(u)
        BY <3>1, <3>2, FiredSame
      <4>2. QED
        BY <4>1
    <3>4. Fired(t) = {}
      <4>1. ~Publishing(t)
        BY <3>1 DEF SchedInv, RequestRight, AboutRight, Publishing
      <4>2. NoEntry \notin cron
        BY CronBelow
      <4>3. QED
        BY <3>1, <4>1, <4>2, ListedFired
    <3>5. Fired(t)' = {row[t].cfg}
      <4>1. \A e \in cron : inst[e].task # t
        BY <3>4 DEF Fired
      <4>2. {e \in cron' : inst'[e].task = t} = {nextEntry}
        BY <3>1, <3>2, <4>1
      <4>3. QED
        BY <3>2, <4>2 DEF Fired
    <3>6. Table!Plan(t)
      BY <1>2, <3>1, <3>3, <3>4, <3>5 DEF WantedKept, GoneKept, TouchedKept, Table!Plan
    <3>7. QED
      BY <3>6 DEF Table!Next
  <2>3. QED
    BY <2>1, <2>2
<1>7. QED
  BY <1>4, <1>5, <1>6 DEF Boot

LEMMA TableTransaction ==
  ASSUME TypeOK, Transaction
  PROVE  Table!Next \/ UNCHANGED Table!vars
<1>0. row \in [Tasks -> Row]
  BY DEF TypeOK
<1>1. phase = "up" /\ phase' = phase /\ cron' = cron /\ inst' = inst /\ req' = req
  BY DEF Transaction, DeleteTask, ImportTasks, cronVars
<1>2. FiredStays /\ TouchedKept
  BY <1>1 DEF FiredStays, Fired, TouchedKept, Untouched
<1>3. ASSUME NEW t \in Tasks, DeleteTask(t) PROVE Table!Next
  <2>1. row' = [row EXCEPT ![t].state = "deleted"]
    BY <1>3 DEF DeleteTask
  <2>2. /\ row'[t].state = "deleted" /\ Wanted(t)' = {}
        /\ \A u \in Tasks \ {t} : row'[u] = row[u] /\ Wanted(u)' = Wanted(u)
    BY <1>0, <2>1 DEF Wanted, Live, Row
  <2>3. Table!Delete(t)
    BY <1>1, <1>2, <2>2 DEF FiredStays, TouchedKept, Table!Delete
  <2>4. QED
    BY <2>3 DEF Table!Next
<1>4. ASSUME NEW items \in ImportFiles, ImportTasks(items)
      PROVE  UNCHANGED Table!vars
  <2>1. PICK m \in OldToNew(items) :
          /\ \A t \in DOMAIN items : ImportAccepted(items, m, t)
          /\ row' = [t \in Tasks |->
                       IF t \in DOMAIN items
                       THEN [state |-> "live", disabled |-> TRUE,
                             cfg |-> [items[t].cfg EXCEPT !.dep = ImportedDep(items, m, t)]]
                       ELSE row[t]]
    BY <1>4 DEF ImportTasks
  <2>2. \A t \in DOMAIN items : row[t].state = "none"
    BY DEF ImportFiles
  <2>3. WantedKept /\ GoneKept
    BY <2>1, <2>2 DEF WantedKept, GoneKept, Wanted, Live
  <2>4. QED
    BY <1>1, <1>2, <2>3 DEF WantedKept, FiredStays, GoneKept, TouchedKept, Table!vars
<1>5. QED
  BY <1>3, <1>4 DEF Transaction

LEMMA TableDies ==
  ASSUME ServerDies
  PROVE  Table!Next
<1>1. /\ phase' = "down" /\ row' = row /\ cron' = {} /\ req' = [h \in Handlers |-> NoReq]
  BY DEF ServerDies, dbVars
<1>2. WantedKept /\ GoneKept
  BY <1>1 DEF WantedKept, Wanted, Live, GoneKept
<1>3. \A t \in Tasks : Fired(t)' = {} /\ Untouched(t)'
  BY <1>1 DEF Fired, Untouched, NoReq
<1>4. Table!Die
  BY <1>1, <1>2, <1>3 DEF WantedKept, GoneKept, Table!Die, Table!Nothing
<1>5. QED
  BY <1>4 DEF Table!Next

LEMMA TableInit == Init => Table!Init
BY DEF Init, NoRow, NoReq, Fired, Wanted, Live, Untouched, Table!Init, Table!Nothing

LEMMA TableNext ==
  ASSUME TypeOK, WellFormed, ListedOnce, KnownInv, SchedInv, RequestsApart,
         AllRight', RequestsApart', [Next]_vars
  PROVE  Table!Next \/ UNCHANGED Table!vars
<1>1. CASE ServerDies
  BY <1>1, TableDies
<1>2. CASE ~ServerDies /\ UNCHANGED <<phase, row, cron, req>>
  BY <1>2, TableRuns
<1>3. ASSUME NEW r \in Runs, Go(r)
      PROVE  ServerDies \/ UNCHANGED <<phase, row, cron, req>>
  BY <1>3 DEF Go, Acquire, ValidateDependency, CreateLog, StartProcess, AddTaskRunningIns, Exit,
    Wake, AfterRun, Cleanup, Panic, Unchanged4Run
<1>4. ASSUME NEW r \in Runs, NEW t \in Tasks, StartOnceTask(r, t)
      PROVE  UNCHANGED <<phase, row, cron, req>>
  BY <1>4 DEF StartOnceTask, Unchanged4Run
<1>5. ASSUME NEW r \in Runs, NEW e \in EntryId, Tick(r, e)
      PROVE  UNCHANGED <<phase, row, cron, req>>
  BY <1>5 DEF Tick, Unchanged4Run
<1>6. CASE UNCHANGED vars
  BY <1>1, <1>2, <1>6 DEF vars
<1>7. CASE Next
  BY <1>1, <1>2, <1>3, <1>4, <1>5, <1>7, TableBoot, TableRequest, TableServe, TablePush,
     TableTransaction
    DEF Next, Crash
<1>8. QED
  BY <1>6, <1>7

(* What the cron library fires for a task changes only at a start, at a    *)
(* death, or under a request about the task, and whenever such a request   *)
(* is answered it is what the row of the task asks for, as long as no two  *)
(* requests meet about one task (task.go AddTask, DeleteTask, Start).      *)
THEOREM ScheduleFollowsTable == Spec /\ []RequestsApart => FollowsTable
<1>1. TypeOK /\ WellFormed /\ ListedOnce /\ KnownInv /\ SchedInv /\ RequestsApart /\ AllRight' /\ RequestsApart'
        /\ [Next]_vars => Table!Next \/ UNCHANGED Table!vars
  BY TableNext
<1>2. TypeOK /\ WellFormed /\ ListedOnce /\ SchedInv => AllRight
  BY UntouchedAllRight
<1>3. QED
  BY <1>1, <1>2, TableInit, Shape, SchedCorrect, PTL DEF Spec, FollowsTable, Table!Spec

=============================================================================
