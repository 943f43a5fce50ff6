----------------------------- MODULE TaskLogPage -----------------------------
(* The running tab of a task's page                                           *)
(* (src/web/client/src/screen/taskInfo/TaskRunningLog.js): the runs of one    *)
(* task, added by pushes, each row following its run and taking itself out of *)
(* the table three seconds after the run has ended.                           *)
(*                                                                            *)
(* The handlers compute the new list from the list of the last render, which  *)
(* need not have followed the last setLogList: seen is that list.  A row that *)
(* has left keeps, in the timers it started, the list of its own last render. *)
EXTENDS Http, Sequences

CONSTANTS LogRuns,      \* the runs of the task (ids of task_log rows)
          MaxLogPushes, \* bound on the pushes under way to this client
          MaxTimers     \* bound on the timers of one row

ASSUME TaskLogPageAssumption == MaxLogPushes \in Nat /\ MaxTimers \in Nat

VARIABLES
    runStage,       \* where each run is at the server
    logPushes,      \* pushes about runs under way, in order
    logCall,        \* the call for the list of running runs, with its answer
    logList,        \* what setLogList was last given
    seen,           \* the list of the last render
    rowStatus,      \* each mounted row's copy of its run's status
    rowOpen,        \* rows whose output dialog is open
    timers,         \* timers started by each row and not fired yet
    frozen,         \* the list a row that has left still closes over
    told,           \* history: runs the page has been told of
    late,           \* history: runs whose row was mounted as running too late
    collided        \* history: a list was computed from one that was not the last

tlServer == <<runStage, logPushes>>
tlRows == <<rowStatus, rowOpen, timers, frozen>>
tlVars == <<runStage, logPushes, logCall, logList, seen, rowStatus, rowOpen,
            timers, frozen, told, late, collided>>

RunStages == {"none", "created", "running", "ended", "removed"}
PushKinds == {"add", "on", "off"}
RowStatuses == {"none", "on", "off"}

TaskLogPageInit ==
    /\ runStage \in [LogRuns -> {"none", "running"}]
    /\ logPushes = <<>>
    /\ logCall = [stage |-> "sent", on |-> {}, off |-> {}]
    /\ logList = {} /\ seen = {}
    /\ rowStatus = [r \in LogRuns |-> "none"]
    /\ rowOpen = {}
    /\ timers = [r \in LogRuns |-> 0]
    /\ frozen = [r \in LogRuns |-> {}]
    /\ told = {} /\ late = {} /\ collided = FALSE

HasEnded(r) == runStage[r] \in {"ended", "removed"}
OffComing(r) == \E i \in 1..Len(logPushes) : logPushes[i] = [run |-> r, kind |-> "off"]

-----------------------------------------------------------------------------
(* The server: a run is created and announced, starts and enters              *)
(* RunningInstances, ends (with or without having started) and is removed.    *)
RunStep(r, from, to, kind) ==
    /\ runStage[r] \in from
    /\ Len(logPushes) < MaxLogPushes
    /\ runStage' = [runStage EXCEPT ![r] = to]
    /\ logPushes' = IF kind = "" THEN logPushes
                    ELSE Append(logPushes, [run |-> r, kind |-> kind])
    /\ UNCHANGED <<logCall, logList, seen, tlRows, told, late, collided>>

SendNewTaskLog(r) == RunStep(r, {"none"}, "created", "add")
RunStarts(r) == RunStep(r, {"created"}, "running", "on")
AfterRun(r) == RunStep(r, {"created", "running"}, "ended", "off")
RemoveInstance(r) == RunStep(r, {"ended"}, "removed", "")

(* The answer lists RunningInstances with the status of each row; a run that  *)
(* never started is not among them.  A task that was stopped has no instance, *)
(* and the answer is empty whatever still runs.                               *)
GetTaskRunningList ==
    /\ logCall.stage = "sent"
    /\ \E started \in SUBSET {r \in LogRuns : runStage[r] = "ended"}, listed \in BOOLEAN :
          logCall' = [stage |-> "done", off |-> IF listed THEN started ELSE {},
                      on |-> {r \in LogRuns : listed /\ runStage[r] = "running"}]
    /\ UNCHANGED <<tlServer, logList, seen, tlRows, told, late, collided>>

-----------------------------------------------------------------------------
(* The page.                                                                  *)

(* The answer replaces the list, whatever pushes have added to it.            *)
OnRunningList ==
    /\ logCall.stage = "done"
    /\ logCall' = [logCall EXCEPT !.stage = "none"]
    /\ logList' = logCall.on \cup logCall.off
    /\ told' = told \cup logCall.on
    /\ collided' = (collided \/ logList # {} \/ seen # {})
    /\ UNCHANGED <<tlServer, seen, tlRows, late>>

(* A failed call leaves the list as it is: .then throws at res.data.          *)
RunningListFails ==
    /\ logCall.stage \in {"sent", "done"}
    /\ logCall' = [logCall EXCEPT !.stage = "none"]
    /\ UNCHANGED <<tlServer, logList, seen, tlRows, told, late, collided>>

(* Mutant: the callback keeps the empty list of the first render.             *)
OnLogAddFirst ==
    /\ logPushes # <<>> /\ Head(logPushes).kind = "add"
    /\ logPushes' = Tail(logPushes)
    /\ logList' = {Head(logPushes).run}
    /\ told' = told \cup {Head(logPushes).run}
    /\ collided' = (collided \/ logList # seen)
    /\ UNCHANGED <<runStage, logCall, seen, tlRows, late>>

(* The subscription TASK_LOG_ADD puts a new run before the list last rendered.*)
OnLogAdd ==
    /\ logPushes # <<>> /\ Head(logPushes).kind = "add"
    /\ logPushes' = Tail(logPushes)
    /\ logList' = seen \cup {Head(logPushes).run}
    /\ told' = told \cup {Head(logPushes).run}
    /\ collided' = (collided \/ logList # seen)
    /\ UNCHANGED <<runStage, logCall, seen, tlRows, late>>

(* An effect on (selfLogInfo, open) starts a timer for a closed ended row.    *)
StartTimer(r) == [timers EXCEPT ![r] = @ + 1]

(* The subscription TASK_LOG of a row: nobody hears a push about a run whose  *)
(* row is not mounted yet.                                                    *)
OnLogInfo ==
    /\ logPushes # <<>> /\ Head(logPushes).kind # "add"
    /\ logPushes' = Tail(logPushes)
    /\ LET r == Head(logPushes).run
       IN  IF rowStatus[r] = "none" THEN UNCHANGED <<rowStatus, timers>>
           ELSE /\ rowStatus' = [rowStatus EXCEPT ![r] = Head(logPushes).kind]
                /\ timers' = IF Head(logPushes).kind = "off" /\ r \notin rowOpen
                             THEN StartTimer(r) ELSE timers
    /\ UNCHANGED <<runStage, logCall, logList, seen, rowOpen, frozen, told, late, collided>>

(* React renders the list: new rows mount with the status they were listed    *)
(* with, and their effects run; rows no longer listed unmount, and the timers *)
(* of one that was open or running will find nothing to do.  A row listed as  *)
(* running when the push of its end has already come is mounted too late.     *)
RenderLogList ==
    /\ logList # seen
    /\ seen' = logList
    /\ LET new == logList \ seen
           ended == new \cap logCall.off
       IN  /\ rowStatus' = [r \in LogRuns |->
                 IF r \in ended THEN "off" ELSE IF r \in new THEN "on"
                 ELSE IF r \in logList THEN rowStatus[r] ELSE "none"]
           /\ timers' = [r \in LogRuns |->
                 IF r \in ended THEN timers[r] + 1
                 ELSE IF r \in seen \ logList /\ (rowStatus[r] = "on" \/ r \in rowOpen)
                      THEN 0 ELSE timers[r]]
           /\ rowOpen' = rowOpen \cap (logList \cap seen)
           /\ frozen' = [r \in LogRuns |->
                 IF r \in seen \ logList THEN seen ELSE frozen[r]]
           /\ late' = late \cup {r \in new \ ended : HasEnded(r) /\ ~OffComing(r)}
    /\ UNCHANGED <<tlServer, logCall, logList, told, collided>>

(* Mutant: the effect that starts the timer does not depend on open.          *)
ToggleOutputOnly(r) ==
    /\ rowStatus[r] # "none" /\ timers[r] < MaxTimers
    /\ rowOpen' = IF r \in rowOpen THEN rowOpen \ {r} ELSE rowOpen \cup {r}
    /\ UNCHANGED <<tlServer, logCall, logList, seen, rowStatus, timers, frozen,
                   told, late, collided>>

(* The button of a row opens its output dialog and closes it.                 *)
ToggleOutput(r) ==
    /\ rowStatus[r] # "none" /\ timers[r] < MaxTimers
    /\ rowOpen' = IF r \in rowOpen THEN rowOpen \ {r} ELSE rowOpen \cup {r}
    /\ timers' = IF r \in rowOpen /\ rowStatus[r] = "off" THEN StartTimer(r) ELSE timers
    /\ UNCHANGED <<tlServer, logCall, logList, seen, rowStatus, frozen, told, late, collided>>

(* A timer runs the callback of the row's last render: a closed row whose run *)
(* has ended calls deleteLog, which filters the list that render closed over. *)
DeleteLog(r) ==
    /\ timers[r] > 0
    /\ timers' = [timers EXCEPT ![r] = @ - 1]
    /\ LET base == IF rowStatus[r] = "none" THEN frozen[r] ELSE seen
       IN  IF rowStatus[r] = "on" \/ r \in rowOpen
           THEN UNCHANGED <<logList, collided>>
           ELSE /\ logList' = base \ {r}
                /\ collided' = (collided \/ logList # base)
    /\ UNCHANGED <<tlServer, logCall, seen, rowStatus, rowOpen, frozen, told, late>>

TaskLogPageNext ==
    \/ \E r \in LogRuns : SendNewTaskLog(r) \/ RunStarts(r) \/ AfterRun(r)
                          \/ RemoveInstance(r)
    \/ GetTaskRunningList \/ OnRunningList \/ RunningListFails
    \/ OnLogAdd \/ OnLogInfo \/ RenderLogList
    \/ \E r \in LogRuns : ToggleOutput(r) \/ DeleteLog(r)

TaskLogPageSpec == TaskLogPageInit /\ [][TaskLogPageNext]_tlVars

-----------------------------------------------------------------------------
TaskLogPageTypeOK ==
    /\ runStage \in [LogRuns -> RunStages]
    /\ logPushes \in Seq([run : LogRuns, kind : PushKinds])
    /\ logCall \in [stage : {"none", "sent", "done"},
                    on : SUBSET LogRuns, off : SUBSET LogRuns]
    /\ logList \subseteq LogRuns /\ seen \subseteq LogRuns
    /\ rowStatus \in [LogRuns -> RowStatuses]
    /\ rowOpen \subseteq LogRuns
    /\ timers \in [LogRuns -> Nat]
    /\ frozen \in [LogRuns -> SUBSET LogRuns]
    /\ told \subseteq LogRuns /\ late \subseteq LogRuns /\ collided \in BOOLEAN

(* No row of an ended run stays for ever: while its dialog is closed there is *)
(* a timer that will take it out, or it is out and waits for the render, or   *)
(* the push that the run is over is on its way to it.  Two things can make    *)
(* it stay: that push came before the row was mounted, and nobody heard it    *)
(* (TaskRunningLog.js:71), or a list computed from an old one put it back.    *)
EndedRowTimed ==
    \A r \in seen : HasEnded(r) /\ r \notin rowOpen =>
        timers[r] > 0 \/ r \notin logList \/ OffComing(r) \/ r \in late \/ collided

(* A run the page was told of is listed at least until it has ended, unless a *)
(* list was computed from an old one or the call for the list answered late.  *)
RunKept ==
    \A r \in told \ logList : runStage[r] \in {"ended", "removed"} \/ collided
=============================================================================
