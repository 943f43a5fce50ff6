------------------------------- MODULE TaskPage -------------------------------
(* The task list of the web client (src/web/client/src/screen/taskList): the  *)
(* table or the cards, the search fields, the dialogs that add, edit and      *)
(* delete a task and the Start/Stop button, against the tasks of the server   *)
(* and the pushes it sends about them.                                        *)
(*                                                                            *)
(* A row is [live, edit, name, ver, tied, disabled].  edit stands for the     *)
(* fields a form changes, each change a new value; name for the one of them   *)
(* that pushes carry too; ver for update_time, which every Save sets and      *)
(* MySQL keeps in whole seconds.  tied is a history: the Save before fell in  *)
(* the same second.                                                           *)
EXTENDS Http, Sequences

CONSTANTS Tasks,        \* the task ids that may be in use
          NoTask,       \* the id of "no task"
          MaxMoves,     \* bound on the changes asked for, here and elsewhere
          MaxPushes     \* bound on the pushes under way to this client

ASSUME TaskPageAssumption ==
    NoTask \notin Tasks /\ MaxMoves \in Nat /\ MaxPushes \in Nat

VARIABLES
    tasks,          \* the task table of the server
    ticking,        \* what the push service has read and not yet pushed
    taskPushes,     \* pushes about tasks under way, in order
    taskWire,       \* the calls of this page
    taskList,       \* what the page was last told
    selfTask,       \* the state of each mounted TaskRow
    loading, refreshLoading,
    dialog,         \* the open dialog, its task and the one its form is filled from
    busy,           \* the call each row's Start or Stop button waits for
    isDesktop,      \* table of rows, or cards without a subscription
    moves,          \* changes asked for so far
    listFailed      \* history: some list call failed

tpServer == <<tasks, ticking, taskPushes>>
tpView == <<taskList, selfTask, loading, refreshLoading, busy, listFailed>>
tpUser == <<dialog, isDesktop>>
tpVars == <<tasks, ticking, taskPushes, taskWire, taskList, selfTask, loading,
            refreshLoading, dialog, busy, isDesktop, moves,
            listFailed>>

Row == [live : BOOLEAN, edit : Nat, name : Nat, ver : Nat, tied : BOOLEAN,
        disabled : BOOLEAN]
Gone == [live |-> FALSE, edit |-> 0, name |-> 0, ver |-> 0, tied |-> FALSE,
         disabled |-> FALSE]
NoRows == [t \in Tasks |-> Gone]

(* What a push says of a task.                                                *)
TaskPush == [task : Tasks, name : Nat, disabled : BOOLEAN]
NoPush == [task |-> NoTask, name |-> 0, disabled |-> FALSE]
TaskInfo(t, disabled) == [task |-> t, name |-> tasks[t].name, disabled |-> disabled]

ListOps == {"load", "refresh"}
TaskOps == ListOps \cup {"add", "edit", "delete", "start", "stop"}
(* of: the task whose values the form was filled with; list: the rows of the  *)
(* answer, or those that the page will filter when its delete is confirmed.   *)
TaskCall == [stage : Stages, op : TaskOps, task : Tasks \cup {NoTask},
             of : Tasks \cup {NoTask}, disabled : BOOLEAN,
             list : [Tasks -> Row], ok : BOOLEAN]
NoTaskCall == [stage |-> "none", op |-> "load", task |-> NoTask, of |-> NoTask,
               disabled |-> FALSE, list |-> NoRows, ok |-> FALSE]
NoDialog == [kind |-> "none", task |-> NoTask, of |-> NoTask]

ListCall(op) == [NoTaskCall EXCEPT !.stage = "sent", !.op = op]

-----------------------------------------------------------------------------
(* What the page shows.                                                       *)

(* A row keeps its own copy of the task, a card shows the list itself.        *)
Shown(t) == IF isDesktop THEN selfTask[t] ELSE taskList[t]

(* Mutant: the key of a row is its id alone, as the id is unique.             *)
KeyOfId(row) == <<row.live>>

(* The React key of a row, its update_time and its id: a new key mounts a new *)
(* row, two Saves in one second leave it the same.                            *)
UniKey(row) == <<row.live, row.ver>>

(* The rows mounted for list: a row whose key was there before keeps its      *)
(* copy.  While loading there are none, a card keeps no copy.                 *)
RowsFor(list, load) ==
    [t \in Tasks |->
        IF load \/ ~isDesktop THEN Gone
        ELSE IF selfTask[t].live /\ UniKey(selfTask[t]) = UniKey(list[t])
             THEN selfTask[t] ELSE list[t]]

(* Start and Stop are different components: the spinner of one goes when the  *)
(* other takes its place, or with its row.                                    *)
ButtonsFor(list, load, self) ==
    [t \in Tasks |->
        LET new == IF load THEN Gone ELSE IF isDesktop THEN self[t] ELSE list[t]
        IN  IF UniKey(new) = UniKey(Shown(t)) /\ new.disabled = Shown(t).disabled
            THEN busy[t] ELSE 0]

(* One render with the list and the loading flag given.                       *)
Render(list, load) ==
    LET self == RowsFor(list, load)
    IN  /\ taskList' = list
        /\ loading' = load
        /\ selfTask' = self
        /\ busy' = ButtonsFor(list, load, self)

TaskPageInit ==
    /\ tasks \in [Tasks -> {Gone, [Gone EXCEPT !.live = TRUE]}]
    /\ ticking = NoPush
    /\ taskPushes = <<>>
    /\ taskWire = [s \in Slots |-> IF s = 1 THEN ListCall("load") ELSE NoTaskCall]
    /\ taskList = NoRows
    /\ selfTask = NoRows
    /\ loading = TRUE
    /\ refreshLoading = FALSE
    /\ dialog = NoDialog
    /\ busy = [t \in Tasks |-> 0]
    /\ isDesktop \in BOOLEAN
    /\ moves = 0
    /\ listFailed = FALSE

-----------------------------------------------------------------------------
(* The user.  An open dialog is modal: it covers the page.                    *)

OnPage == dialog.kind = "none"

SendTask(s, call) ==
    /\ FreeSlot(taskWire, s)
    /\ taskWire' = [taskWire EXCEPT ![s] = call]

Move == moves < MaxMoves /\ moves' = moves + 1

(* handleSearch shows the skeleton: every row is unmounted.  The search       *)
(* fields only narrow the list; they are left empty here.                     *)
HandleSearch(s) ==
    /\ OnPage
    /\ SendTask(s, ListCall("load"))
    /\ Render(taskList, TRUE)
    /\ UNCHANGED <<tpServer, tpUser, refreshLoading, listFailed, moves>>

(* The button is disabled while refreshLoading.                               *)
RefreshTaskList(s) ==
    /\ OnPage /\ ~refreshLoading
    /\ SendTask(s, ListCall("refresh"))
    /\ refreshLoading' = TRUE
    /\ UNCHANGED <<tpServer, tpUser, taskList, selfTask, loading, busy,
                   listFailed, moves>>

(* Opening a dialog mounts its form, filled from the task given.              *)
OpenDialog(kind, t) ==
    /\ OnPage
    /\ dialog' = [kind |-> kind, task |-> t, of |-> t]
    /\ UNCHANGED <<tpServer, tpView, taskWire, isDesktop, moves>>

(* Mutant: the edit dialog is not modal and changes its task under the form.  *)
ShowEditOver(t) ==
    /\ ~loading /\ Shown(t).live /\ dialog.kind \in {"none", "edit"}
    /\ dialog' = [kind |-> "edit", task |-> t, of |-> IF OnPage THEN t ELSE dialog.of]
    /\ UNCHANGED <<tpServer, tpView, taskWire, isDesktop, moves>>

ShowCreateDialog == OpenDialog("add", NoTask)
ShowEditDialog(t) == ~loading /\ Shown(t).live /\ OpenDialog("edit", t)
ShowConfirmDeleteDialog(t) == ~loading /\ Shown(t).live /\ OpenDialog("delete", t)

HandleClose ==
    /\ ~OnPage
    /\ dialog' = NoDialog
    /\ UNCHANGED <<tpServer, tpView, taskWire, isDesktop, moves>>

(* What the user may have made of the fields of a form; the switch Disabled   *)
(* stands for them all.                                                       *)
FormValues == BOOLEAN

GetFormValues(op, disabled) ==
    [NoTaskCall EXCEPT !.stage = "sent", !.op = op, !.task = dialog.task,
                       !.of = dialog.of, !.disabled = disabled]

(* save sends the form; nothing keeps the user from pressing it again.        *)
TaskAddSubmit(s) ==
    /\ dialog.kind = "add" /\ Move
    /\ \E d \in FormValues : SendTask(s, GetFormValues("add", d))
    /\ UNCHANGED <<tpServer, tpView, tpUser>>
TaskEditSubmit(s) ==
    /\ dialog.kind = "edit" /\ Move
    /\ \E d \in FormValues : SendTask(s, GetFormValues("edit", d))
    /\ UNCHANGED <<tpServer, tpView, tpUser>>

(* The handler of the answer closes over the list of this moment.             *)
DeleteTask(s) ==
    /\ dialog.kind = "delete" /\ Move
    /\ SendTask(s, [GetFormValues("delete", FALSE) EXCEPT !.list = taskList])
    /\ UNCHANGED <<tpServer, tpView, tpUser>>

(* Start on a disabled row, Stop on an enabled one.                           *)
PressButton(s, t, op) ==
    /\ OnPage /\ ~loading /\ Shown(t).live /\ busy[t] = 0 /\ Move
    /\ SendTask(s, [NoTaskCall EXCEPT !.stage = "sent", !.op = op, !.task = t])
    /\ busy' = [busy EXCEPT ![t] = s]
    /\ UNCHANGED <<tpServer, tpUser, taskList, selfTask, loading,
                   refreshLoading, listFailed>>
StartTask(s, t) == Shown(t).disabled /\ PressButton(s, t, "start")
StopTask(s, t) == ~Shown(t).disabled /\ PressButton(s, t, "stop")

-----------------------------------------------------------------------------
(* The server.                                                                *)

Listed == [t \in Tasks |-> IF tasks[t].live THEN tasks[t] ELSE Gone]

(* A Save writes the whole row, in the second of the last Save or later.      *)
SaveTask(t, disabled, edited) ==
    \E sameSecond \in BOOLEAN :
       LET edit == IF edited THEN tasks[t].edit + 1 ELSE tasks[t].edit
           ver == IF sameSecond THEN tasks[t].ver ELSE tasks[t].ver + 1
       IN  tasks' = [tasks EXCEPT ![t] =
              [live |-> TRUE, edit |-> edit, name |-> edit, ver |-> ver,
               tied |-> sameSecond, disabled |-> disabled]]
Pushed(t, disabled) == Append(taskPushes, TaskInfo(t, disabled))

(* What a call does: the task table, the pushes and the code of the answer.   *)
(* Editing pushes nothing; a start whose AddTask fails is saved, not pushed   *)
(* and answered with an error; a stop whose Save fails is pushed and answered *)
(* like any other.                                                            *)
HandleTask(c) ==
    \/ c.op \in ListOps /\ UNCHANGED <<tasks, taskPushes>> /\ c.ok
    \/ UNCHANGED <<tasks, taskPushes>> /\ ~c.ok
    \/ /\ c.op = "add"
       /\ \E t \in Tasks :
            /\ tasks[t] = Gone
            /\ tasks' = [tasks EXCEPT ![t] =
                  [live |-> TRUE, edit |-> 1, name |-> 1, ver |-> 1, tied |-> FALSE,
                   disabled |-> c.disabled]]
       /\ UNCHANGED taskPushes /\ c.ok
    \/ /\ c.op \in {"edit", "delete", "start", "stop"} /\ tasks[c.task].live
       /\ \/ c.op = "edit" /\ c.ok
             /\ SaveTask(c.task, c.disabled, TRUE) /\ UNCHANGED taskPushes
          \/ c.op = "delete" /\ c.ok
             /\ tasks' = [tasks EXCEPT ![c.task].live = FALSE, ![c.task].ver = @ + 1]
             /\ UNCHANGED taskPushes
          \/ c.op = "stop" /\ c.ok
             /\ (SaveTask(c.task, TRUE, FALSE) \/ UNCHANGED tasks)
             /\ taskPushes' = Pushed(c.task, TRUE)
          \/ c.op = "start" /\ SaveTask(c.task, FALSE, FALSE)
             /\ taskPushes' = IF c.ok THEN Pushed(c.task, FALSE) ELSE taskPushes

ServeTask(s, ok) ==
    LET c == [taskWire[s] EXCEPT !.ok = ok]
        reply == IF c.op \in ListOps
                 THEN [c EXCEPT !.stage = "done", !.list = Listed]
                 ELSE [c EXCEPT !.stage = "done"]
    IN  /\ taskWire[s].stage = "sent" /\ Len(taskPushes) < MaxPushes
        /\ HandleTask(c)
        /\ taskWire' = [taskWire EXCEPT ![s] = reply]
        /\ UNCHANGED <<ticking, tpView, tpUser, moves>>

(* Another client edits, starts, stops or deletes a task.                     *)
ChangeElsewhere(t) ==
    /\ Len(taskPushes) < MaxPushes /\ Move
    /\ \E op \in {"edit", "delete", "start", "stop"}, d \in BOOLEAN :
          /\ op # "edit" => ~d
          /\ HandleTask([NoTaskCall EXCEPT !.op = op, !.task = t,
                                           !.disabled = d, !.ok = TRUE])
    /\ UNCHANGED <<ticking, taskWire, tpView, tpUser>>

(* Every second the push service goes through the tasks on the schedule: it   *)
(* reads one and then pushes what the schedule holds, that it is enabled.     *)
PushRead(t) ==
    /\ tasks[t].live /\ ~tasks[t].disabled /\ ticking = NoPush
    /\ ticking' = TaskInfo(t, FALSE)
    /\ UNCHANGED <<tasks, taskPushes, taskWire, tpView, tpUser, moves>>
PushNewestTaskInfo ==
    /\ ticking # NoPush /\ Len(taskPushes) < MaxPushes
    /\ ticking' = NoPush
    /\ taskPushes' = Append(taskPushes, ticking)
    /\ UNCHANGED <<tasks, taskWire, tpView, tpUser, moves>>

-----------------------------------------------------------------------------
(* The handlers of answers and pushes.                                        *)

(* A push is merged into the copy of a mounted row, its name as well.         *)
OnTaskPush ==
    /\ taskPushes # <<>>
    /\ taskPushes' = Tail(taskPushes)
    /\ LET t == Head(taskPushes).task
           d == Head(taskPushes).disabled
           n == Head(taskPushes).name
       IN  IF selfTask[t].live
           THEN /\ selfTask' = [selfTask EXCEPT ![t].disabled = d, ![t].name = n]
                /\ busy' = [busy EXCEPT ![t] = IF d = selfTask[t].disabled THEN @ ELSE 0]
           ELSE UNCHANGED <<selfTask, busy>>
    /\ UNCHANGED <<tasks, ticking, taskWire, taskList, loading, refreshLoading,
                   listFailed, tpUser, moves>>

(* Mutant: the spinner stops only when the answer has a list.                 *)
OnAcceptedList(s) ==
    LET c == taskWire[s]
    IN  /\ Answered(taskWire, s) /\ c.op \in ListOps
        /\ taskWire' = [taskWire EXCEPT ![s] = NoTaskCall]
        /\ Render(IF c.ok THEN c.list ELSE taskList, loading /\ c.op # "load")
        /\ refreshLoading' = (refreshLoading /\ ~(c.ok /\ c.op = "refresh"))
        /\ UNCHANGED <<tpServer, tpUser, listFailed, moves>>

(* The list of the answer replaces the old one, its spinner stops.            *)
OnTaskList(s) ==
    LET c == taskWire[s]
    IN  /\ Answered(taskWire, s) /\ c.op \in ListOps
        /\ taskWire' = [taskWire EXCEPT ![s] = NoTaskCall]
        /\ Render(IF c.ok THEN c.list ELSE taskList, loading /\ c.op # "load")
        /\ refreshLoading' = (refreshLoading /\ c.op # "refresh")
        /\ UNCHANGED <<tpServer, tpUser, listFailed, moves>>

(* A saved form refreshes the list and closes the dialog of its kind; an      *)
(* error only tells the user.                                                 *)
OnSaved(s) ==
    LET c == taskWire[s]
    IN  /\ Answered(taskWire, s) /\ c.op \in {"add", "edit"}
        /\ taskWire' = [taskWire EXCEPT ![s] =
                          IF c.ok THEN ListCall("refresh") ELSE NoTaskCall]
        /\ refreshLoading' = (refreshLoading \/ c.ok)
        /\ dialog' = IF c.ok /\ dialog.kind = c.op THEN NoDialog ELSE dialog
        /\ UNCHANGED <<tpServer, taskList, selfTask, loading, busy, listFailed,
                       isDesktop, moves>>

(* The page takes the deleted task out of the list it had when Delete was     *)
(* pressed; the dialog closes whatever the answer.                            *)
OnDeleted(s) ==
    LET c == taskWire[s]
    IN  /\ Answered(taskWire, s) /\ c.op = "delete"
        /\ taskWire' = [taskWire EXCEPT ![s] = NoTaskCall]
        /\ Render(IF c.ok THEN [c.list EXCEPT ![c.task] = Gone] ELSE taskList, loading)
        /\ dialog' = IF dialog.kind = "delete" THEN NoDialog ELSE dialog
        /\ UNCHANGED <<tpServer, refreshLoading, isDesktop,
                       listFailed, moves>>

(* Mutant: the spinner stops only when the push shows the other button.       *)
OnButtonSpinsOn(s) ==
    /\ Answered(taskWire, s) /\ taskWire[s].op \in {"start", "stop"}
    /\ taskWire' = [taskWire EXCEPT ![s] = NoTaskCall]
    /\ UNCHANGED <<tpServer, tpUser, tpView, moves>>

(* .finally stops the spinner of the button, if that button is still there.   *)
OnButton(s) ==
    /\ Answered(taskWire, s) /\ taskWire[s].op \in {"start", "stop"}
    /\ taskWire' = [taskWire EXCEPT ![s] = NoTaskCall]
    /\ busy' = [t \in Tasks |-> IF busy[t] = s THEN 0 ELSE busy[t]]
    /\ UNCHANGED <<tpServer, tpUser, taskList, selfTask, loading,
                   refreshLoading, listFailed, moves>>

(* The call fails in the transport.  getTaskList throws, so the .then that    *)
(* clears the spinner of a list call does not run.  A server that acts on a   *)
(* call given up is ChangeElsewhere.                                          *)
TaskCallFails(s) ==
    LET c == taskWire[s]
    IN  /\ Failing(taskWire, s)
        /\ taskWire' = [taskWire EXCEPT ![s] = NoTaskCall]
        /\ listFailed' = (listFailed \/ c.op \in ListOps)
        /\ dialog' = IF c.op = "delete" /\ dialog.kind = "delete" THEN NoDialog ELSE dialog
        /\ busy' = [t \in Tasks |-> IF busy[t] = s THEN 0 ELSE busy[t]]
        /\ UNCHANGED <<tpServer, taskList, selfTask, loading, refreshLoading,
                       isDesktop, moves>>

TaskPageNext ==
    \/ \E s \in Slots : HandleSearch(s) \/ RefreshTaskList(s)
    \/ ShowCreateDialog \/ HandleClose
    \/ \E t \in Tasks : ShowEditDialog(t) \/ ShowConfirmDeleteDialog(t)
    \/ \E s \in Slots : TaskAddSubmit(s) \/ TaskEditSubmit(s) \/ DeleteTask(s)
    \/ \E s \in Slots, t \in Tasks : StartTask(s, t) \/ StopTask(s, t)
    \/ \E s \in Slots, ok \in BOOLEAN : ServeTask(s, ok)
    \/ \E t \in Tasks : ChangeElsewhere(t) \/ PushRead(t)
    \/ PushNewestTaskInfo \/ OnTaskPush
    \/ \E s \in Slots : OnTaskList(s) \/ OnSaved(s) \/ OnDeleted(s) \/ OnButton(s)
    \/ \E s \in Slots : TaskCallFails(s)

TaskPageSpec == TaskPageInit /\ [][TaskPageNext]_tpVars

-----------------------------------------------------------------------------
(* Every variable of the page keeps the shape its handlers rely on.           *)
TaskPageTypeOK ==
    /\ tasks \in [Tasks -> Row]
    /\ ticking \in TaskPush \cup {NoPush}
    /\ taskPushes \in Seq(TaskPush)
    /\ taskWire \in [Slots -> TaskCall]
    /\ taskList \in [Tasks -> Row] /\ selfTask \in [Tasks -> Row]
    /\ loading \in BOOLEAN /\ refreshLoading \in BOOLEAN
    /\ dialog \in [kind : {"none", "add", "edit", "delete"},
                   task : Tasks \cup {NoTask}, of : Tasks \cup {NoTask}]
    /\ busy \in [Tasks -> Slots \cup {0}]
    /\ isDesktop \in BOOLEAN /\ moves \in Nat
    /\ listFailed \in BOOLEAN

(* A form is saved to the task it was filled from: the URL of the PUT comes   *)
(* from taskEditInfo, the body from the state of the form (TaskEdit.js:35).   *)
EditSavesItsTask ==
    \A s \in Slots : taskWire[s].op = "edit" => taskWire[s].of = taskWire[s].task

(* The page never waits for nothing: it shows the skeleton or a spinning      *)
(* Refresh button only while the list call that will end it is in flight, or  *)
(* after a list call failed, which nothing clears (TaskList.js:89-109).       *)
InFlight(op) == \E s \in Slots :
    taskWire[s].op = op /\ taskWire[s].stage \in {"sent", "done"}
SpinnersExplained ==
    \/ listFailed
    \/ (loading => InFlight("load")) /\ (refreshLoading => InFlight("refresh"))

(* And no button of a row spins without its call.                             *)
ButtonsExplained ==
    \A t \in Tasks : busy[t] # 0 =>
        /\ taskWire[busy[t]].stage \in {"sent", "done"}
        /\ taskWire[busy[t]].op \in {"start", "stop"}
        /\ taskWire[busy[t]].task = t

(* An accepted list that is still what the server holds is what the page then *)
(* shows, which is what the comment on uniKey promises (TaskList.js:82).  The *)
(* key is no more than update_time: a task saved twice within a second        *)
(* (tied) may keep a row mounted between the two Saves, and is left out.      *)
(* RefreshRenders says so of the tasks listed and of the fields that only a   *)
(* form changes, AllRendered of the name and the enabled state as well, which *)
(* pushes write too, once the pushes about the task have arrived.             *)
UpToDateList(s) ==
    OnTaskList(s) /\ taskWire[s].ok /\ ~loading' /\ taskWire[s].list = Listed
RefreshRenders ==
    [][\A s \in Slots : UpToDateList(s) => \A t \in Tasks :
          /\ Shown(t)'.live = tasks[t].live
          /\ tasks[t].live /\ ~tasks[t].tied => Shown(t)'.edit = tasks[t].edit]_tpVars
NoPushAbout(t) == \A i \in 1..Len(taskPushes) : taskPushes[i].task # t
AllRendered ==
    [][\A s \in Slots : UpToDateList(s) => \A t \in Tasks :
          tasks[t].live /\ ~tasks[t].tied /\ NoPushAbout(t) =>
             /\ Shown(t)'.disabled = tasks[t].disabled
             /\ Shown(t)'.name = tasks[t].name]_tpVars

(* What would make it so: a push is still right when it arrives, of a task    *)
(* that is still there.                                                       *)
PushStillRight ==
    LET push == Head(taskPushes)
    IN  tasks[push.task].live =>
           push.disabled = tasks[push.task].disabled /\ push.name = tasks[push.task].name
PushesArriveRight == [][OnTaskPush => PushStillRight]_tpVars
=============================================================================
