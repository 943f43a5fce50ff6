---------------------------- MODULE TaskPageProofs ----------------------------
(***************************************************************************)
(* Theorems about TaskPage, for every set of tasks, any number of calls    *)
(* under way and any number of changes and pushes.                         *)
(***************************************************************************)
EXTENDS TaskPage, TLAPS

USE TaskPageAssumption, MaxCallsAssumption

(***************************************************************************)
(* Types.  A call about a task names one, because the row or the dialog it *)
(* comes from does.                                                        *)
(***************************************************************************)
CallsNamed ==
  \A s \in Slots :
     taskWire[s].op \in {"edit", "delete", "start", "stop"} => taskWire[s].task \in Tasks
DialogNamed == dialog.kind \in {"edit", "delete"} => dialog.task \in Tasks
TypeInv == TaskPageTypeOK /\ CallsNamed /\ DialogNamed

LEMMA RowTypes ==
  Gone \in Row /\ NoRows \in [Tasks -> Row] /\ [Gone EXCEPT !.live = TRUE] \in Row
<1>1. Gone \in Row
  BY DEF Gone, Row
<1>2. NoRows \in [Tasks -> Row]
  BY <1>1 DEF NoRows
<1>3. [Gone EXCEPT !.live = TRUE] \in Row
  BY <1>1 DEF Row
<1>4. QED
  BY <1>1, <1>2, <1>3

LEMMA NoCallType ==
  /\ NoTaskCall \in TaskCall
  /\ NoTaskCall.op = "load" /\ NoTaskCall.stage = "none" /\ NoTaskCall.task = NoTask
<1>1. NoTaskCall \in TaskCall
  BY RowTypes DEF NoTaskCall, TaskCall, Stages, TaskOps, ListOps
<1>2. QED
  BY <1>1 DEF NoTaskCall

LEMMA ListCallType ==
  ASSUME NEW op \in ListOps
  PROVE  ListCall(op) \in TaskCall /\ ListCall(op).op = op /\ ListCall(op).stage = "sent"
<1>1. ListCall(op) \in TaskCall
  BY NoCallType DEF ListCall, TaskCall, Stages, TaskOps
<1>2. QED
  BY <1>1 DEF ListCall, NoTaskCall

(* A new call takes a free slot and leaves the others alone.               *)
LEMMA SendTaskType ==
  ASSUME TypeInv, NEW s \in Slots, NEW call \in TaskCall, SendTask(s, call),
         call.op \in {"edit", "delete", "start", "stop"} => call.task \in Tasks
  PROVE  taskWire' \in [Slots -> TaskCall] /\ CallsNamed'
BY DEF TypeInv, TaskPageTypeOK, SendTask, CallsNamed

(* A render keeps the types of all it writes, and starts no spinner.       *)
LEMMA RenderType ==
  ASSUME TypeInv, NEW list \in [Tasks -> Row], NEW load \in BOOLEAN, Render(list, load)
  PROVE  /\ taskList' \in [Tasks -> Row] /\ selfTask' \in [Tasks -> Row]
         /\ loading' \in BOOLEAN /\ busy' \in [Tasks -> Slots \cup {0}]
         /\ \A t \in Tasks : busy'[t] \in {busy[t], 0}
<1>1. RowsFor(list, load) \in [Tasks -> Row]
  BY RowTypes DEF RowsFor, TypeInv, TaskPageTypeOK
<1>2. \A self : ButtonsFor(list, load, self) \in [Tasks -> Slots \cup {0}]
  BY DEF ButtonsFor, TypeInv, TaskPageTypeOK
<1>3. \A self, t : t \in Tasks => ButtonsFor(list, load, self)[t] \in {busy[t], 0}
  BY DEF ButtonsFor
<1>4. QED
  BY <1>1, <1>2, <1>3 DEF Render

LEMMA InitType == TaskPageInit => TypeInv
<1> SUFFICES ASSUME TaskPageInit PROVE TypeInv
  OBVIOUS
<1>1. tasks \in [Tasks -> Row]
  BY RowTypes DEF TaskPageInit
<1>2. taskWire \in [Slots -> TaskCall] /\ CallsNamed
  <2>1. ListCall("load") \in TaskCall /\ ListCall("load").op = "load"
    BY ListCallType DEF ListOps
  <2>2. QED
    BY <2>1, NoCallType DEF TaskPageInit, CallsNamed
<1>3. dialog \in [kind : {"none", "add", "edit", "delete"},
                 task : Tasks \cup {NoTask}, of : Tasks \cup {NoTask}]
      /\ DialogNamed
  BY DEF TaskPageInit, NoDialog, DialogNamed
<1>4. taskPushes \in Seq(TaskPush)
  BY DEF TaskPageInit
<1>5. QED
  BY <1>1, <1>2, <1>3, <1>4, RowTypes DEF TaskPageInit, TypeInv, TaskPageTypeOK

(* What the server does to the task table, of a call that names its task.  *)
LEMMA HandleTaskType ==
  ASSUME TypeInv, NEW c \in TaskCall, HandleTask(c),
         c.op \in {"edit", "delete", "start", "stop"} => c.task \in Tasks
  PROVE  tasks' \in [Tasks -> Row] /\ taskPushes' \in Seq(TaskPush)
<1>a. tasks \in [Tasks -> Row] /\ taskPushes \in Seq(TaskPush)
  BY DEF TypeInv, TaskPageTypeOK
<1>1. CASE UNCHANGED <<tasks, taskPushes>>
  BY <1>1, <1>a
<1>2. ASSUME NEW t \in Tasks, UNCHANGED taskPushes, tasks' = [tasks EXCEPT ![t] =
                [live |-> TRUE, edit |-> 1, name |-> 1, ver |-> 1, tied |-> FALSE,
                 disabled |-> c.disabled]]
      PROVE  tasks' \in [Tasks -> Row] /\ taskPushes' \in Seq(TaskPush)
  <2>1. [live |-> TRUE, edit |-> 1, name |-> 1, ver |-> 1, tied |-> FALSE,
         disabled |-> c.disabled] \in Row
    BY DEF Row, TaskCall
  <2>2. QED
    BY <1>2, <1>a, <2>1
<1>3. ASSUME NEW t \in Tasks, NEW d \in BOOLEAN, NEW edited \in BOOLEAN, SaveTask(t, d, edited)
      PROVE  tasks' \in [Tasks -> Row]
  <2> DEFINE later(edit, ver, tied) ==
               [live |-> TRUE, edit |-> edit, name |-> edit, ver |-> ver, tied |-> tied,
                disabled |-> d]
             edit == IF edited THEN tasks[t].edit + 1 ELSE tasks[t].edit
  <2>1. PICK tied \in BOOLEAN :
          tasks' = [tasks EXCEPT ![t] =
                      later(edit, IF tied THEN tasks[t].ver ELSE tasks[t].ver + 1, tied)]
    BY <1>3 DEF SaveTask
  <2> DEFINE ver == IF tied THEN tasks[t].ver ELSE tasks[t].ver + 1
  <2>2. edit \in Nat /\ ver \in Nat
    BY <1>a DEF Row
  <2> HIDE DEF edit, ver
  <2>3. later(edit, ver, tied) \in Row
    BY <2>2 DEF Row
  <2> HIDE DEF later
  <2>4. tasks' = [tasks EXCEPT ![t] = later(edit, ver, tied)]
    BY <2>1 DEF ver
  <2>5. QED
    BY <1>a, <2>3, <2>4
<1>4. ASSUME NEW t \in Tasks
      PROVE  [tasks EXCEPT ![t].live = FALSE, ![t].ver = @ + 1] \in [Tasks -> Row]
  <2> DEFINE later == [tasks[t] EXCEPT !.live = FALSE, !.ver = tasks[t].ver + 1]
  <2>1. tasks[t] \in Row /\ tasks[t].ver + 1 \in Nat
    BY <1>a DEF Row
  <2>2. later \in Row
    BY <2>1 DEF Row
  <2>3. [tasks EXCEPT ![t].live = FALSE, ![t].ver = @ + 1] = [tasks EXCEPT ![t] = later]
    BY <1>a, <2>1 DEF Row
  <2> HIDE DEF later
  <2>4. QED
    BY <1>a, <2>2, <2>3
<1>5. ASSUME NEW t \in Tasks, NEW d \in BOOLEAN
      PROVE  Pushed(t, d) \in Seq(TaskPush)
  <2>1. TaskInfo(t, d) \in TaskPush
    BY <1>a DEF TaskInfo, TaskPush, Row
  <2>2. QED
    BY <1>a, <2>1 DEF Pushed
<1>6. CASE c.op \in {"edit", "delete", "start", "stop"} /\ ~UNCHANGED <<tasks, taskPushes>>
  <2>1. c.task \in Tasks /\ c.disabled \in BOOLEAN
    BY <1>6 DEF TaskCall
  <2>2. CASE c.op = "edit"
    BY <2>1, <2>2, <1>6, <1>3, <1>a DEF HandleTask, ListOps
  <2>3. CASE c.op = "delete"
    BY <2>1, <2>3, <1>6, <1>4, <1>a DEF HandleTask, ListOps
  <2>4. CASE c.op = "stop"
    BY <2>1, <2>4, <1>6, <1>3, <1>5, <1>a DEF HandleTask, ListOps
  <2>5. CASE c.op = "start"
    BY <2>1, <2>5, <1>6, <1>3, <1>5, <1>a DEF HandleTask, ListOps
  <2>6. QED
    BY <1>6, <2>2, <2>3, <2>4, <2>5
<1>7. CASE c.op \notin {"edit", "delete", "start", "stop"} /\ ~UNCHANGED <<tasks, taskPushes>>
  BY <1>7, <1>2 DEF HandleTask
<1>8. QED
  BY <1>1, <1>6, <1>7

(* What the user does: one call more, or a dialog.                         *)
LEMMA UserType ==
  ASSUME TypeInv,
         \/ \E s \in Slots : HandleSearch(s) \/ RefreshTaskList(s)
         \/ ShowCreateDialog \/ HandleClose
         \/ \E t \in Tasks : ShowEditDialog(t) \/ ShowConfirmDeleteDialog(t)
         \/ \E s \in Slots : TaskAddSubmit(s) \/ TaskEditSubmit(s) \/ DeleteTask(s)
         \/ \E s \in Slots, t \in Tasks : StartTask(s, t) \/ StopTask(s, t)
  PROVE  TypeInv'
<1> USE DEF tpServer, tpUser, tpView
<1>1. ASSUME NEW s \in Slots, HandleSearch(s) PROVE TypeInv'
  <2>1. taskWire' \in [Slots -> TaskCall] /\ CallsNamed'
    BY <1>1, SendTaskType, ListCallType DEF HandleSearch, ListOps
  <2>2. Render(taskList, TRUE)
    BY <1>1 DEF HandleSearch
  <2>3. taskList' \in [Tasks -> Row] /\ selfTask' \in [Tasks -> Row]
        /\ loading' \in BOOLEAN /\ busy' \in [Tasks -> Slots \cup {0}]
    BY <2>2, RenderType DEF TypeInv, TaskPageTypeOK
  <2>4. QED
    BY <1>1, <2>1, <2>3 DEF HandleSearch, TypeInv, TaskPageTypeOK, DialogNamed
<1>2. ASSUME NEW s \in Slots, RefreshTaskList(s) PROVE TypeInv'
  <2>1. taskWire' \in [Slots -> TaskCall] /\ CallsNamed'
    BY <1>2, SendTaskType, ListCallType DEF RefreshTaskList, ListOps
  <2>2. QED
    BY <1>2, <2>1 DEF RefreshTaskList, TypeInv, TaskPageTypeOK, DialogNamed
<1>3. ASSUME NEW kind \in {"add", "edit", "delete"}, NEW t \in Tasks \cup {NoTask},
             t \in Tasks \/ kind = "add", OpenDialog(kind, t)
      PROVE  TypeInv'
  BY <1>3 DEF OpenDialog, TypeInv, TaskPageTypeOK, CallsNamed, DialogNamed
<1>4. CASE HandleClose
  BY <1>4 DEF HandleClose, NoDialog, TypeInv, TaskPageTypeOK, CallsNamed, DialogNamed
<1>a. ASSUME NEW op \in {"add", "edit", "delete"}, NEW d \in BOOLEAN
      PROVE  /\ GetFormValues(op, d) \in TaskCall
             /\ GetFormValues(op, d).op = op
             /\ GetFormValues(op, d).task = dialog.task
  <2>1. GetFormValues(op, d) \in TaskCall
    BY NoCallType DEF GetFormValues, TaskCall, TaskOps, Stages, TypeInv, TaskPageTypeOK
  <2>2. QED
    BY <2>1 DEF GetFormValues, NoTaskCall
<1>b. ASSUME NEW s \in Slots, NEW call \in TaskCall, SendTask(s, call), Move,
             UNCHANGED <<tpServer, tpView, tpUser>>,
             call.op \in {"edit", "delete", "start", "stop"} => call.task \in Tasks
      PROVE  TypeInv'
  <2>1. taskWire' \in [Slots -> TaskCall] /\ CallsNamed'
    BY <1>b, SendTaskType
  <2>2. QED
    BY <1>b, <2>1 DEF Move, TypeInv, TaskPageTypeOK, DialogNamed
<1>5. ASSUME NEW s \in Slots, TaskAddSubmit(s) PROVE TypeInv'
  <2>1. PICK d \in BOOLEAN : SendTask(s, GetFormValues("add", d))
    BY <1>5 DEF TaskAddSubmit, FormValues
  <2>2. GetFormValues("add", d) \in TaskCall /\ GetFormValues("add", d).op = "add"
    BY <1>a
  <2>3. QED
    BY <1>5, <1>b, <2>1, <2>2 DEF TaskAddSubmit
<1>8. ASSUME NEW s \in Slots, TaskEditSubmit(s) PROVE TypeInv'
  <2>1. PICK d \in BOOLEAN : SendTask(s, GetFormValues("edit", d))
    BY <1>8 DEF TaskEditSubmit, FormValues
  <2>2. GetFormValues("edit", d) \in TaskCall /\ GetFormValues("edit", d).task \in Tasks
    BY <1>8, <1>a DEF TaskEditSubmit, TypeInv, DialogNamed
  <2>3. QED
    BY <1>8, <1>b, <2>1, <2>2 DEF TaskEditSubmit
<1>9. ASSUME NEW s \in Slots, DeleteTask(s) PROVE TypeInv'
  <2> DEFINE form == GetFormValues("delete", FALSE)
             call == [form EXCEPT !.list = taskList]
  <2>1. form \in TaskCall /\ form.task \in Tasks
    BY <1>9, <1>a DEF DeleteTask, TypeInv, DialogNamed
  <2> HIDE DEF form
  <2>2. call \in TaskCall /\ call.task \in Tasks
    BY <2>1 DEF TaskCall, TypeInv, TaskPageTypeOK
  <2>3. SendTask(s, call)
    BY <1>9 DEF DeleteTask, form
  <2> HIDE DEF call
  <2>4. QED
    BY <1>9, <1>b, <2>2, <2>3 DEF DeleteTask
<1>6. ASSUME NEW s \in Slots, NEW t \in Tasks, NEW op \in {"start", "stop"},
             PressButton(s, t, op)
      PROVE  TypeInv'
  <2> DEFINE call == [NoTaskCall EXCEPT !.stage = "sent", !.op = op, !.task = t]
  <2>1. call \in TaskCall /\ call.task \in Tasks
    BY NoCallType DEF TaskCall, TaskOps, Stages
  <2>2. taskWire' \in [Slots -> TaskCall] /\ CallsNamed'
    BY <1>6, <2>1, SendTaskType DEF PressButton
  <2>3. QED
    BY <1>6, <2>2 DEF PressButton, Move, TypeInv, TaskPageTypeOK, DialogNamed
<1>7. QED
  BY <1>1, <1>2, <1>3, <1>4, <1>5, <1>6, <1>8, <1>9
  DEF ShowCreateDialog, ShowEditDialog, ShowConfirmDeleteDialog, StartTask, StopTask

(* The server changes its tasks and answers, the page's variables stay.    *)
LEMMA ServerType ==
  ASSUME TypeInv,
         \/ \E s \in Slots, ok \in BOOLEAN : ServeTask(s, ok)
         \/ \E t \in Tasks : ChangeElsewhere(t) \/ PushRead(t)
         \/ PushNewestTaskInfo
  PROVE  TypeInv'
<1> USE DEF tpServer, tpUser, tpView
<1>a. /\ taskWire \in [Slots -> TaskCall] /\ CallsNamed
      /\ tasks \in [Tasks -> Row] /\ taskPushes \in Seq(TaskPush)
  BY DEF TypeInv, TaskPageTypeOK
<1>1. ASSUME NEW s \in Slots, NEW ok \in BOOLEAN, ServeTask(s, ok) PROVE TypeInv'
  <2> DEFINE c == [taskWire[s] EXCEPT !.ok = ok]
  <2>1. c \in TaskCall /\ c.op = taskWire[s].op /\ c.task = taskWire[s].task
    BY <1>a DEF TaskCall
  <2>2. HandleTask(c)
    BY <1>1 DEF ServeTask
  <2>3. Listed \in [Tasks -> Row]
    BY <1>a, RowTypes DEF Listed
  <2>4. PICK reply : /\ taskWire' = [taskWire EXCEPT ![s] = reply]
                     /\ \/ reply = [c EXCEPT !.stage = "done", !.list = Listed]
                        \/ reply = [c EXCEPT !.stage = "done"]
    BY <1>1 DEF ServeTask
  <2> HIDE DEF c
  <2>5. reply \in TaskCall /\ reply.op = c.op /\ reply.task = c.task
    BY <2>1, <2>3, <2>4 DEF TaskCall, Stages
  <2>6. taskWire' \in [Slots -> TaskCall] /\ CallsNamed'
    BY <1>a, <2>1, <2>4, <2>5 DEF CallsNamed
  <2>7. tasks' \in [Tasks -> Row] /\ taskPushes' \in Seq(TaskPush)
    BY <1>a, <2>1, <2>2, HandleTaskType DEF CallsNamed
  <2>8. QED
    BY <1>1, <2>6, <2>7 DEF ServeTask, TypeInv, TaskPageTypeOK, DialogNamed
<1>2. ASSUME NEW t \in Tasks, ChangeElsewhere(t) PROVE TypeInv'
  <2>1. PICK op \in {"edit", "delete", "start", "stop"}, d \in BOOLEAN :
          HandleTask([NoTaskCall EXCEPT !.op = op, !.task = t, !.disabled = d, !.ok = TRUE])
    BY <1>2 DEF ChangeElsewhere
  <2> DEFINE c == [NoTaskCall EXCEPT !.op = op, !.task = t, !.disabled = d, !.ok = TRUE]
  <2>2. c \in TaskCall /\ c.task \in Tasks
    BY NoCallType DEF TaskCall, TaskOps
  <2>3. HandleTask(c)
    BY <2>1
  <2> HIDE DEF c
  <2>4. tasks' \in [Tasks -> Row] /\ taskPushes' \in Seq(TaskPush)
    BY <2>2, <2>3, HandleTaskType
  <2>5. UNCHANGED <<ticking, taskWire, tpView, tpUser>> /\ Move
    BY <1>2 DEF ChangeElsewhere
  <2>6. QED
    BY <2>4, <2>5 DEF Move, TypeInv, TaskPageTypeOK, CallsNamed, DialogNamed
<1>3. ASSUME NEW t \in Tasks, PushRead(t) PROVE TypeInv'
  <2>1. TaskInfo(t, FALSE) \in TaskPush
    BY <1>a DEF TaskInfo, TaskPush, Row
  <2>2. QED
    BY <1>3, <2>1 DEF PushRead, TypeInv, TaskPageTypeOK, CallsNamed, DialogNamed
<1>4. CASE PushNewestTaskInfo
  <2>1. ticking \in TaskPush
    BY <1>4 DEF PushNewestTaskInfo, TypeInv, TaskPageTypeOK
  <2>2. taskPushes' \in Seq(TaskPush)
    BY <1>4, <1>a, <2>1 DEF PushNewestTaskInfo
  <2>3. QED
    BY <1>4, <2>2 DEF PushNewestTaskInfo, TypeInv, TaskPageTypeOK, CallsNamed, DialogNamed
<1>5. QED
  BY <1>1, <1>2, <1>3, <1>4

(* The handlers of the page free the slot of the call, or list anew.       *)
LEMMA FreedType ==
  ASSUME TypeInv, NEW s \in Slots
  PROVE  /\ [taskWire EXCEPT ![s] = NoTaskCall] \in [Slots -> TaskCall]
         /\ [taskWire EXCEPT ![s] = ListCall("refresh")] \in [Slots -> TaskCall]
         /\ taskWire' = [taskWire EXCEPT ![s] = NoTaskCall] => CallsNamed'
         /\ taskWire' = [taskWire EXCEPT ![s] = ListCall("refresh")] => CallsNamed'
<1>1. NoTaskCall \in TaskCall /\ NoTaskCall.op = "load"
  BY NoCallType
<1>2. ListCall("refresh") \in TaskCall /\ ListCall("refresh").op = "refresh"
  BY ListCallType DEF ListOps
<1>3. QED
  BY <1>1, <1>2 DEF TypeInv, TaskPageTypeOK, CallsNamed

LEMMA AnswerType ==
  ASSUME TypeInv,
         \/ OnTaskPush
         \/ \E s \in Slots : OnTaskList(s) \/ OnSaved(s) \/ OnDeleted(s) \/ OnButton(s)
         \/ \E s \in Slots : TaskCallFails(s)
  PROVE  TypeInv'
<1> USE DEF tpServer, tpUser, tpView
<1>a. /\ taskWire \in [Slots -> TaskCall] /\ taskPushes \in Seq(TaskPush)
      /\ taskList \in [Tasks -> Row] /\ selfTask \in [Tasks -> Row]
      /\ busy \in [Tasks -> Slots \cup {0}] /\ loading \in BOOLEAN
      /\ refreshLoading \in BOOLEAN
  BY DEF TypeInv, TaskPageTypeOK
<1>b. NoDialog.kind = "none"
      /\ NoDialog \in [kind : {"none", "add", "edit", "delete"},
                       task : Tasks \cup {NoTask}, of : Tasks \cup {NoTask}]
  BY DEF NoDialog
<1>1. CASE OnTaskPush
  <2> DEFINE t == Head(taskPushes).task
             d == Head(taskPushes).disabled
             n == Head(taskPushes).name
  <2>1. taskPushes' \in Seq(TaskPush) /\ Head(taskPushes) \in TaskPush
    BY <1>1, <1>a DEF OnTaskPush
  <2>2. t \in Tasks /\ d \in BOOLEAN /\ n \in Nat
    BY <2>1 DEF TaskPush
  <2>3. [selfTask[t] EXCEPT !.disabled = d, !.name = n] \in Row
    BY <1>a, <2>2 DEF Row
  <2>4. selfTask' \in [Tasks -> Row] /\ busy' \in [Tasks -> Slots \cup {0}]
    BY <1>1, <1>a, <2>2, <2>3 DEF OnTaskPush
  <2>5. QED
    BY <1>1, <2>1, <2>4 DEF OnTaskPush, TypeInv, TaskPageTypeOK, CallsNamed, DialogNamed
<1>2. ASSUME NEW s \in Slots, OnTaskList(s) PROVE TypeInv'
  <2> DEFINE c == taskWire[s]
  <2>1. c.list \in [Tasks -> Row] /\ (loading /\ c.op # "load") \in BOOLEAN
        /\ (refreshLoading /\ c.op # "refresh") \in BOOLEAN
    BY <1>a DEF TaskCall
  <2>2. PICK list \in [Tasks -> Row], load \in BOOLEAN : Render(list, load)
    BY <1>2, <1>a, <2>1 DEF OnTaskList
  <2>3. taskList' \in [Tasks -> Row] /\ selfTask' \in [Tasks -> Row]
        /\ loading' \in BOOLEAN /\ busy' \in [Tasks -> Slots \cup {0}]
    BY <2>2, RenderType
  <2>4. taskWire' \in [Slots -> TaskCall] /\ CallsNamed'
    BY <1>2, FreedType DEF OnTaskList
  <2>5. QED
    BY <1>2, <2>1, <2>3, <2>4 DEF OnTaskList, TypeInv, TaskPageTypeOK, DialogNamed
<1>3. ASSUME NEW s \in Slots, OnSaved(s) PROVE TypeInv'
  <2> DEFINE c == taskWire[s]
  <2>1. c.ok \in BOOLEAN
    BY <1>a DEF TaskCall
  <2>2. taskWire' \in [Slots -> TaskCall] /\ CallsNamed'
    BY <1>3, FreedType DEF OnSaved
  <2>3. refreshLoading' \in BOOLEAN
    BY <1>3, <1>a, <2>1 DEF OnSaved
  <2>4. QED
    BY <1>3, <1>b, <2>2, <2>3 DEF OnSaved, TypeInv, TaskPageTypeOK, DialogNamed
<1>4. ASSUME NEW s \in Slots, OnDeleted(s) PROVE TypeInv'
  <2> DEFINE c == taskWire[s]
  <2>1. [c.list EXCEPT ![c.task] = Gone] \in [Tasks -> Row]
    BY <1>a, RowTypes DEF TaskCall
  <2>2. PICK list \in [Tasks -> Row] : Render(list, loading)
    BY <1>4, <1>a, <2>1 DEF OnDeleted
  <2>3. taskList' \in [Tasks -> Row] /\ selfTask' \in [Tasks -> Row]
        /\ loading' \in BOOLEAN /\ busy' \in [Tasks -> Slots \cup {0}]
    BY <1>a, <2>2, RenderType
  <2>4. taskWire' \in [Slots -> TaskCall] /\ CallsNamed'
    BY <1>4, FreedType DEF OnDeleted
  <2>5. QED
    BY <1>4, <1>b, <2>3, <2>4 DEF OnDeleted, TypeInv, TaskPageTypeOK, DialogNamed
<1>5. ASSUME NEW s \in Slots, OnButton(s) PROVE TypeInv'
  <2>1. taskWire' \in [Slots -> TaskCall] /\ CallsNamed'
    BY <1>5, FreedType DEF OnButton
  <2>2. busy' \in [Tasks -> Slots \cup {0}]
    BY <1>5, <1>a DEF OnButton
  <2>3. QED
    BY <1>5, <2>1, <2>2 DEF OnButton, TypeInv, TaskPageTypeOK, DialogNamed
<1>6. ASSUME NEW s \in Slots, TaskCallFails(s) PROVE TypeInv'
  <2>1. taskWire' \in [Slots -> TaskCall] /\ CallsNamed'
    BY <1>6, FreedType DEF TaskCallFails
  <2>2. busy' \in [Tasks -> Slots \cup {0}]
    BY <1>6, <1>a DEF TaskCallFails
  <2>3. QED
    BY <1>6, <1>b, <2>1, <2>2 DEF TaskCallFails, TypeInv, TaskPageTypeOK, DialogNamed
<1>7. QED
  BY <1>1, <1>2, <1>3, <1>4, <1>5, <1>6

LEMMA TypeStep == TypeInv /\ [TaskPageNext]_tpVars => TypeInv'
<1> SUFFICES ASSUME TypeInv, [TaskPageNext]_tpVars PROVE TypeInv'
  OBVIOUS
<1>1. CASE UNCHANGED tpVars
  BY <1>1 DEF tpVars, TypeInv, TaskPageTypeOK, CallsNamed, DialogNamed
<1>2. CASE TaskPageNext
  BY <1>2, UserType, ServerType, AnswerType DEF TaskPageNext
<1>3. QED
  BY <1>1, <1>2

(***************************************************************************)
(* What a step does to the calls under way, as far as the invariants below *)
(* look at them: nothing, one call more in a free slot, one handled by the *)
(* server, one over, or one that a saved form turns into a refresh.        *)
(***************************************************************************)
CallSent(s, call) ==
  /\ taskWire[s].stage = "none"
  /\ taskWire' = [taskWire EXCEPT ![s] = call]
CallServed(s) ==
  /\ taskWire[s].stage = "sent"
  /\ \A r \in Slots \ {s} : taskWire'[r] = taskWire[r]
  /\ taskWire'[s].stage = "done"
  /\ taskWire'[s].op = taskWire[s].op /\ taskWire'[s].task = taskWire[s].task
  /\ taskWire'[s].of = taskWire[s].of
CallOver(s) == taskWire' = [taskWire EXCEPT ![s] = NoTaskCall]

LEMMA ServeTaskCall ==
  ASSUME TypeInv, NEW s \in Slots, NEW ok \in BOOLEAN, ServeTask(s, ok)
  PROVE  CallServed(s)
<1>1. taskWire \in [Slots -> TaskCall]
  BY DEF TypeInv, TaskPageTypeOK
<1>2. QED
  BY <1>1 DEF ServeTask, CallServed, TaskCall

(***************************************************************************)
(* Forms.  A dialog keeps the task its form was filled from as long as it  *)
(* is open.                                                                *)
(***************************************************************************)
EditInv == dialog.of = dialog.task /\ EditSavesItsTask

LEMMA EditInit == TaskPageInit => EditInv
BY DEF TaskPageInit, NoDialog, EditInv, EditSavesItsTask, ListCall, NoTaskCall

LEMMA EditFrame ==
  ASSUME TypeInv, EditInv, dialog'.of = dialog'.task, NEW s \in Slots,
         \/ UNCHANGED taskWire
         \/ CallServed(s) \/ CallOver(s)
         \/ \E call : /\ taskWire' = [taskWire EXCEPT ![s] = call]
                      /\ call.op = "edit" => call.of = call.task
  PROVE  EditInv'
<1>1. NoTaskCall.op # "edit"
  BY NoCallType
<1>2. \A r \in Slots : \/ taskWire'[r].op # "edit"
                       \/ taskWire'[r].of = taskWire'[r].task
  BY <1>1 DEF EditInv, EditSavesItsTask, CallServed, CallOver, TypeInv, TaskPageTypeOK
<1>3. QED
  BY <1>2 DEF EditInv, EditSavesItsTask

LEMMA EditStep == TypeInv /\ EditInv /\ [TaskPageNext]_tpVars => EditInv'
<1> SUFFICES ASSUME TypeInv, EditInv, [TaskPageNext]_tpVars PROVE EditInv'
  OBVIOUS
<1> USE DEF tpServer, tpUser, tpView
<1>a. NoDialog.of = NoDialog.task /\ dialog.of = dialog.task /\ 1 \in Slots
  BY DEF NoDialog, EditInv, Slots
<1>1. ASSUME NEW s \in Slots, HandleSearch(s) \/ RefreshTaskList(s) PROVE EditInv'
  <2>1. PICK op \in ListOps : SendTask(s, ListCall(op)) /\ UNCHANGED dialog
    BY <1>1 DEF HandleSearch, RefreshTaskList, ListOps
  <2>2. ListCall(op).op # "edit"
    BY ListCallType DEF ListOps
  <2>3. QED
    BY <1>a, <2>1, <2>2, EditFrame DEF SendTask
<1>2. ASSUME NEW kind, NEW t, OpenDialog(kind, t) PROVE EditInv'
  BY <1>2, <1>a, EditFrame DEF OpenDialog
<1>3. CASE HandleClose
  BY <1>3, <1>a, EditFrame DEF HandleClose
<1>4. ASSUME NEW s \in Slots, TaskAddSubmit(s) \/ TaskEditSubmit(s) \/ DeleteTask(s)
      PROVE  EditInv'
  <2>1. \A op, d : /\ GetFormValues(op, d).of = dialog.of
                   /\ GetFormValues(op, d).task = dialog.task
    BY DEF GetFormValues, NoTaskCall
  <2>2. [GetFormValues("delete", FALSE) EXCEPT !.list = taskList].op # "edit"
    BY DEF GetFormValues, NoTaskCall
  <2>3. CASE TaskAddSubmit(s) \/ TaskEditSubmit(s)
    <3>1. PICK op, d : SendTask(s, GetFormValues(op, d))
      BY <2>3 DEF TaskAddSubmit, TaskEditSubmit
    <3>2. GetFormValues(op, d).of = GetFormValues(op, d).task
      BY <1>a, <2>1
    <3>3. QED
      BY <2>3, <1>a, <3>1, <3>2, EditFrame DEF TaskAddSubmit, TaskEditSubmit, SendTask
  <2>4. QED
    BY <1>4, <1>a, <2>2, <2>3, EditFrame DEF TaskAddSubmit, TaskEditSubmit, DeleteTask, SendTask
<1>5. ASSUME NEW s \in Slots, NEW t \in Tasks, NEW op \in {"start", "stop"},
             PressButton(s, t, op)
      PROVE  EditInv'
  <2> DEFINE call == [NoTaskCall EXCEPT !.stage = "sent", !.op = op, !.task = t]
  <2>1. call.op # "edit"
    BY DEF NoTaskCall
  <2> HIDE DEF call
  <2>2. SendTask(s, call) /\ UNCHANGED dialog
    BY <1>5 DEF PressButton, call
  <2>3. QED
    BY <1>a, <2>1, <2>2, EditFrame DEF SendTask
<1>6. ASSUME NEW s \in Slots, NEW ok \in BOOLEAN, ServeTask(s, ok) PROVE EditInv'
  <2>1. UNCHANGED dialog
    BY <1>6 DEF ServeTask
  <2>2. QED
    BY <1>6, <1>a, <2>1, ServeTaskCall, EditFrame
<1>7. ASSUME OnTaskPush \/ UNCHANGED tpVars
               \/ PushNewestTaskInfo \/ \E t \in Tasks : ChangeElsewhere(t) \/ PushRead(t)
      PROVE  EditInv'
  <2>1. UNCHANGED <<dialog, taskWire>>
    BY <1>7 DEF OnTaskPush, tpVars, ChangeElsewhere, PushRead, PushNewestTaskInfo
  <2>2. QED
    BY <1>a, <2>1, EditFrame
<1>8. ASSUME NEW s \in Slots,
             OnTaskList(s) \/ OnDeleted(s) \/ OnButton(s) \/ TaskCallFails(s)
      PROVE  EditInv'
  <2>1. CallOver(s) /\ (UNCHANGED dialog \/ dialog' = NoDialog)
    BY <1>8 DEF OnTaskList, OnDeleted, OnButton, TaskCallFails, CallOver
  <2>2. QED
    BY <1>a, <2>1, EditFrame
<1>9. ASSUME NEW s \in Slots, OnSaved(s) PROVE EditInv'
  <2>1. UNCHANGED dialog \/ dialog' = NoDialog
    BY <1>9 DEF OnSaved
  <2>2. ListCall("refresh").op # "edit"
    BY ListCallType DEF ListOps
  <2>3. QED
    BY <1>9, <1>a, <2>1, <2>2, EditFrame DEF OnSaved, CallOver
<1>10. QED
  BY <1>1, <1>2, <1>3, <1>4, <1>5, <1>6, <1>7, <1>8, <1>9
  DEF TaskPageNext, ShowCreateDialog, ShowEditDialog, ShowConfirmDeleteDialog, StartTask,
      StopTask

(***************************************************************************)
(* Spinners of the list.  A list call in flight stays so until its answer  *)
(* or its failure.                                                         *)
(***************************************************************************)
LEMMA FlightKept ==
  ASSUME TypeInv, NEW s \in Slots, NEW op, InFlight(op),
         \/ UNCHANGED taskWire
         \/ CallServed(s)
         \/ /\ taskWire[s].stage = "none" \/ taskWire[s].op # op
            /\ \E call : taskWire' = [taskWire EXCEPT ![s] = call]
  PROVE  InFlight(op)'
<1>1. PICK r \in Slots : taskWire[r].op = op /\ taskWire[r].stage \in {"sent", "done"}
  BY DEF InFlight
<1>2. taskWire'[r].op = op /\ taskWire'[r].stage \in {"sent", "done"}
  BY <1>1 DEF CallServed, TypeInv, TaskPageTypeOK
<1>3. QED
  BY <1>2 DEF InFlight

LEMMA FlightStarts ==
  ASSUME TypeInv, NEW s \in Slots, NEW op \in ListOps,
         taskWire' = [taskWire EXCEPT ![s] = ListCall(op)]
  PROVE  InFlight(op)'
<1>1. ListCall(op).op = op /\ ListCall(op).stage = "sent"
  BY ListCallType
<1>2. taskWire'[s].op = op /\ taskWire'[s].stage = "sent"
  BY <1>1 DEF TypeInv, TaskPageTypeOK
<1>3. QED
  BY <1>2 DEF InFlight

LEMMA SpinnersInit == TaskPageInit => SpinnersExplained
<1> SUFFICES ASSUME TaskPageInit PROVE SpinnersExplained
  OBVIOUS
<1>1. ListCall("load").op = "load" /\ ListCall("load").stage = "sent"
  BY ListCallType DEF ListOps
<1>2. 1 \in Slots /\ taskWire[1] = ListCall("load")
  BY DEF TaskPageInit, Slots
<1>3. QED
  BY <1>1, <1>2 DEF TaskPageInit, SpinnersExplained, InFlight

(* Steps that touch neither spinner nor a list call.                       *)
LEMMA SpinnersFrame ==
  ASSUME TypeInv, SpinnersExplained, NEW s \in Slots,
         UNCHANGED <<loading, refreshLoading, listFailed>>,
         \/ UNCHANGED taskWire
         \/ CallServed(s)
         \/ /\ taskWire[s].stage = "none" \/ taskWire[s].op \notin ListOps
            /\ \E call : taskWire' = [taskWire EXCEPT ![s] = call]
  PROVE  SpinnersExplained'
<1>1. InFlight("load") => InFlight("load")'
  BY FlightKept DEF ListOps
<1>2. InFlight("refresh") => InFlight("refresh")'
  BY FlightKept DEF ListOps
<1>3. QED
  BY <1>1, <1>2 DEF SpinnersExplained

LEMMA SpinnersStep == TypeInv /\ SpinnersExplained /\ [TaskPageNext]_tpVars => SpinnersExplained'
<1> SUFFICES ASSUME TypeInv, SpinnersExplained, [TaskPageNext]_tpVars
             PROVE  SpinnersExplained'
  OBVIOUS
<1> USE DEF tpServer, tpUser, tpView
<1>a. 1 \in Slots /\ loading \in BOOLEAN /\ refreshLoading \in BOOLEAN /\ listFailed \in BOOLEAN
  BY DEF Slots, TypeInv, TaskPageTypeOK
<1>1. ASSUME NEW s \in Slots, HandleSearch(s) PROVE SpinnersExplained'
  <2>1. taskWire[s].stage = "none" /\ taskWire' = [taskWire EXCEPT ![s] = ListCall("load")]
    BY <1>1 DEF HandleSearch, SendTask, FreeSlot
  <2>2. InFlight("load")' /\ (InFlight("refresh") => InFlight("refresh")')
    BY <2>1, FlightStarts, FlightKept DEF ListOps
  <2>3. QED
    BY <1>1, <2>2 DEF HandleSearch, SpinnersExplained
<1>2. ASSUME NEW s \in Slots, RefreshTaskList(s) PROVE SpinnersExplained'
  <2>1. taskWire[s].stage = "none" /\ taskWire' = [taskWire EXCEPT ![s] = ListCall("refresh")]
    BY <1>2 DEF RefreshTaskList, SendTask, FreeSlot
  <2>2. InFlight("refresh")' /\ (InFlight("load") => InFlight("load")')
    BY <2>1, FlightStarts, FlightKept DEF ListOps
  <2>3. QED
    BY <1>2, <2>2 DEF RefreshTaskList, SpinnersExplained
<1>3. ASSUME \/ UNCHANGED tpVars \/ HandleClose \/ OnTaskPush
             \/ \E kind, t : OpenDialog(kind, t)
             \/ PushNewestTaskInfo \/ \E t \in Tasks : ChangeElsewhere(t) \/ PushRead(t)
      PROVE  SpinnersExplained'
  <2>1. UNCHANGED <<loading, refreshLoading, listFailed, taskWire>>
    BY <1>3 DEF tpVars, HandleClose, OpenDialog, OnTaskPush, ChangeElsewhere, PushRead,
                PushNewestTaskInfo
  <2>2. QED
    BY <1>a, <2>1, SpinnersFrame
<1>4. ASSUME NEW s \in Slots,
             \/ TaskAddSubmit(s) \/ TaskEditSubmit(s) \/ DeleteTask(s)
             \/ \E t \in Tasks, op \in {"start", "stop"} : PressButton(s, t, op)
      PROVE  SpinnersExplained'
  <2>1. UNCHANGED <<loading, refreshLoading, listFailed>> /\ \E call : SendTask(s, call)
    BY <1>4 DEF TaskAddSubmit, TaskEditSubmit, DeleteTask, PressButton
  <2>2. QED
    BY <2>1, SpinnersFrame DEF SendTask, FreeSlot
<1>5. ASSUME NEW s \in Slots, NEW ok \in BOOLEAN, ServeTask(s, ok) PROVE SpinnersExplained'
  <2>1. UNCHANGED <<loading, refreshLoading, listFailed>>
    BY <1>5 DEF ServeTask
  <2>2. QED
    BY <1>5, <2>1, ServeTaskCall, SpinnersFrame
<1>6. ASSUME NEW s \in Slots, OnTaskList(s) PROVE SpinnersExplained'
  <2>1. taskWire' = [taskWire EXCEPT ![s] = NoTaskCall] /\ taskWire[s].op \in ListOps
        /\ loading' = (loading /\ taskWire[s].op # "load")
        /\ refreshLoading' = (refreshLoading /\ taskWire[s].op # "refresh")
        /\ UNCHANGED listFailed
    BY <1>6 DEF OnTaskList, Render
  <2>2. taskWire[s].op # "load" /\ InFlight("load") => InFlight("load")'
    BY <2>1, FlightKept
  <2>3. taskWire[s].op # "refresh" /\ InFlight("refresh") => InFlight("refresh")'
    BY <2>1, FlightKept
  <2>4. QED
    BY <1>a, <2>1, <2>2, <2>3 DEF SpinnersExplained
<1>7. ASSUME NEW s \in Slots, OnSaved(s) PROVE SpinnersExplained'
  <2>1. taskWire[s].op \notin ListOps /\ UNCHANGED <<loading, listFailed>>
        /\ refreshLoading' = (refreshLoading \/ taskWire[s].ok)
    BY <1>7 DEF OnSaved, ListOps
  <2>2. CASE taskWire[s].ok
    <3>1. taskWire' = [taskWire EXCEPT ![s] = ListCall("refresh")]
      BY <1>7, <2>2 DEF OnSaved
    <3>2. InFlight("refresh")' /\ (InFlight("load") => InFlight("load")')
      BY <2>1, <3>1, FlightStarts, FlightKept DEF ListOps
    <3>3. QED
      BY <2>1, <3>2 DEF SpinnersExplained
  <2>3. CASE ~taskWire[s].ok
    <3>1. taskWire' = [taskWire EXCEPT ![s] = NoTaskCall] /\ UNCHANGED refreshLoading
      BY <1>7, <1>a, <2>1, <2>3 DEF OnSaved
    <3>2. QED
      BY <2>1, <3>1, SpinnersFrame
  <2>4. QED
    BY <2>2, <2>3
<1>8. ASSUME NEW s \in Slots, OnDeleted(s) \/ OnButton(s) PROVE SpinnersExplained'
  <2>1. /\ taskWire[s].op \notin ListOps
        /\ taskWire' = [taskWire EXCEPT ![s] = NoTaskCall]
        /\ UNCHANGED <<loading, refreshLoading, listFailed>>
    BY <1>8 DEF OnDeleted, OnButton, Render, ListOps
  <2>2. QED
    BY <2>1, SpinnersFrame
<1>9. ASSUME NEW s \in Slots, TaskCallFails(s) PROVE SpinnersExplained'
  <2>1. /\ taskWire' = [taskWire EXCEPT ![s] = NoTaskCall]
        /\ UNCHANGED <<loading, refreshLoading>>
        /\ listFailed' = (listFailed \/ taskWire[s].op \in ListOps)
    BY <1>9 DEF TaskCallFails
  <2>2. CASE taskWire[s].op \in ListOps
    BY <2>1, <2>2 DEF SpinnersExplained
  <2>3. CASE taskWire[s].op \notin ListOps
    BY <1>a, <2>1, <2>3, SpinnersFrame
  <2>4. QED
    BY <2>2, <2>3
<1>10. QED
  BY <1>1, <1>2, <1>3, <1>4, <1>5, <1>6, <1>7, <1>8, <1>9
  DEF TaskPageNext, ShowCreateDialog, ShowEditDialog, ShowConfirmDeleteDialog, StartTask,
      StopTask

(***************************************************************************)
(* Spinners of the buttons.                                                *)
(***************************************************************************)
LEMMA ButtonsInit == TaskPageInit => ButtonsExplained
BY DEF TaskPageInit, ButtonsExplained

LEMMA ButtonsFrame ==
  ASSUME TypeInv, ButtonsExplained, NEW s \in Slots,
         \A t \in Tasks : busy'[t] \in {busy[t], 0},
         \/ UNCHANGED taskWire
         \/ CallServed(s)
         \/ /\ \/ taskWire[s].stage = "none" \/ taskWire[s].op \notin {"start", "stop"}
               \/ \A t \in Tasks : busy'[t] # s
            /\ \E call : taskWire' = [taskWire EXCEPT ![s] = call]
  PROVE  ButtonsExplained'
<1> SUFFICES ASSUME NEW t \in Tasks, busy'[t] # 0
             PROVE  /\ taskWire'[busy'[t]].stage \in {"sent", "done"}
                    /\ taskWire'[busy'[t]].op \in {"start", "stop"}
                    /\ taskWire'[busy'[t]].task = t
  BY DEF ButtonsExplained
<1>1. busy'[t] = busy[t] /\ busy[t] \in Slots
  BY DEF TypeInv, TaskPageTypeOK
<1>2. /\ taskWire[busy[t]].stage \in {"sent", "done"}
      /\ taskWire[busy[t]].op \in {"start", "stop"} /\ taskWire[busy[t]].task = t
  BY <1>1 DEF ButtonsExplained
<1>3. CASE UNCHANGED taskWire
  BY <1>1, <1>2, <1>3
<1>4. CASE CallServed(s)
  BY <1>1, <1>2, <1>4 DEF CallServed
<1>5. CASE /\ \/ taskWire[s].stage = "none" \/ taskWire[s].op \notin {"start", "stop"}
              \/ \A u \in Tasks : busy'[u] # s
           /\ \E call : taskWire' = [taskWire EXCEPT ![s] = call]
  <2>1. busy[t] # s
    BY <1>1, <1>2, <1>5
  <2>2. taskWire'[busy[t]] = taskWire[busy[t]]
    BY <1>1, <1>5, <2>1 DEF TypeInv, TaskPageTypeOK
  <2>3. QED
    BY <1>1, <1>2, <2>2
<1>6. QED
  BY <1>3, <1>4, <1>5

LEMMA ButtonsStep == TypeInv /\ ButtonsExplained /\ [TaskPageNext]_tpVars => ButtonsExplained'
<1> SUFFICES ASSUME TypeInv, ButtonsExplained, [TaskPageNext]_tpVars
             PROVE  ButtonsExplained'
  OBVIOUS
<1> USE DEF tpServer, tpUser, tpView
<1>a. /\ 1 \in Slots /\ loading \in BOOLEAN /\ taskList \in [Tasks -> Row]
      /\ busy \in [Tasks -> Slots \cup {0}] /\ taskWire \in [Slots -> TaskCall]
  BY DEF Slots, TypeInv, TaskPageTypeOK
<1>1. ASSUME NEW s \in Slots, HandleSearch(s) PROVE ButtonsExplained'
  <2>1. \A t \in Tasks : busy'[t] \in {busy[t], 0}
    BY <1>1, <1>a, RenderType DEF HandleSearch
  <2>2. QED
    BY <1>1, <2>1, ButtonsFrame DEF HandleSearch, SendTask, FreeSlot
<1>2. ASSUME NEW s \in Slots,
             RefreshTaskList(s) \/ TaskAddSubmit(s) \/ TaskEditSubmit(s) \/ DeleteTask(s)
      PROVE  ButtonsExplained'
  <2>1. UNCHANGED busy /\ \E call : SendTask(s, call)
    BY <1>2 DEF RefreshTaskList, TaskAddSubmit, TaskEditSubmit, DeleteTask
  <2>2. QED
    BY <1>a, <2>1, ButtonsFrame DEF SendTask, FreeSlot
<1>3. ASSUME \/ UNCHANGED tpVars \/ HandleClose
             \/ \E kind, t : OpenDialog(kind, t)
             \/ PushNewestTaskInfo \/ \E t \in Tasks : ChangeElsewhere(t) \/ PushRead(t)
      PROVE  ButtonsExplained'
  <2>1. UNCHANGED <<busy, taskWire>>
    BY <1>3 DEF tpVars, HandleClose, OpenDialog, ChangeElsewhere, PushRead, PushNewestTaskInfo
  <2>2. QED
    BY <1>a, <2>1, ButtonsFrame
<1>4. ASSUME NEW s \in Slots, NEW t \in Tasks, NEW op \in {"start", "stop"},
             PressButton(s, t, op)
      PROVE  ButtonsExplained'
  <2> DEFINE call == [NoTaskCall EXCEPT !.stage = "sent", !.op = op, !.task = t]
  <2>1. call.stage = "sent" /\ call.op = op /\ call.task = t
    BY DEF NoTaskCall
  <2> HIDE DEF call
  <2>2. /\ taskWire[s].stage = "none" /\ taskWire' = [taskWire EXCEPT ![s] = call]
        /\ busy' = [busy EXCEPT ![t] = s]
    BY <1>4 DEF PressButton, SendTask, FreeSlot, call
  <2>3. \A u \in Tasks : u # t /\ busy[u] # 0 => busy[u] \in Slots /\ busy[u] # s
    BY <1>a, <2>2 DEF ButtonsExplained
  <2>4. QED
    BY <1>a, <2>1, <2>2, <2>3 DEF ButtonsExplained
<1>5. ASSUME NEW s \in Slots, NEW ok \in BOOLEAN, ServeTask(s, ok) PROVE ButtonsExplained'
  <2>1. UNCHANGED busy
    BY <1>5 DEF ServeTask
  <2>2. QED
    BY <1>5, <2>1, ServeTaskCall, ButtonsFrame
<1>6. CASE OnTaskPush
  <2>1. (\A t \in Tasks : busy'[t] \in {busy[t], 0}) /\ UNCHANGED taskWire
    BY <1>6, <1>a DEF OnTaskPush
  <2>2. QED
    BY <1>a, <2>1, ButtonsFrame
<1>7. ASSUME NEW s \in Slots, OnTaskList(s) \/ OnDeleted(s) PROVE ButtonsExplained'
  <2>1. taskWire[s].list \in [Tasks -> Row] /\ (loading /\ taskWire[s].op # "load") \in BOOLEAN
        /\ [taskWire[s].list EXCEPT ![taskWire[s].task] = Gone] \in [Tasks -> Row]
    BY <1>a, RowTypes DEF TaskCall
  <2>2. PICK list \in [Tasks -> Row], load \in BOOLEAN : Render(list, load)
    BY <1>7, <1>a, <2>1 DEF OnTaskList, OnDeleted
  <2>3. \A t \in Tasks : busy'[t] \in {busy[t], 0}
    BY <2>2, RenderType
  <2>4. taskWire[s].op \notin {"start", "stop"}
        /\ taskWire' = [taskWire EXCEPT ![s] = NoTaskCall]
    BY <1>7 DEF OnTaskList, OnDeleted, ListOps
  <2>5. QED
    BY <2>3, <2>4, ButtonsFrame
<1>8. ASSUME NEW s \in Slots, OnSaved(s) PROVE ButtonsExplained'
  <2>1. /\ UNCHANGED busy /\ taskWire[s].op \notin {"start", "stop"}
        /\ \E call : taskWire' = [taskWire EXCEPT ![s] = call]
    BY <1>8 DEF OnSaved
  <2>2. QED
    BY <2>1, ButtonsFrame
<1>9. ASSUME NEW s \in Slots, OnButton(s) \/ TaskCallFails(s) PROVE ButtonsExplained'
  <2>1. /\ busy' = [t \in Tasks |-> IF busy[t] = s THEN 0 ELSE busy[t]]
        /\ taskWire' = [taskWire EXCEPT ![s] = NoTaskCall]
    BY <1>9 DEF OnButton, TaskCallFails
  <2>2. \A t \in Tasks : busy'[t] \in {busy[t], 0} /\ busy'[t] # s
    BY <2>1 DEF Slots
  <2>3. QED
    BY <2>1, <2>2, ButtonsFrame
<1>10. QED
  BY <1>1, <1>2, <1>3, <1>4, <1>5, <1>6, <1>7, <1>8, <1>9
  DEF TaskPageNext, ShowCreateDialog, ShowEditDialog, ShowConfirmDeleteDialog, StartTask,
      StopTask

(***************************************************************************)
(* Keys.  What the page knows of a task, in its list, in its rows and in   *)
(* the answers under way, is an earlier state of the task: when the        *)
(* update_time is the same and the last Save fell in a second of its own,  *)
(* so are the fields, and in full the name and the enabled state as well,  *)
(* if every push is right when it arrives.  This is what makes update_time *)
(* a key: a mounted row may keep its copy when the key has not changed.    *)
(***************************************************************************)
SameState(row, current) ==
  row.disabled = current.disabled /\ row.name = current.name
RowAgrees(row, current, full) ==
  row.live => /\ row.ver <= current.ver
              /\ row.ver = current.ver => current.live
              /\ row.ver = current.ver /\ ~current.tied =>
                    row.edit = current.edit /\ (full => SameState(row, current))
ListAgrees(list, full) == \A t \in Tasks : RowAgrees(list[t], tasks[t], full)
KnownInv(full) ==
  /\ ListAgrees(taskList, full) /\ ListAgrees(selfTask, full)
  /\ \A s \in Slots : ListAgrees(taskWire[s].list, full)

(* A change of a task gives it a later update_time, or it is tied.         *)
Grown(current, later) ==
  \/ later = current
  \/ later.ver > current.ver
  \/ later.ver = current.ver /\ later.live /\ later.tied
TaskGrows(t) == Grown(tasks[t], tasks'[t])

LEMMA HandleTaskGrows ==
  ASSUME TypeInv, NEW c \in TaskCall, HandleTask(c),
         c.op \in {"edit", "delete", "start", "stop"} => c.task \in Tasks
  PROVE  \A t \in Tasks : TaskGrows(t)
<1>a. tasks \in [Tasks -> Row]
  BY DEF TypeInv, TaskPageTypeOK
<1>1. CASE UNCHANGED tasks
  BY <1>1 DEF TaskGrows, Grown
<1>2. CASE \E t \in Tasks : /\ tasks[t] = Gone
                            /\ tasks' = [tasks EXCEPT ![t] =
                                  [live |-> TRUE, edit |-> 1, name |-> 1, ver |-> 1,
                                   tied |-> FALSE, disabled |-> c.disabled]]
  BY <1>2, <1>a DEF TaskGrows, Grown, Gone
<1>3. ASSUME NEW t \in Tasks, NEW d, NEW edited, SaveTask(t, d, edited)
      PROVE  \A u \in Tasks : TaskGrows(u)
  <2> DEFINE edit == IF edited THEN tasks[t].edit + 1 ELSE tasks[t].edit
  <2>1. PICK tied \in BOOLEAN :
          tasks' = [tasks EXCEPT ![t] =
             [live |-> TRUE, edit |-> edit, name |-> edit,
              ver |-> IF tied THEN tasks[t].ver ELSE tasks[t].ver + 1,
              tied |-> tied, disabled |-> d]]
    BY <1>3 DEF SaveTask
  <2>2. QED
    BY <1>a, <2>1 DEF TaskGrows, Grown, Row
<1>4. ASSUME NEW t \in Tasks, tasks' = [tasks EXCEPT ![t].live = FALSE, ![t].ver = @ + 1]
      PROVE  \A u \in Tasks : TaskGrows(u)
  <2>1. tasks'[t].ver > tasks[t].ver
    BY <1>4, <1>a DEF Row
  <2>2. \A u \in Tasks \ {t} : tasks'[u] = tasks[u]
    BY <1>4, <1>a
  <2>3. QED
    BY <2>1, <2>2 DEF TaskGrows, Grown
<1>5. CASE c.op \in {"edit", "delete", "start", "stop"} /\ ~UNCHANGED tasks
  BY <1>5, <1>3, <1>4 DEF HandleTask, ListOps
<1>6. CASE c.op \notin {"edit", "delete", "start", "stop"} /\ ~UNCHANGED tasks
  BY <1>6, <1>2 DEF HandleTask
<1>7. QED
  BY <1>1, <1>5, <1>6

LEMMA AgreesLater ==
  ASSUME NEW full \in BOOLEAN,
         NEW row \in Row, NEW current \in Row, NEW later \in Row,
         Grown(current, later), RowAgrees(row, current, full)
  PROVE  RowAgrees(row, later, full)
BY DEF RowAgrees, Grown, Row

LEMMA KnownInit ==
  ASSUME NEW full \in BOOLEAN, TaskPageInit PROVE KnownInv(full)
<1>1. ASSUME NEW list \in {NoRows} PROVE ListAgrees(list, full)
  BY DEF NoRows, Gone, ListAgrees, RowAgrees
<1>2. ListCall("load").list = NoRows /\ NoTaskCall.list = NoRows
  BY DEF ListCall, NoTaskCall
<1>3. QED
  BY <1>1, <1>2 DEF TaskPageInit, KnownInv

(* Steps of the page: the tasks stay, and what it then knows comes from    *)
(* what it knew before or from nothing.                                    *)
LEMMA KnownFrame ==
  ASSUME NEW full \in BOOLEAN, KnownInv(full), UNCHANGED tasks,
         \A t \in Tasks : /\ RowAgrees(taskList'[t], tasks[t], full)
                          /\ RowAgrees(selfTask'[t], tasks[t], full),
         \A s \in Slots : \/ taskWire'[s] = taskWire[s]
                          \/ \A t \in Tasks : RowAgrees(taskWire'[s].list[t], tasks[t], full)
  PROVE  KnownInv(full)'
BY DEF KnownInv, ListAgrees

LEMMA GoneAgrees ==
  ASSUME NEW full \in BOOLEAN
  PROVE
  /\ \A current : RowAgrees(Gone, current, full)
  /\ \A t \in Tasks : \A current :
        /\ RowAgrees(NoRows[t], current, full)
        /\ RowAgrees(NoTaskCall.list[t], current, full)
        /\ \A op : RowAgrees(ListCall(op).list[t], current, full)
BY DEF Gone, NoRows, NoTaskCall, ListCall, RowAgrees

(* A row that a render mounts is a row of the list or one that was there.  *)
LEMMA RenderKnown ==
  ASSUME NEW full \in BOOLEAN, TypeInv, KnownInv(full),
         NEW list \in [Tasks -> Row], NEW load \in BOOLEAN,
         \A t \in Tasks : RowAgrees(list[t], tasks[t], full), Render(list, load)
  PROVE  \A t \in Tasks :
            /\ RowAgrees(taskList'[t], tasks[t], full)
            /\ RowAgrees(selfTask'[t], tasks[t], full)
<1> SUFFICES ASSUME NEW t \in Tasks
             PROVE  /\ RowAgrees(taskList'[t], tasks[t], full)
                    /\ RowAgrees(selfTask'[t], tasks[t], full)
  OBVIOUS
<1>1. taskList'[t] = list[t] /\ selfTask'[t] \in {Gone, selfTask[t], list[t]}
  BY DEF Render, RowsFor
<1>2. QED
  BY <1>1, GoneAgrees DEF KnownInv, ListAgrees

(* A push that is wrong when it arrives spoils the copy of its row.        *)
PushRight == OnTaskPush => PushStillRight

LEMMA KnownStep ==
  ASSUME NEW full \in BOOLEAN, full => PushRight,
         TypeInv, KnownInv(full), [TaskPageNext]_tpVars
  PROVE  KnownInv(full)'
<1> USE DEF tpServer, tpUser, tpView
<1>a. /\ 1 \in Slots /\ loading \in BOOLEAN /\ taskList \in [Tasks -> Row]
      /\ selfTask \in [Tasks -> Row] /\ tasks \in [Tasks -> Row]
      /\ taskWire \in [Slots -> TaskCall] /\ CallsNamed /\ taskPushes \in Seq(TaskPush)
  BY DEF Slots, TypeInv, TaskPageTypeOK
<1>b. \A t \in Tasks : /\ RowAgrees(taskList[t], tasks[t], full)
                       /\ RowAgrees(selfTask[t], tasks[t], full)
                       /\ \A s \in Slots : RowAgrees(taskWire[s].list[t], tasks[t], full)
  BY DEF KnownInv, ListAgrees
<1>c. ASSUME NEW s \in Slots, NEW call, UNCHANGED <<tasks, taskList, selfTask>>,
             taskWire' = [taskWire EXCEPT ![s] = call],
             \A t \in Tasks : RowAgrees(call.list[t], tasks[t], full)
      PROVE  KnownInv(full)'
  <2>1. \A r \in Slots : \/ taskWire'[r] = taskWire[r]
                         \/ \A t \in Tasks : RowAgrees(taskWire'[r].list[t], tasks[t], full)
    BY <1>c, <1>a
  <2>2. QED
    BY <1>c, <1>b, <2>1, KnownFrame
<1>1. ASSUME NEW s \in Slots, HandleSearch(s) PROVE KnownInv(full)'
  <2>1. \A t \in Tasks : /\ RowAgrees(taskList'[t], tasks[t], full)
                         /\ RowAgrees(selfTask'[t], tasks[t], full)
    BY <1>1, <1>a, <1>b, RenderKnown DEF HandleSearch
  <2>2. taskWire' = [taskWire EXCEPT ![s] = ListCall("load")] /\ UNCHANGED tasks
    BY <1>1 DEF HandleSearch, SendTask
  <2>3. QED
    BY <1>a, <2>1, <2>2, GoneAgrees, KnownFrame
<1>2. ASSUME NEW s \in Slots, RefreshTaskList(s) PROVE KnownInv(full)'
  BY <1>2, <1>c, GoneAgrees DEF RefreshTaskList, SendTask
<1>3. ASSUME \/ UNCHANGED tpVars \/ HandleClose \/ \E kind, t : OpenDialog(kind, t)
             \/ PushNewestTaskInfo \/ \E t \in Tasks : PushRead(t)
      PROVE  KnownInv(full)'
  <2>1. UNCHANGED <<tasks, taskList, selfTask, taskWire>>
    BY <1>3 DEF tpVars, HandleClose, OpenDialog, PushRead, PushNewestTaskInfo
  <2>2. QED
    BY <1>b, <2>1, KnownFrame
<1>4. ASSUME NEW s \in Slots, TaskAddSubmit(s) \/ TaskEditSubmit(s) PROVE KnownInv(full)'
  <2>1. \A op, d : GetFormValues(op, d).list = NoRows
    BY DEF GetFormValues, NoTaskCall
  <2>2. PICK op, d : SendTask(s, GetFormValues(op, d))
    BY <1>4 DEF TaskAddSubmit, TaskEditSubmit
  <2>3. UNCHANGED <<tasks, taskList, selfTask>>
    BY <1>4 DEF TaskAddSubmit, TaskEditSubmit
  <2>4. QED
    BY <1>c, <2>1, <2>2, <2>3, GoneAgrees DEF SendTask
<1>5. ASSUME NEW s \in Slots, DeleteTask(s) PROVE KnownInv(full)'
  <2> DEFINE call == [GetFormValues("delete", FALSE) EXCEPT !.list = taskList]
  <2>1. call.list = taskList
    BY DEF GetFormValues, NoTaskCall
  <2> HIDE DEF call
  <2>2. taskWire' = [taskWire EXCEPT ![s] = call] /\ UNCHANGED <<tasks, taskList, selfTask>>
    BY <1>5 DEF DeleteTask, SendTask, call
  <2>3. QED
    BY <1>b, <1>c, <2>1, <2>2
<1>6. ASSUME NEW s \in Slots, NEW t \in Tasks, NEW op \in {"start", "stop"},
             PressButton(s, t, op)
      PROVE  KnownInv(full)'
  <2> DEFINE call == [NoTaskCall EXCEPT !.stage = "sent", !.op = op, !.task = t]
  <2>1. call.list = NoRows
    BY DEF NoTaskCall
  <2> HIDE DEF call
  <2>2. taskWire' = [taskWire EXCEPT ![s] = call] /\ UNCHANGED <<tasks, taskList, selfTask>>
    BY <1>6 DEF PressButton, SendTask, call
  <2>3. QED
    BY <1>c, <2>1, <2>2, GoneAgrees
<1>7. ASSUME NEW s \in Slots, NEW ok \in BOOLEAN, ServeTask(s, ok) PROVE KnownInv(full)'
  <2> DEFINE c == [taskWire[s] EXCEPT !.ok = ok]
  <2>a. taskWire[s] \in TaskCall
    BY <1>a
  <2>1. c \in TaskCall /\ c.op = taskWire[s].op /\ c.task = taskWire[s].task
    BY <2>a DEF TaskCall
  <2>b. c.list = taskWire[s].list
    BY <2>a DEF TaskCall
  <2>2. HandleTask(c) /\ UNCHANGED <<taskList, selfTask>>
    BY <1>7 DEF ServeTask
  <2>3. PICK reply : /\ taskWire' = [taskWire EXCEPT ![s] = reply]
                     /\ \/ /\ c.op \in ListOps
                           /\ reply = [c EXCEPT !.stage = "done", !.list = Listed]
                        \/ reply = [c EXCEPT !.stage = "done"]
    BY <1>7 DEF ServeTask
  <2> HIDE DEF c
  <2>4. tasks' \in [Tasks -> Row] /\ \A t \in Tasks : TaskGrows(t)
    BY <1>a, <2>1, <2>2, HandleTaskType, HandleTaskGrows DEF CallsNamed
  <2>5. reply.list \in {Listed, taskWire[s].list}
    BY <2>1, <2>b, <2>3 DEF TaskCall
  <2>6. \A t \in Tasks : Listed[t] \in Row /\ RowAgrees(Listed[t], tasks[t], full)
    <3>1. ASSUME NEW t \in Tasks PROVE RowAgrees(tasks[t], tasks[t], full)
      BY <1>a DEF RowAgrees, SameState, Row
    <3>2. \A t \in Tasks : Listed[t] = IF tasks[t].live THEN tasks[t] ELSE Gone
      BY DEF Listed
    <3>3. QED
      BY <1>a, <3>1, <3>2, RowTypes, GoneAgrees
  <2>7. ASSUME NEW row \in Row, NEW t \in Tasks, RowAgrees(row, tasks[t], full)
        PROVE  RowAgrees(row, tasks'[t], full)
    BY <1>a, <2>4, <2>7, AgreesLater DEF TaskGrows
  <2>8. ASSUME NEW t \in Tasks, NEW r \in Slots
        PROVE  RowAgrees(taskWire'[r].list[t], tasks'[t], full)
    <3>1. taskWire'[r].list \in {Listed, taskWire[r].list}
      BY <1>a, <2>3, <2>5
    <3>2. taskWire[r].list[t] \in Row
      BY <1>a DEF TaskCall
    <3>3. QED
      BY <1>b, <2>6, <2>7, <3>1, <3>2
  <2>9. \A t \in Tasks : /\ RowAgrees(taskList'[t], tasks'[t], full)
                         /\ RowAgrees(selfTask'[t], tasks'[t], full)
    BY <1>a, <1>b, <2>2, <2>7
  <2>10. QED
    BY <2>8, <2>9 DEF KnownInv, ListAgrees
<1>8. ASSUME NEW t \in Tasks, ChangeElsewhere(t) PROVE KnownInv(full)'
  <2>1. PICK op \in {"edit", "delete", "start", "stop"}, d \in BOOLEAN :
          HandleTask([NoTaskCall EXCEPT !.op = op, !.task = t, !.disabled = d, !.ok = TRUE])
    BY <1>8 DEF ChangeElsewhere
  <2> DEFINE c == [NoTaskCall EXCEPT !.op = op, !.task = t, !.disabled = d, !.ok = TRUE]
  <2>2. c \in TaskCall /\ c.task \in Tasks
    BY NoCallType DEF TaskCall, TaskOps
  <2>3. HandleTask(c)
    BY <2>1
  <2> HIDE DEF c
  <2>4. tasks' \in [Tasks -> Row] /\ \A u \in Tasks : TaskGrows(u)
    BY <2>2, <2>3, HandleTaskType, HandleTaskGrows
  <2>5. UNCHANGED <<taskList, selfTask, taskWire>>
    BY <1>8 DEF ChangeElsewhere
  <2>6. ASSUME NEW row \in Row, NEW u \in Tasks, RowAgrees(row, tasks[u], full)
        PROVE  RowAgrees(row, tasks'[u], full)
    BY <1>a, <2>4, <2>6, AgreesLater DEF TaskGrows
  <2>7. \A r \in Slots, u \in Tasks : taskWire[r].list[u] \in Row
    BY <1>a DEF TaskCall
  <2>8. QED
    BY <1>a, <1>b, <2>5, <2>6, <2>7 DEF KnownInv, ListAgrees
<1>9. CASE OnTaskPush
  <2>1. PICK push : push = Head(taskPushes)
    OBVIOUS
  <2>2. UNCHANGED <<tasks, taskList, taskWire>>
        /\ (\/ UNCHANGED selfTask
            \/ selfTask' = [selfTask EXCEPT ![push.task].disabled = push.disabled,
                                            ![push.task].name = push.name])
    BY <1>9, <2>1 DEF OnTaskPush
  <2>3. ASSUME NEW t \in Tasks PROVE RowAgrees(selfTask'[t], tasks[t], full)
    <3>1. selfTask[t] \in Row
      BY <1>a
    <3>2. CASE selfTask'[t] = selfTask[t]
      BY <1>b, <3>2
    <3>3. CASE t = push.task
               /\ selfTask'[t] = [selfTask[t] EXCEPT !.disabled = push.disabled,
                                                     !.name = push.name]
      <4>1. /\ selfTask'[t].live = selfTask[t].live
            /\ selfTask'[t].ver = selfTask[t].ver
            /\ selfTask'[t].edit = selfTask[t].edit
            /\ selfTask'[t].disabled = push.disabled /\ selfTask'[t].name = push.name
        BY <3>1, <3>3 DEF Row
      <4>2. full /\ tasks[t].live => SameState(selfTask'[t], tasks[t])
        BY <1>9, <2>1, <3>3, <4>1 DEF PushRight, PushStillRight, SameState
      <4>3. RowAgrees(selfTask[t], tasks[t], full)
        BY <1>b
      <4>4. QED
        BY <4>1, <4>2, <4>3 DEF RowAgrees
    <3>4. QED
      BY <1>a, <2>2, <3>2, <3>3
  <2>4. QED
    BY <1>b, <2>2, <2>3, KnownFrame
<1>10. ASSUME NEW s \in Slots, OnTaskList(s) \/ OnDeleted(s) PROVE KnownInv(full)'
  <2> DEFINE c == taskWire[s]
  <2>1. c.list \in [Tasks -> Row] /\ (loading /\ c.op # "load") \in BOOLEAN
        /\ [c.list EXCEPT ![c.task] = Gone] \in [Tasks -> Row]
    BY <1>a, RowTypes DEF TaskCall
  <2>2. \A t \in Tasks : RowAgrees([c.list EXCEPT ![c.task] = Gone][t], tasks[t], full)
    BY <1>b, <2>1, GoneAgrees
  <2>3. PICK list \in [Tasks -> Row], load \in BOOLEAN :
          Render(list, load) /\ \A t \in Tasks : RowAgrees(list[t], tasks[t], full)
    <3>1. CASE OnTaskList(s)
      <4>1. Render(IF c.ok THEN c.list ELSE taskList, loading /\ c.op # "load")
        BY <3>1 DEF OnTaskList
      <4>2. QED
        BY <4>1, <1>a, <1>b, <2>1
    <3>2. CASE OnDeleted(s)
      <4>1. Render(IF c.ok THEN [c.list EXCEPT ![c.task] = Gone] ELSE taskList, loading)
        BY <3>2 DEF OnDeleted
      <4>2. CASE c.ok
        BY <4>1, <4>2, <1>a, <2>1, <2>2
      <4>3. CASE ~c.ok
        BY <4>1, <4>3, <1>a, <1>b
      <4>4. QED
        BY <4>2, <4>3
    <3>3. QED
      BY <1>10, <3>1, <3>2
  <2>4. \A t \in Tasks : /\ RowAgrees(taskList'[t], tasks[t], full)
                         /\ RowAgrees(selfTask'[t], tasks[t], full)
    BY <2>3, RenderKnown
  <2>5. taskWire' = [taskWire EXCEPT ![s] = NoTaskCall] /\ UNCHANGED tasks
    BY <1>10 DEF OnTaskList, OnDeleted
  <2>6. QED
    BY <1>a, <2>4, <2>5, GoneAgrees, KnownFrame
<1>11. ASSUME NEW s \in Slots, OnSaved(s) \/ OnButton(s) \/ TaskCallFails(s) PROVE KnownInv(full)'
  <2>1. UNCHANGED <<tasks, taskList, selfTask>>
        /\ (\/ taskWire' = [taskWire EXCEPT ![s] = NoTaskCall]
            \/ taskWire' = [taskWire EXCEPT ![s] = ListCall("refresh")])
    BY <1>11 DEF OnSaved, OnButton, TaskCallFails
  <2>2. \A t \in Tasks : /\ RowAgrees(NoTaskCall.list[t], tasks[t], full)
                         /\ RowAgrees(ListCall("refresh").list[t], tasks[t], full)
    BY GoneAgrees
  <2>3. QED
    BY <1>c, <2>1, <2>2
<1>12. QED
  BY <1>1, <1>2, <1>3, <1>4, <1>5, <1>6, <1>7, <1>8, <1>9, <1>10, <1>11
  DEF TaskPageNext, ShowCreateDialog, ShowEditDialog, ShowConfirmDeleteDialog, StartTask,
      StopTask

(* What OnTaskList shows of an up-to-date list.                            *)
LEMMA RefreshStep ==
  ASSUME NEW full \in BOOLEAN, TypeInv, KnownInv(full),
         NEW s \in Slots, UpToDateList(s), NEW t \in Tasks
  PROVE  /\ Shown(t)'.live = tasks[t].live
         /\ tasks[t].live /\ ~tasks[t].tied =>
               /\ Shown(t)'.edit = tasks[t].edit
               /\ full => SameState(Shown(t)', tasks[t])
<1>1. PICK load : Render(Listed, load) /\ load = FALSE /\ UNCHANGED isDesktop
  BY DEF UpToDateList, OnTaskList, Render, tpUser
<1>2. Listed[t] = IF tasks[t].live THEN tasks[t] ELSE Gone
  BY DEF Listed
<1>3. /\ Listed[t].live = tasks[t].live
      /\ tasks[t].live => /\ Listed[t].edit = tasks[t].edit
                          /\ SameState(Listed[t], tasks[t])
  <2>1. tasks[t].live \in BOOLEAN /\ Gone.live = FALSE
    BY DEF Gone, TypeInv, TaskPageTypeOK, Row
  <2>2. QED
    BY <1>2, <2>1 DEF SameState
<1>4. RowAgrees(selfTask[t], tasks[t], full)
  BY DEF KnownInv, ListAgrees
<1>5. CASE ~isDesktop
  BY <1>1, <1>3, <1>5 DEF Render, Shown
<1>6. CASE isDesktop
  <2>1. Shown(t)' = IF selfTask[t].live /\ UniKey(selfTask[t]) = UniKey(Listed[t])
                    THEN selfTask[t] ELSE Listed[t]
    BY <1>1, <1>6 DEF Render, RowsFor, Shown
  <2>2. selfTask[t].live /\ UniKey(selfTask[t]) = UniKey(Listed[t])
          => /\ Listed[t].live /\ selfTask[t].ver = Listed[t].ver
    BY DEF UniKey
  <2>3. CASE selfTask[t].live /\ UniKey(selfTask[t]) = UniKey(Listed[t])
    <3>1. Shown(t)' = selfTask[t]
      BY <2>1, <2>3
    <3>2. tasks[t].live /\ Listed[t] = tasks[t] /\ selfTask[t].ver = tasks[t].ver
      BY <1>2, <1>3, <2>2, <2>3
    <3>3. selfTask[t] \in Row /\ tasks[t] \in Row
      BY DEF TypeInv, TaskPageTypeOK
    <3>4. QED
      <4>1. selfTask[t].live = tasks[t].live
        BY <2>3, <3>2, <3>3 DEF Row
      <4>2. ~tasks[t].tied => /\ selfTask[t].edit = tasks[t].edit
                              /\ full => SameState(selfTask[t], tasks[t])
        BY <1>4, <2>3, <3>2 DEF RowAgrees
      <4>3. QED
        BY <3>1, <4>1, <4>2
  <2>4. CASE ~(selfTask[t].live /\ UniKey(selfTask[t]) = UniKey(Listed[t]))
    BY <1>3, <2>1, <2>4
  <2>5. QED
    BY <2>3, <2>4
<1>7. QED
  BY <1>5, <1>6

(***************************************************************************)
(* The theorems.                                                           *)
(***************************************************************************)
TaskPageInv ==
  TypeInv /\ EditInv /\ SpinnersExplained /\ ButtonsExplained /\ KnownInv(FALSE)

LEMMA TaskPageInvariant == TaskPageSpec => []TaskPageInv
<1>1. TaskPageInit => TaskPageInv
  BY InitType, EditInit, SpinnersInit, ButtonsInit, KnownInit DEF TaskPageInv
<1>2. TaskPageInv /\ [TaskPageNext]_tpVars => TaskPageInv'
  BY TypeStep, EditStep, SpinnersStep, ButtonsStep, KnownStep DEF TaskPageInv
<1>3. QED
  BY <1>1, <1>2, PTL DEF TaskPageSpec

(* The variables of the task page keep their types.                        *)
THEOREM TaskPageType == TaskPageSpec => []TaskPageTypeOK
<1>1. TaskPageInv => TaskPageTypeOK
  BY DEF TaskPageInv, TypeInv
<1>2. QED
  BY <1>1, TaskPageInvariant, PTL

(* A form is saved to the task it was filled from, although the URL of the   *)
(* call and its body have different sources (TaskEdit.js:35).                *)
THEOREM TaskPageEdit == TaskPageSpec => []EditSavesItsTask
<1>1. TaskPageInv => EditSavesItsTask
  BY DEF TaskPageInv, EditInv
<1>2. QED
  BY <1>1, TaskPageInvariant, PTL

(* As long as no list call failed, skeleton and Refresh button wait for a    *)
(* call that is in flight (TaskList.js:89-109).                              *)
THEOREM TaskPageSpinners == TaskPageSpec => []SpinnersExplained
<1>1. TaskPageInv => SpinnersExplained
  BY DEF TaskPageInv
<1>2. QED
  BY <1>1, TaskPageInvariant, PTL

(* The button of a row spins only while its own call is in flight            *)
(* (TaskActionContainer.js).                                                 *)
THEOREM TaskPageButtons == TaskPageSpec => []ButtonsExplained
<1>1. TaskPageInv => ButtonsExplained
  BY DEF TaskPageInv
<1>2. QED
  BY <1>1, TaskPageInvariant, PTL

(* An accepted list that is still what the server holds is what the page     *)
(* shows of the tasks, and of the fields that only a form changes unless the *)
(* task was saved twice within the second of its key (TaskList.js:82).       *)
THEOREM TaskPageRefresh == TaskPageSpec => RefreshRenders
<1>1. TaskPageInv /\ [TaskPageNext]_tpVars
        => [\A s \in Slots : UpToDateList(s) => \A t \in Tasks :
              /\ Shown(t)'.live = tasks[t].live
              /\ tasks[t].live /\ ~tasks[t].tied => Shown(t)'.edit = tasks[t].edit]_tpVars
  BY RefreshStep DEF TaskPageInv
<1>2. QED
  BY <1>1, TaskPageInvariant, PTL DEF TaskPageSpec, RefreshRenders

(* As long as every push is right when it arrives, the same list shows the   *)
(* name and the enabled state as well, of a task not saved twice within a    *)
(* second: what leaves a row wrong about them is then a push that no longer  *)
(* holds when it arrives, of a change that came in between or of a Save that *)
(* failed (TaskList.js:82, TaskRow.js).                                      *)
THEOREM TaskPageListed == TaskPageSpec /\ PushesArriveRight => AllRendered
<1>1. TaskPageInit => KnownInv(TRUE)
  BY KnownInit
<1>2. [OnTaskPush => PushStillRight]_tpVars => [PushRight]_tpVars
  BY DEF PushRight
<1>3. TaskPageInv /\ KnownInv(TRUE) /\ [TaskPageNext]_tpVars /\ [PushRight]_tpVars
        => KnownInv(TRUE)'
  <2>1. UNCHANGED tpVars => PushRight
    BY DEF tpVars, PushRight, OnTaskPush
  <2>2. QED
    BY <2>1, KnownStep DEF TaskPageInv
<1>4. TaskPageInv /\ KnownInv(TRUE) /\ [TaskPageNext]_tpVars
        => [\A s \in Slots : UpToDateList(s) => \A t \in Tasks :
              tasks[t].live /\ ~tasks[t].tied /\ NoPushAbout(t) =>
                 /\ Shown(t)'.disabled = tasks[t].disabled
                 /\ Shown(t)'.name = tasks[t].name]_tpVars
  BY RefreshStep DEF TaskPageInv, SameState
<1>5. QED
  BY <1>1, <1>2, <1>3, <1>4, TaskPageInvariant, PTL
  DEF TaskPageSpec, AllRendered, PushesArriveRight
=============================================================================
