----------------------------- MODULE RunJournal -----------------------------
(***************************************************************************)
(* What the task_log table promises its readers, without the scheduler     *)
(* that writes it: a journal of runs, numbered in the order they begin.    *)
(* A run of a task with a dependency begins only after a success of that   *)
(* dependency; a refused run is closed, without success, as it is written; *)
(* a line is closed once and never touched again.  A run that an edge node *)
(* reports is written when it is over, closed and with its result, and     *)
(* nobody asks for the success of its dependency.                          *)
(***************************************************************************)
EXTENDS Naturals

CONSTANTS Tasks, NoTask, MaxLogs

VARIABLES journal, next

LogId == 1..MaxLogs
Line(status, t, d) ==
  [status |-> status, task |-> t, dep |-> d, result |-> FALSE, reported |-> FALSE]
Empty == Line("none", NoTask, NoTask)

Succeeded(l, d) ==
  journal[l].status = "ended" /\ journal[l].task = d /\ journal[l].result

Init ==
  /\ journal = [l \in LogId |-> Empty]
  /\ next = 1

Write(line) ==
  /\ next \in LogId
  /\ journal' = [journal EXCEPT ![next] = line]
  /\ next' = next + 1

Open(t, d) ==
  /\ d = NoTask \/ \E l \in LogId : l < next /\ Succeeded(l, d)
  /\ Write(Line("running", t, d))

Refuse(t, d) == d # NoTask /\ Write(Line("ended", t, d))

Report(t, d, result) ==
  Write([status |-> "ended", task |-> t, dep |-> d, result |-> result, reported |-> TRUE])

Close(l, result) ==
  /\ journal[l].status = "running"
  /\ journal' = [journal EXCEPT ![l].status = "ended", ![l].result = result]
  /\ UNCHANGED next

Next ==
  \/ \E t \in Tasks, d \in Tasks \cup {NoTask} : Open(t, d) \/ Refuse(t, d)
  \/ \E t \in Tasks, d \in Tasks \cup {NoTask}, result \in BOOLEAN : Report(t, d, result)
  \/ \E l \in LogId, result \in BOOLEAN : Close(l, result)

Spec == Init /\ [][Next]_<<journal, next>>

=============================================================================
