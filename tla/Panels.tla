-------------------------------- MODULE Panels --------------------------------
(* The pages of the web client that show readings: the dashboard              *)
(* (screen/dashboard), the head of a task's page (TaskInfo.js) and the system *)
(* settings.  A panel asks for its data once; those on a subscription are     *)
(* then pushed new readings (every second, push.go:12-23).  Panels of the     *)
(* dashboard store the data of any answer, also of one that refuses the       *)
(* session and has none: the next render throws, and as nothing catches it    *)
(* React takes the whole page down.  The interceptor has sent the browser to  *)
(* the login page by then.                                                    *)
EXTENDS Naturals

CONSTANTS Levels,    \* readings, 0 among them
          NoData,    \* the data of an answer that has none
          Window     \* samples a chart keeps, 61 in the code

ASSUME PanelsAssumption ==
    0 \in Levels /\ NoData \notin Levels /\ Window \in Nat \ {0}

VARIABLES
    view,           \* the page that is mounted
    infoCall,       \* the call of each panel
    info,           \* what each panel holds, a reading or no data
    usedList,       \* how many samples each chart has
    blank           \* React has taken the page down

pnVars == <<view, infoCall, info, usedList, blank>>

Views == {"dashboard", "taskInfo", "systemSettings"}
PanelsOf(v) == IF v = "dashboard" THEN {"system", "cpu", "memory", "disk"} ELSE {v}
AllPanels == UNION {PanelsOf(v) : v \in Views}
Charts == {"cpu", "memory", "taskInfo"}
Subscribed == {"system", "cpu", "memory", "taskInfo"}

Data == Levels \cup {NoData}
CallStages == {"none", "sent", "done", "refused"}

(* Each panel starts from zeroes and asks as soon as it is mounted.           *)
PanelsInit ==
    /\ view \in Views
    /\ infoCall = [p \in AllPanels |-> IF p \in PanelsOf(view) THEN "sent" ELSE "none"]
    /\ info = [p \in AllPanels |-> 0]
    /\ usedList = [c \in Charts |-> 0]
    /\ blank = FALSE

(* A render of panel p with new data; the dashboard reads into it unasked.    *)
ShowInfo(p, data) ==
    /\ info' = [info EXCEPT ![p] = data]
    /\ blank' = (blank \/ data = NoData)

(* The server checks the session and answers; the task may be gone as well.   *)
GetInfo(p, refused) ==
    /\ infoCall[p] = "sent"
    /\ infoCall' = [infoCall EXCEPT ![p] = IF refused THEN "refused" ELSE "done"]
    /\ UNCHANGED <<view, info, usedList, blank>>

OnInfo(p) ==
    /\ infoCall[p] = "done" /\ ~blank
    /\ infoCall' = [infoCall EXCEPT ![p] = "none"]
    /\ \E level \in Levels : ShowInfo(p, level)
    /\ UNCHANGED <<view, usedList>>

(* The interceptor passes the answer on.  The task and the settings look at   *)
(* its code first.                                                            *)
OnRefused(p) ==
    /\ infoCall[p] = "refused" /\ ~blank
    /\ infoCall' = [infoCall EXCEPT ![p] = "none"]
    /\ IF view = "dashboard"
       THEN ShowInfo(p, NoData)
       ELSE UNCHANGED <<info, blank>>
    /\ UNCHANGED <<view, usedList>>

(* No answer: the handler throws at res.data before it stores anything.       *)
InfoFails(p) ==
    /\ infoCall[p] # "none" /\ ~blank
    /\ infoCall' = [infoCall EXCEPT ![p] = "none"]
    /\ UNCHANGED <<view, info, usedList, blank>>

(* A push is merged into what the panel holds.  (The system panel keeps what  *)
(* is pushed beside what it asked for, both are one reading here.)            *)
OnReading(p) ==
    /\ p \in Subscribed \cap PanelsOf(view) /\ ~blank
    /\ \E level \in Levels : ShowInfo(p, level)
    /\ UNCHANGED <<view, infoCall, usedList>>

(* Mutant: the oldest sample is dropped one too late.                         *)
TickLate(c) ==
    /\ c \in Charts \cap PanelsOf(view) /\ ~blank
    /\ usedList' = [usedList EXCEPT ![c] = IF @ > Window THEN @ ELSE @ + 1]
    /\ UNCHANGED <<view, infoCall, info, blank>>

(* useInterval: once a second a chart drops its oldest sample when it has too *)
(* many, and takes the reading of the last render.                            *)
Tick(c) ==
    /\ c \in Charts \cap PanelsOf(view) /\ ~blank
    /\ usedList' = [usedList EXCEPT ![c] = IF @ > Window - 1 THEN @ ELSE @ + 1]
    /\ UNCHANGED <<view, infoCall, info, blank>>

PanelsNext ==
    \/ \E p \in AllPanels, refused \in BOOLEAN : GetInfo(p, refused)
    \/ \E p \in AllPanels : OnInfo(p) \/ OnRefused(p) \/ InfoFails(p) \/ OnReading(p)
    \/ \E c \in Charts : Tick(c)

PanelsSpec == PanelsInit /\ [][PanelsNext]_pnVars

-----------------------------------------------------------------------------
PanelsTypeOK ==
    /\ view \in Views
    /\ infoCall \in [AllPanels -> CallStages]
    /\ info \in [AllPanels -> Data]
    /\ usedList \in [Charts -> 0..Window]
    /\ blank \in BOOLEAN
=============================================================================
