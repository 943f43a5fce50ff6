-------------------------------- MODULE Screens --------------------------------
(* The web client (src/web/client/src/App.js): one page is mounted at a time. *)
(* A page that is not mounted has no state: its variables stay at an initial  *)
(* value.  Going to another page unmounts this one and drops what it was      *)
(* waiting for, so each page is followed from when it is mounted on.          *)
EXTENDS TaskPage, TaskLogPage, NodePage, PagedList, Panels, Session

CONSTANT Routes        \* the pages that may be mounted
AllRoutes == {"taskList", "taskRunning", "nodeList", "pagedList", "panels", "session"}
ASSUME ScreensAssumption == Routes \subseteq AllRoutes

VARIABLE route         \* the mounted page

screenVars == <<route, tpVars, tlVars, npVars, plVars, pnVars, ssVars>>

Mounted(r) == route = r

ScreensInit ==
    /\ route \in Routes
    /\ TaskPageInit
    /\ ~Mounted("taskList") => tasks = NoRows /\ isDesktop
    /\ TaskLogPageInit
    /\ ~Mounted("taskRunning") => runStage = [r \in LogRuns |-> "none"]
    /\ NodePageInit
    /\ ~Mounted("nodeList") => nodes = NoNodeRows
    /\ PagedListInit
    /\ ~Mounted("pagedList") =>
          dbRows = {} /\ listKind = CHOOSE k \in ListKinds : TRUE
    /\ PanelsInit
    /\ ~Mounted("panels") => view = "dashboard"
    /\ SessionInit
    /\ ~Mounted("session") => place = [t \in Tabs |-> "login"]

ScreensNext ==
    \/ /\ Mounted("taskList") /\ TaskPageNext
       /\ UNCHANGED <<route, tlVars, npVars, plVars, pnVars, ssVars>>
    \/ /\ Mounted("taskRunning") /\ TaskLogPageNext
       /\ UNCHANGED <<route, tpVars, npVars, plVars, pnVars, ssVars>>
    \/ /\ Mounted("nodeList") /\ NodePageNext
       /\ UNCHANGED <<route, tpVars, tlVars, plVars, pnVars, ssVars>>
    \/ /\ Mounted("pagedList") /\ PagedListNext
       /\ UNCHANGED <<route, tpVars, tlVars, npVars, pnVars, ssVars>>
    \/ /\ Mounted("panels") /\ PanelsNext
       /\ UNCHANGED <<route, tpVars, tlVars, npVars, plVars, ssVars>>
    \/ /\ Mounted("session") /\ SessionNext
       /\ UNCHANGED <<route, tpVars, tlVars, npVars, plVars, pnVars>>

ScreensSpec == ScreensInit /\ [][ScreensNext]_screenVars

-----------------------------------------------------------------------------
(* Every page keeps the shape its handlers rely on (App.js:14-31).            *)
ScreensTypeOK ==
    /\ route \in Routes
    /\ TaskPageTypeOK /\ TaskLogPageTypeOK /\ NodePageTypeOK
    /\ PagedListTypeOK /\ PanelsTypeOK /\ SessionTypeOK
=============================================================================
