-------------------------- MODULE TaskLogPageProofs --------------------------
(***************************************************************************)
(* Theorems about TaskLogPage, for every set of runs and any number of     *)
(* pushes under way.                                                       *)
(***************************************************************************)
EXTENDS TaskLogPage, TLAPS

USE TaskLogPageAssumption

(***************************************************************************)
(* Types.                                                                  *)
(***************************************************************************)
LogPush == [run : LogRuns, kind : PushKinds]
LogCall == [stage : {"none", "sent", "done"}, on : SUBSET LogRuns, off : SUBSET LogRuns]

LEMMA AppendType ==
  ASSUME NEW S, NEW seq \in Seq(S), NEW e \in S
  PROVE  Append(seq, e) \in Seq(S)
OBVIOUS

LEMMA LogTypeInit == TaskLogPageInit => TaskLogPageTypeOK
<1> SUFFICES ASSUME TaskLogPageInit PROVE TaskLogPageTypeOK
  OBVIOUS
<1>1. runStage \in [LogRuns -> RunStages]
  BY DEF TaskLogPageInit, RunStages
<1>2. logPushes \in Seq([run : LogRuns, kind : PushKinds])
  BY DEF TaskLogPageInit
<1>3. logCall \in [stage : {"none", "sent", "done"},
                   on : SUBSET LogRuns, off : SUBSET LogRuns]
  BY DEF TaskLogPageInit
<1>4. QED
  BY <1>1, <1>2, <1>3 DEF TaskLogPageInit, TaskLogPageTypeOK, RowStatuses

LEMMA LogTypeStep == TaskLogPageTypeOK /\ [TaskLogPageNext]_tlVars => TaskLogPageTypeOK'
<1> SUFFICES ASSUME TaskLogPageTypeOK, [TaskLogPageNext]_tlVars PROVE TaskLogPageTypeOK'
  OBVIOUS
<1> USE DEF tlServer, tlRows
<1>a. /\ runStage \in [LogRuns -> RunStages] /\ logPushes \in Seq(LogPush)
      /\ logCall \in LogCall /\ logList \subseteq LogRuns /\ seen \subseteq LogRuns
      /\ rowStatus \in [LogRuns -> RowStatuses] /\ rowOpen \subseteq LogRuns
      /\ timers \in [LogRuns -> Nat] /\ frozen \in [LogRuns -> SUBSET LogRuns]
      /\ told \subseteq LogRuns /\ late \subseteq LogRuns /\ collided \in BOOLEAN
  BY DEF TaskLogPageTypeOK, LogPush, LogCall
<1>b. logPushes # <<>> =>
        /\ Tail(logPushes) \in Seq(LogPush) /\ Head(logPushes).run \in LogRuns
        /\ Head(logPushes).kind \in PushKinds
  <2>1. logPushes # <<>> => Tail(logPushes) \in Seq(LogPush) /\ Head(logPushes) \in LogPush
    BY <1>a
  <2>2. QED
    BY <2>1 DEF LogPush
<1>c. logCall.on \subseteq LogRuns /\ logCall.off \subseteq LogRuns
  BY <1>a DEF LogCall
<1>d. SUFFICES
      /\ runStage' \in [LogRuns -> RunStages] /\ logPushes' \in Seq(LogPush)
      /\ logCall' \in LogCall /\ logList' \subseteq LogRuns /\ seen' \subseteq LogRuns
      /\ rowStatus' \in [LogRuns -> RowStatuses] /\ rowOpen' \subseteq LogRuns
      /\ timers' \in [LogRuns -> Nat] /\ frozen' \in [LogRuns -> SUBSET LogRuns]
      /\ told' \subseteq LogRuns /\ late' \subseteq LogRuns /\ collided' \in BOOLEAN
  BY DEF TaskLogPageTypeOK, LogPush, LogCall
<1>1. ASSUME NEW r \in LogRuns, NEW from, NEW to \in RunStages, NEW kind \in PushKinds \cup {""},
             RunStep(r, from, to, kind)
      PROVE  runStage' \in [LogRuns -> RunStages] /\ logPushes' \in Seq(LogPush)
  <2> DEFINE push == [run |-> r, kind |-> kind]
  <2>1. kind # "" => push \in LogPush
    BY DEF LogPush
  <2>2. runStage' = [runStage EXCEPT ![r] = to]
        /\ logPushes' = IF kind = "" THEN logPushes ELSE Append(logPushes, push)
    BY <1>1 DEF RunStep
  <2> HIDE DEF push
  <2>3. runStage' \in [LogRuns -> RunStages]
    BY <1>a, <2>2
  <2>4. CASE kind = ""
    BY <1>a, <2>2, <2>3, <2>4
  <2>5. CASE kind # ""
    <3>1. push \in LogPush
      BY <2>1, <2>5
    <3>2. Append(logPushes, push) \in Seq(LogPush)
      BY <1>a, <3>1, AppendType
    <3>3. QED
      BY <2>2, <2>3, <2>5, <3>2
  <2>6. QED
    BY <2>4, <2>5
<1>2. ASSUME NEW r \in LogRuns,
             SendNewTaskLog(r) \/ RunStarts(r) \/ AfterRun(r) \/ RemoveInstance(r)
      PROVE  TaskLogPageTypeOK'
  <2>1. runStage' \in [LogRuns -> RunStages] /\ logPushes' \in Seq(LogPush)
    BY <1>1, <1>2 DEF SendNewTaskLog, RunStarts, AfterRun, RemoveInstance, RunStages, PushKinds
  <2>2. QED
    BY <1>2, <1>a, <2>1
    DEF SendNewTaskLog, RunStarts, AfterRun, RemoveInstance, RunStep, TaskLogPageTypeOK,
        LogPush, LogCall
<1>3. CASE GetTaskRunningList
  <2>1. PICK off \in SUBSET LogRuns, on \in SUBSET LogRuns :
          logCall' = [stage |-> "done", off |-> off, on |-> on]
    <3>1. PICK started \in SUBSET {r \in LogRuns : runStage[r] = "ended"}, listed \in BOOLEAN :
            logCall' = [stage |-> "done", off |-> IF listed THEN started ELSE {},
                        on |-> {r \in LogRuns : listed /\ runStage[r] = "running"}]
      BY <1>3 DEF GetTaskRunningList
    <3>2. (IF listed THEN started ELSE {}) \in SUBSET LogRuns
          /\ {r \in LogRuns : listed /\ runStage[r] = "running"} \in SUBSET LogRuns
      OBVIOUS
    <3>3. QED
      BY <3>1, <3>2
  <2>2. logCall' \in LogCall
    BY <2>1 DEF LogCall
  <2>3. QED
    BY <1>3, <1>a, <2>2 DEF GetTaskRunningList
<1>4. CASE OnRunningList \/ RunningListFails
  <2>1. logCall' \in LogCall
    BY <1>4, <1>a DEF OnRunningList, RunningListFails, LogCall
  <2>2. QED
    BY <1>4, <1>a, <1>c, <2>1 DEF OnRunningList, RunningListFails
<1>5. CASE OnLogAdd
  BY <1>5, <1>a, <1>b DEF OnLogAdd
<1>6. CASE OnLogInfo
  <2>1. rowStatus' \in [LogRuns -> RowStatuses] /\ timers' \in [LogRuns -> Nat]
    <3> DEFINE r == Head(logPushes).run
    <3>1. r \in LogRuns /\ Head(logPushes).kind \in RowStatuses
      BY <1>6, <1>b DEF OnLogInfo, PushKinds, RowStatuses
    <3>2. /\ \/ UNCHANGED rowStatus
             \/ rowStatus' = [rowStatus EXCEPT ![r] = Head(logPushes).kind]
          /\ \/ UNCHANGED timers
             \/ timers' = [timers EXCEPT ![r] = @ + 1]
      BY <1>6 DEF OnLogInfo, StartTimer
    <3> HIDE DEF r
    <3>3. rowStatus' \in [LogRuns -> RowStatuses]
      BY <1>a, <3>1, <3>2
    <3>4. timers' \in [LogRuns -> Nat]
      <4>1. \A u \in LogRuns : timers[u] \in Nat /\ timers[u] + 1 \in Nat
        BY <1>a
      <4>2. QED
        BY <1>a, <3>1, <3>2, <4>1
    <3>5. QED
      BY <3>3, <3>4
  <2>2. QED
    BY <1>6, <1>a, <1>b, <2>1 DEF OnLogInfo
<1>7. CASE RenderLogList
  <2>1. rowStatus' \in [LogRuns -> RowStatuses]
    BY <1>7, <1>a DEF RenderLogList, RowStatuses
  <2>2. timers' \in [LogRuns -> Nat]
    BY <1>7, <1>a DEF RenderLogList
  <2>3. frozen' \in [LogRuns -> SUBSET LogRuns]
    BY <1>7, <1>a DEF RenderLogList
  <2>4. QED
    BY <1>7, <1>a, <2>1, <2>2, <2>3 DEF RenderLogList
<1>8. ASSUME NEW r \in LogRuns, ToggleOutput(r) PROVE TaskLogPageTypeOK'
  <2>1. timers' \in [LogRuns -> Nat] /\ rowOpen' \subseteq LogRuns
    BY <1>8, <1>a DEF ToggleOutput, StartTimer
  <2>2. QED
    BY <1>8, <1>a, <2>1 DEF ToggleOutput, TaskLogPageTypeOK, LogPush, LogCall
<1>9. ASSUME NEW r \in LogRuns, DeleteLog(r) PROVE TaskLogPageTypeOK'
  <2>1. timers' \in [LogRuns -> Nat]
    BY <1>9, <1>a DEF DeleteLog
  <2>2. logList' \subseteq LogRuns /\ collided' \in BOOLEAN
    BY <1>9, <1>a DEF DeleteLog
  <2>3. QED
    BY <1>9, <1>a, <2>1, <2>2 DEF DeleteLog, TaskLogPageTypeOK, LogPush, LogCall
<1>10. CASE UNCHANGED tlVars
  BY <1>10, <1>a DEF tlVars
<1>11. QED
  BY <1>2, <1>3, <1>4, <1>5, <1>6, <1>7, <1>8, <1>9, <1>10
  DEF TaskLogPageNext, TaskLogPageTypeOK, LogPush, LogCall

(***************************************************************************)
(* Timers.                                                                 *)
(***************************************************************************)
(* A row leaves by its own timer only: while it shows the end of its run   *)
(* and its dialog is closed it has one.                                    *)
OffRowTimed ==
  \A r \in seen : rowStatus[r] = "off" /\ r \notin rowOpen =>
    timers[r] > 0 \/ r \notin logList \/ collided

LEMMA TimedInit == TaskLogPageInit => OffRowTimed
BY DEF TaskLogPageInit, OffRowTimed

LEMMA TimedStep ==
  TaskLogPageTypeOK /\ OffRowTimed /\ [TaskLogPageNext]_tlVars => OffRowTimed'
<1> SUFFICES ASSUME TaskLogPageTypeOK, OffRowTimed, [TaskLogPageNext]_tlVars
             PROVE  OffRowTimed'
  OBVIOUS
<1> USE DEF tlServer, tlRows
<1>a. /\ logList \subseteq LogRuns /\ seen \subseteq LogRuns
      /\ rowStatus \in [LogRuns -> RowStatuses] /\ rowOpen \subseteq LogRuns
      /\ timers \in [LogRuns -> Nat] /\ collided \in BOOLEAN
  BY DEF TaskLogPageTypeOK
<1>1. ASSUME NEW r \in LogRuns,
             SendNewTaskLog(r) \/ RunStarts(r) \/ AfterRun(r) \/ RemoveInstance(r)
      PROVE  OffRowTimed'
  BY <1>1 DEF SendNewTaskLog, RunStarts, AfterRun, RemoveInstance, RunStep, OffRowTimed
<1>2. CASE GetTaskRunningList \/ RunningListFails \/ UNCHANGED tlVars
  BY <1>2 DEF GetTaskRunningList, RunningListFails, tlVars, OffRowTimed
<1>3. CASE OnRunningList
  BY <1>3 DEF OnRunningList, OffRowTimed
<1>4. CASE OnLogAdd
  BY <1>4 DEF OnLogAdd, OffRowTimed
<1>5. CASE OnLogInfo
  <2>1. UNCHANGED <<seen, rowOpen, logList, collided>>
    BY <1>5 DEF OnLogInfo
  <2>2. ASSUME NEW r \in LogRuns, rowStatus'[r] = "off", r \notin rowOpen
        PROVE  \/ timers'[r] > 0
               \/ rowStatus[r] = "off" /\ timers'[r] = timers[r]
    BY <1>5, <1>a, <2>2 DEF OnLogInfo, StartTimer
  <2>3. QED
    BY <1>a, <2>1, <2>2 DEF OffRowTimed
<1>6. CASE RenderLogList
  <2>1. seen' = logList /\ UNCHANGED <<logList, collided>>
        /\ rowOpen' = rowOpen \cap (logList \cap seen)
    BY <1>6 DEF RenderLogList
  <2>2. ASSUME NEW r \in logList, rowStatus'[r] = "off", r \notin rowOpen'
        PROVE  timers'[r] > 0 \/ collided
    <3>1. CASE r \notin seen
      <4>1. r \in logCall.off
        BY <1>6, <1>a, <2>2, <3>1 DEF RenderLogList
      <4>2. timers'[r] = timers[r] + 1
        BY <1>6, <1>a, <3>1, <4>1 DEF RenderLogList
      <4>3. QED
        BY <1>a, <4>2
    <3>2. CASE r \in seen
      <4>1. rowStatus'[r] = rowStatus[r] /\ timers'[r] = timers[r]
        BY <1>6, <1>a, <3>2 DEF RenderLogList
      <4>2. QED
        BY <2>1, <2>2, <3>2, <4>1 DEF OffRowTimed
    <3>3. QED
      BY <3>1, <3>2
  <2>3. QED
    BY <2>1, <2>2 DEF OffRowTimed
<1>7. ASSUME NEW r \in LogRuns, ToggleOutput(r) PROVE OffRowTimed'
  BY <1>7, <1>a DEF ToggleOutput, StartTimer, OffRowTimed
<1>8. ASSUME NEW r \in LogRuns, DeleteLog(r) PROVE OffRowTimed'
  <2>1. UNCHANGED <<seen, rowStatus, rowOpen>> /\ timers' = [timers EXCEPT ![r] = @ - 1]
    BY <1>8 DEF DeleteLog
  <2>2. CASE rowStatus[r] = "on" \/ r \in rowOpen
    <3>1. UNCHANGED <<logList, collided>>
      BY <1>8, <2>2 DEF DeleteLog
    <3>2. QED
      BY <1>a, <2>1, <2>2, <3>1 DEF OffRowTimed
  <2>3. CASE ~(rowStatus[r] = "on" \/ r \in rowOpen)
    <3>1. PICK base : /\ logList' = base \ {r} /\ collided' = (collided \/ logList # base)
      BY <1>8, <2>3 DEF DeleteLog
    <3>2. \A u \in seen : u # r => timers'[u] = timers[u]
      BY <1>a, <2>1
    <3>3. QED
      BY <1>a, <2>1, <3>1, <3>2 DEF OffRowTimed
  <2>4. QED
    BY <2>2, <2>3
<1>9. QED
  BY <1>1, <1>2, <1>3, <1>4, <1>5, <1>6, <1>7, <1>8 DEF TaskLogPageNext

(***************************************************************************)
(* A row that shows its run as running though it has ended: the push that  *)
(* says so is still to come, and no push that it is on comes after it.     *)
(***************************************************************************)
OnBeforeOff ==
  \A i \in 1..Len(logPushes) :
    logPushes[i].kind = "on" /\ HasEnded(logPushes[i].run) =>
      \E k \in i + 1..Len(logPushes) :
        logPushes[k] = [run |-> logPushes[i].run, kind |-> "off"]
OnRowTold ==
  \A r \in LogRuns :
    rowStatus[r] = "on" /\ HasEnded(r) => OffComing(r) \/ r \in late
RowsMounted == \A r \in LogRuns : r \in seen => rowStatus[r] # "none"
WaitInv == OnBeforeOff /\ OnRowTold /\ RowsMounted

LEMMA WaitInit == TaskLogPageInit => WaitInv
BY DEF TaskLogPageInit, WaitInv, OnBeforeOff, OnRowTold, RowsMounted

(* The pushes are a queue.                                                 *)
LEMMA AfterAppend ==
  ASSUME logPushes \in Seq(LogPush), NEW push \in LogPush, logPushes' = Append(logPushes, push)
  PROVE  /\ Len(logPushes') = Len(logPushes) + 1 /\ Len(logPushes) \in Nat
         /\ logPushes'[Len(logPushes) + 1] = push
         /\ \A i \in 1..Len(logPushes) : logPushes'[i] = logPushes[i]
OBVIOUS

LEMMA AfterTail ==
  ASSUME logPushes \in Seq(LogPush), logPushes # <<>>, logPushes' = Tail(logPushes)
  PROVE  /\ Len(logPushes') = Len(logPushes) - 1 /\ Len(logPushes) \in Nat \ {0}
         /\ Head(logPushes) = logPushes[1] /\ Head(logPushes) \in LogPush
         /\ \A i \in 1..Len(logPushes) - 1 : logPushes'[i] = logPushes[i + 1]
OBVIOUS

(* The end of a run is announced as it comes, behind all other pushes.     *)
LEMMA WaitServer ==
  ASSUME TaskLogPageTypeOK, WaitInv, NEW r \in LogRuns,
         SendNewTaskLog(r) \/ RunStarts(r) \/ AfterRun(r) \/ RemoveInstance(r)
  PROVE  WaitInv'
<1> USE DEF tlServer, tlRows
<1>a. runStage \in [LogRuns -> RunStages] /\ logPushes \in Seq(LogPush)
  BY DEF TaskLogPageTypeOK, LogPush
<1>b. UNCHANGED <<seen, rowStatus, late>>
  BY DEF SendNewTaskLog, RunStarts, AfterRun, RemoveInstance, RunStep
<1>c. \A i \in 1..Len(logPushes) : logPushes[i] \in LogPush /\ logPushes[i].run \in LogRuns
  <2>1. \A i \in 1..Len(logPushes) : logPushes[i] \in LogPush
    BY <1>a
  <2>2. QED
    BY <2>1 DEF LogPush
<1>1. CASE RemoveInstance(r)
  <2>1. UNCHANGED logPushes /\ \A u \in LogRuns : HasEnded(u)' => HasEnded(u)
    BY <1>1, <1>a DEF RemoveInstance, RunStep, HasEnded
  <2>2. OnBeforeOff'
    BY <1>c, <2>1 DEF WaitInv, OnBeforeOff, HasEnded
  <2>3. QED
    BY <1>b, <2>1, <2>2 DEF WaitInv, OnRowTold, RowsMounted, OffComing, HasEnded
<1>2. ASSUME NEW to \in {"created", "running", "ended"}, NEW kind \in PushKinds,
             runStage' = [runStage EXCEPT ![r] = to],
             logPushes' = Append(logPushes, [run |-> r, kind |-> kind]),
             to = "ended" => kind = "off", kind = "on" => to = "running"
      PROVE  WaitInv'
  <2> DEFINE push == [run |-> r, kind |-> kind]
  <2>1. push \in LogPush /\ push.run = r /\ push.kind = kind
    BY DEF LogPush
  <2>2. /\ Len(logPushes') = Len(logPushes) + 1 /\ Len(logPushes) \in Nat
        /\ logPushes'[Len(logPushes) + 1] = push
        /\ \A i \in 1..Len(logPushes) : logPushes'[i] = logPushes[i]
    BY <1>a, <1>2, <2>1, AfterAppend
  <2>3. \A u \in LogRuns : u # r => HasEnded(u)' = HasEnded(u)
    BY <1>2, <1>a DEF HasEnded
  <2>4. HasEnded(r)' => push = [run |-> r, kind |-> "off"]
    BY <1>2, <1>a DEF HasEnded
  <2> HIDE DEF push
  <2>5. \A u \in LogRuns : OffComing(u) => OffComing(u)'
    BY <2>2 DEF OffComing
  <2>6. HasEnded(r)' => OffComing(r)'
    BY <2>2, <2>4 DEF OffComing
  <2>7. ASSUME NEW i \in 1..Len(logPushes'), logPushes'[i].kind = "on",
               runStage'[logPushes'[i].run] \in {"ended", "removed"}
        PROVE  \E k \in i + 1..Len(logPushes') :
                 logPushes'[k] = [run |-> logPushes'[i].run, kind |-> "off"]
    <3>1. i \in 1..Len(logPushes)
      <4>1. CASE i = Len(logPushes) + 1
        BY <1>2, <1>a, <2>1, <2>2, <2>7, <4>1
      <4>2. QED
        BY <2>2, <4>1
    <3>2. CASE logPushes[i].run = r
      <4>1. HasEnded(r)'
        BY <2>2, <2>7, <3>1, <3>2 DEF HasEnded
      <4>2. QED
        BY <2>2, <2>4, <3>1, <3>2, <4>1
    <3>3. CASE logPushes[i].run # r
      <4>1. HasEnded(logPushes[i].run)
        BY <1>c, <2>2, <2>3, <2>7, <3>1, <3>3 DEF HasEnded
      <4>2. PICK k \in i + 1..Len(logPushes) :
              logPushes[k] = [run |-> logPushes[i].run, kind |-> "off"]
        BY <2>2, <2>7, <3>1, <4>1 DEF WaitInv, OnBeforeOff
      <4>3. QED
        BY <2>2, <3>1, <4>2
    <3>4. QED
      BY <3>2, <3>3
  <2>8. OnBeforeOff'
    BY <2>7 DEF OnBeforeOff, HasEnded
  <2>9. OnRowTold'
    BY <1>b, <2>3, <2>5, <2>6 DEF WaitInv, OnRowTold
  <2>10. QED
    BY <1>b, <2>8, <2>9 DEF WaitInv, RowsMounted
<1>3. QED
  BY <1>1, <1>2 DEF SendNewTaskLog, RunStarts, AfterRun, RunStep, PushKinds

(* The page takes the first push.                                          *)
LEMMA WaitPush ==
  ASSUME TaskLogPageTypeOK, WaitInv, OnLogAdd \/ OnLogInfo
  PROVE  WaitInv'
<1> USE DEF tlServer, tlRows
<1>a. logPushes \in Seq(LogPush) /\ rowStatus \in [LogRuns -> RowStatuses]
  BY DEF TaskLogPageTypeOK, LogPush
<1>b. logPushes # <<>> /\ logPushes' = Tail(logPushes) /\ UNCHANGED <<runStage, seen, late>>
  BY DEF OnLogAdd, OnLogInfo
<1>1. /\ Len(logPushes') = Len(logPushes) - 1 /\ Len(logPushes) \in Nat \ {0}
      /\ Head(logPushes) = logPushes[1] /\ Head(logPushes) \in LogPush
      /\ \A i \in 1..Len(logPushes) - 1 : logPushes'[i] = logPushes[i + 1]
  BY <1>a, <1>b, AfterTail
<1>2. OnBeforeOff'
  <2>1. ASSUME NEW i \in 1..Len(logPushes'), logPushes'[i].kind = "on",
               HasEnded(logPushes'[i].run)
        PROVE  \E k \in i + 1..Len(logPushes') :
                 logPushes'[k] = [run |-> logPushes'[i].run, kind |-> "off"]
    <3>1. i + 1 \in 1..Len(logPushes) /\ logPushes'[i] = logPushes[i + 1]
      BY <1>1
    <3>2. PICK k \in i + 2..Len(logPushes) :
            logPushes[k] = [run |-> logPushes[i + 1].run, kind |-> "off"]
      BY <2>1, <3>1 DEF WaitInv, OnBeforeOff
    <3>3. k - 1 \in i + 1..Len(logPushes') /\ logPushes'[k - 1] = logPushes[k]
      BY <1>1, <3>2
    <3>4. QED
      BY <3>1, <3>2, <3>3
  <2>2. QED
    BY <1>b, <2>1 DEF OnBeforeOff, HasEnded
<1>3. \A u \in LogRuns : OffComing(u) =>
        OffComing(u)' \/ Head(logPushes) = [run |-> u, kind |-> "off"]
  <2>1. ASSUME NEW u \in LogRuns, NEW i \in 1..Len(logPushes),
               logPushes[i] = [run |-> u, kind |-> "off"], i # 1
        PROVE  OffComing(u)'
    <3>1. i - 1 \in 1..Len(logPushes') /\ logPushes'[i - 1] = logPushes[i]
      BY <1>1, <2>1
    <3>2. QED
      BY <2>1, <3>1 DEF OffComing
  <2>2. QED
    BY <1>1, <2>1 DEF OffComing
<1>4. CASE OnLogAdd
  <2>1. Head(logPushes).kind = "add" /\ UNCHANGED rowStatus
    BY <1>4 DEF OnLogAdd
  <2>2. \A u \in LogRuns : Head(logPushes) # [run |-> u, kind |-> "off"]
    BY <2>1
  <2>3. OnRowTold'
    BY <1>b, <1>3, <2>1, <2>2 DEF WaitInv, OnRowTold, HasEnded
  <2>4. QED
    BY <1>2, <1>b, <2>1, <2>3 DEF WaitInv, RowsMounted
<1>5. CASE OnLogInfo
  <2>1. PICK r \in LogRuns, kind \in {"on", "off"} :
          Head(logPushes) = [run |-> r, kind |-> kind]
    BY <1>1, <1>5 DEF OnLogInfo, LogPush, PushKinds
  <2>2. \/ rowStatus[r] = "none" /\ UNCHANGED rowStatus
        \/ rowStatus' = [rowStatus EXCEPT ![r] = kind]
    BY <1>5, <2>1 DEF OnLogInfo
  <2>3. kind = "on" /\ HasEnded(r) => OffComing(r)'
    <3>1. ASSUME kind = "on", HasEnded(r) PROVE OffComing(r)'
      <4>1. 1 \in 1..Len(logPushes) /\ logPushes[1].kind = "on" /\ logPushes[1].run = r
        BY <1>1, <2>1, <3>1
      <4>2. PICK k \in 2..Len(logPushes) : logPushes[k] = [run |-> r, kind |-> "off"]
        BY <3>1, <4>1 DEF WaitInv, OnBeforeOff
      <4>3. k - 1 \in 1..Len(logPushes') /\ logPushes'[k - 1] = logPushes[k]
        BY <1>1, <4>2
      <4>4. QED
        BY <4>2, <4>3 DEF OffComing
    <3>2. QED
      BY <3>1
  <2>4. \A u \in LogRuns : OffComing(u) => OffComing(u)' \/ (u = r /\ kind = "off")
    BY <1>3, <2>1
  <2>5. OnRowTold'
    BY <1>a, <1>b, <2>1, <2>2, <2>3, <2>4 DEF WaitInv, OnRowTold, HasEnded
  <2>6. RowsMounted'
    BY <1>a, <1>b, <2>1, <2>2 DEF WaitInv, RowsMounted
  <2>7. QED
    BY <1>2, <2>5, <2>6 DEF WaitInv
<1>6. QED
  BY <1>4, <1>5

LEMMA WaitStep ==
  TaskLogPageTypeOK /\ WaitInv /\ [TaskLogPageNext]_tlVars => WaitInv'
<1> SUFFICES ASSUME TaskLogPageTypeOK, WaitInv, [TaskLogPageNext]_tlVars PROVE WaitInv'
  OBVIOUS
<1> USE DEF tlServer, tlRows
<1>1. CASE RenderLogList
  <2>1. UNCHANGED <<runStage, logPushes>> /\ seen' = logList
    BY <1>1 DEF RenderLogList
  <2>2. ASSUME NEW r \in LogRuns
        PROVE  /\ r \in logList /\ (r \in seen => rowStatus[r] # "none")
                    => rowStatus'[r] # "none"
               /\ rowStatus'[r] = "on" =>
                    \/ r \in seen /\ rowStatus[r] = "on" /\ (r \in late => r \in late')
                    \/ HasEnded(r) => OffComing(r) \/ r \in late'
    BY <1>1 DEF RenderLogList
  <2>3. QED
    BY <2>1, <2>2 DEF WaitInv, OnBeforeOff, OnRowTold, RowsMounted, HasEnded, OffComing
<1>2. CASE UNCHANGED <<tlServer, seen, rowStatus, late>>
  BY <1>2 DEF WaitInv, OnBeforeOff, OnRowTold, RowsMounted, HasEnded, OffComing
<1>3. QED
  BY <1>1, <1>2, WaitServer, WaitPush
  DEF TaskLogPageNext, GetTaskRunningList, OnRunningList, RunningListFails, ToggleOutput,
      DeleteLog, tlVars

(***************************************************************************)
(* Runs that are not lost.  Whatever can make a row go says truly that its *)
(* run has ended: a push, the answer with the list, the status of the row, *)
(* a timer.                                                                *)
(***************************************************************************)
PushesTrue ==
  \A i \in 1..Len(logPushes) : logPushes[i].kind = "off" => HasEnded(logPushes[i].run)
EndsTrue ==
  /\ \A r \in logCall.off : HasEnded(r)
  /\ \A r \in LogRuns : rowStatus[r] = "off" \/ timers[r] > 0 => HasEnded(r)
LogInv == TaskLogPageTypeOK /\ PushesTrue /\ EndsTrue /\ RunKept

LEMMA KeptInit == TaskLogPageInit => PushesTrue /\ EndsTrue /\ RunKept
BY DEF TaskLogPageInit, PushesTrue, EndsTrue, RunKept

LEMMA PushesStep ==
  TaskLogPageTypeOK /\ PushesTrue /\ [TaskLogPageNext]_tlVars => PushesTrue'
<1> SUFFICES ASSUME TaskLogPageTypeOK, PushesTrue, [TaskLogPageNext]_tlVars PROVE PushesTrue'
  OBVIOUS
<1> USE DEF tlServer, tlRows
<1>a. runStage \in [LogRuns -> RunStages] /\ logPushes \in Seq(LogPush)
  BY DEF TaskLogPageTypeOK, LogPush
<1>b. \A i \in 1..Len(logPushes) : logPushes[i].run \in LogRuns
  <2>1. \A i \in 1..Len(logPushes) : logPushes[i] \in LogPush
    BY <1>a
  <2>2. QED
    BY <2>1 DEF LogPush
<1>1. ASSUME NEW r \in LogRuns, NEW from, NEW to, NEW kind, RunStep(r, from, to, kind),
             runStage[r] \in {"ended", "removed"} => to \in {"ended", "removed"},
             kind = "off" => to \in {"ended", "removed"}
      PROVE  PushesTrue'
  <2>1. \A u \in LogRuns : HasEnded(u) => HasEnded(u)'
    BY <1>1, <1>a DEF RunStep, HasEnded
  <2>2. CASE kind = ""
    BY <1>1, <1>b, <2>1, <2>2 DEF RunStep, PushesTrue
  <2>3. CASE kind # ""
    <3>1. logPushes' = Append(logPushes, [run |-> r, kind |-> kind])
          /\ runStage' = [runStage EXCEPT ![r] = to]
      BY <1>1, <2>3 DEF RunStep
    <3>2. kind = "off" => HasEnded(r)'
      BY <1>1, <1>a, <3>1 DEF HasEnded
    <3>3. ASSUME NEW i \in 1..Len(logPushes'), logPushes'[i].kind = "off"
          PROVE  runStage'[logPushes'[i].run] \in {"ended", "removed"}
      <4>1. CASE i \in 1..Len(logPushes)
        <5>1. logPushes'[i] = logPushes[i]
          BY <1>a, <3>1, <4>1
        <5>2. QED
          BY <1>b, <2>1, <3>3, <4>1, <5>1 DEF PushesTrue, HasEnded
      <4>2. CASE i \notin 1..Len(logPushes)
        <5>1. logPushes'[i] = [run |-> r, kind |-> kind]
          BY <1>a, <3>1, <4>2
        <5>2. QED
          BY <3>2, <3>3, <5>1 DEF HasEnded
      <4>3. QED
        BY <4>1, <4>2
    <3>4. QED
      BY <3>3 DEF PushesTrue, HasEnded
  <2>4. QED
    BY <2>2, <2>3
<1>2. ASSUME NEW r \in LogRuns,
             SendNewTaskLog(r) \/ RunStarts(r) \/ AfterRun(r) \/ RemoveInstance(r)
      PROVE  PushesTrue'
  <2>1. PICK from \in {{"none"}, {"created"}, {"created", "running"}, {"ended"}},
             to \in {"created", "running", "ended", "removed"},
             kind \in {"add", "on", "off", ""} :
          /\ RunStep(r, from, to, kind)
          /\ "ended" \in from => to = "removed"
          /\ kind = "off" => to = "ended"
    BY <1>2 DEF SendNewTaskLog, RunStarts, AfterRun, RemoveInstance
  <2>2. runStage[r] \in {"ended", "removed"} => to \in {"ended", "removed"}
    BY <2>1 DEF RunStep
  <2>3. QED
    BY <1>1, <2>1, <2>2
<1>3. CASE OnLogAdd \/ OnLogInfo
  <2>1. logPushes # <<>> /\ logPushes' = Tail(logPushes) /\ UNCHANGED runStage
    BY <1>3 DEF OnLogAdd, OnLogInfo
  <2>2. \A i \in 1..Len(logPushes') : i + 1 \in 1..Len(logPushes)
                                      /\ logPushes'[i] = logPushes[i + 1]
    BY <1>a, <2>1
  <2>3. QED
    BY <2>1, <2>2 DEF PushesTrue, HasEnded
<1>4. CASE UNCHANGED tlServer
  BY <1>4 DEF PushesTrue, HasEnded
<1>5. QED
  BY <1>2, <1>3, <1>4
  DEF TaskLogPageNext, GetTaskRunningList, OnRunningList, RunningListFails, RenderLogList,
      ToggleOutput, DeleteLog, tlVars

LEMMA EndsStep ==
  TaskLogPageTypeOK /\ PushesTrue /\ EndsTrue /\ [TaskLogPageNext]_tlVars => EndsTrue'
<1> SUFFICES ASSUME TaskLogPageTypeOK, PushesTrue, EndsTrue, [TaskLogPageNext]_tlVars
             PROVE  EndsTrue'
  OBVIOUS
<1> USE DEF tlServer, tlRows
<1>a. /\ runStage \in [LogRuns -> RunStages] /\ logPushes \in Seq(LogPush)
      /\ logCall.on \subseteq LogRuns /\ logCall.off \subseteq LogRuns
      /\ logList \subseteq LogRuns /\ seen \subseteq LogRuns
      /\ rowStatus \in [LogRuns -> RowStatuses] /\ timers \in [LogRuns -> Nat]
  BY DEF TaskLogPageTypeOK, LogPush
<1>1. ASSUME NEW r \in LogRuns,
             SendNewTaskLog(r) \/ RunStarts(r) \/ AfterRun(r) \/ RemoveInstance(r)
      PROVE  EndsTrue'
  <2>1. UNCHANGED <<logCall, rowStatus, timers>>
    BY <1>1 DEF SendNewTaskLog, RunStarts, AfterRun, RemoveInstance, RunStep
  <2>2. \A u \in LogRuns : HasEnded(u) => HasEnded(u)'
    BY <1>1, <1>a DEF SendNewTaskLog, RunStarts, AfterRun, RemoveInstance, RunStep, HasEnded
  <2>3. QED
    BY <1>a, <2>1, <2>2 DEF EndsTrue
<1>2. CASE GetTaskRunningList
  <2>1. UNCHANGED <<runStage, rowStatus, timers>>
        /\ logCall'.off \subseteq {r \in LogRuns : runStage[r] = "ended"}
    BY <1>2 DEF GetTaskRunningList
  <2>2. QED
    BY <2>1 DEF EndsTrue, HasEnded
<1>3. CASE OnRunningList \/ RunningListFails \/ OnLogAdd \/ UNCHANGED tlVars
  <2>1. UNCHANGED <<runStage, rowStatus, timers>>
    BY <1>3 DEF OnRunningList, RunningListFails, OnLogAdd, tlVars
  <2>2. logCall'.off = logCall.off
    BY <1>3 DEF OnRunningList, RunningListFails, OnLogAdd, tlVars, TaskLogPageTypeOK
  <2>3. QED
    BY <2>1, <2>2 DEF EndsTrue, HasEnded
<1>4. CASE OnLogInfo
  <2> DEFINE r == Head(logPushes).run
             kind == Head(logPushes).kind
  <2>1. logPushes # <<>> /\ UNCHANGED <<runStage, logCall>>
    BY <1>4 DEF OnLogInfo
  <2>2. kind = "off" => HasEnded(r)
    BY <1>a, <2>1 DEF PushesTrue
  <2>3. /\ \/ UNCHANGED rowStatus
           \/ rowStatus' = [rowStatus EXCEPT ![r] = kind]
        /\ \/ UNCHANGED timers
           \/ kind = "off" /\ timers' = [timers EXCEPT ![r] = @ + 1]
    BY <1>4 DEF OnLogInfo, StartTimer
  <2> HIDE DEF r, kind
  <2>4. QED
    BY <1>a, <2>1, <2>2, <2>3 DEF EndsTrue, HasEnded
<1>5. CASE RenderLogList
  <2>1. UNCHANGED <<runStage, logCall>>
    BY <1>5 DEF RenderLogList
  <2>2. ASSUME NEW r \in LogRuns, rowStatus'[r] = "off" \/ timers'[r] > 0
        PROVE  r \in logCall.off \/ rowStatus[r] = "off" \/ timers[r] > 0
    BY <1>5, <1>a, <2>2 DEF RenderLogList
  <2>3. QED
    BY <2>1, <2>2 DEF EndsTrue, HasEnded
<1>6. ASSUME NEW r \in LogRuns, ToggleOutput(r) \/ DeleteLog(r) PROVE EndsTrue'
  <2>1. UNCHANGED <<runStage, logCall, rowStatus>>
    BY <1>6 DEF ToggleOutput, DeleteLog
  <2>2. \A u \in LogRuns : timers'[u] > 0 => timers[u] > 0 \/ rowStatus[u] = "off"
    BY <1>6, <1>a DEF ToggleOutput, DeleteLog, StartTimer
  <2>3. QED
    BY <2>1, <2>2 DEF EndsTrue, HasEnded
<1>7. QED
  BY <1>1, <1>2, <1>3, <1>4, <1>5, <1>6 DEF TaskLogPageNext

LEMMA KeptStep ==
  TaskLogPageTypeOK /\ EndsTrue /\ RunKept /\ [TaskLogPageNext]_tlVars => RunKept'
<1> SUFFICES ASSUME TaskLogPageTypeOK, EndsTrue, RunKept, [TaskLogPageNext]_tlVars
             PROVE  RunKept'
  OBVIOUS
<1> USE DEF tlServer, tlRows
<1>a. runStage \in [LogRuns -> RunStages] /\ told \subseteq LogRuns /\ collided \in BOOLEAN
  BY DEF TaskLogPageTypeOK
<1>1. ASSUME NEW r \in LogRuns,
             SendNewTaskLog(r) \/ RunStarts(r) \/ AfterRun(r) \/ RemoveInstance(r)
      PROVE  RunKept'
  BY <1>1, <1>a DEF SendNewTaskLog, RunStarts, AfterRun, RemoveInstance, RunStep, RunKept
<1>2. CASE UNCHANGED <<runStage, told, logList, collided>>
  BY <1>2 DEF RunKept
<1>3. CASE OnRunningList
  BY <1>3 DEF OnRunningList, RunKept
<1>4. CASE OnLogAdd
  BY <1>4 DEF OnLogAdd, RunKept
<1>5. ASSUME NEW r \in LogRuns, DeleteLog(r) PROVE RunKept'
  <2>1. HasEnded(r) /\ UNCHANGED <<runStage, told>>
    BY <1>5 DEF DeleteLog, EndsTrue
  <2>2. CASE UNCHANGED <<logList, collided>>
    BY <2>1, <2>2 DEF RunKept
  <2>3. CASE ~UNCHANGED <<logList, collided>>
    <3>1. PICK base : logList' = base \ {r} /\ collided' = (collided \/ logList # base)
      BY <1>5, <2>3 DEF DeleteLog
    <3>2. QED
      BY <1>a, <2>1, <3>1 DEF RunKept, HasEnded
  <2>4. QED
    BY <2>2, <2>3
<1>6. QED
  BY <1>1, <1>2, <1>3, <1>4, <1>5
  DEF TaskLogPageNext, GetTaskRunningList, RunningListFails, OnLogInfo, RenderLogList,
      ToggleOutput, tlVars

(***************************************************************************)
(* The theorems.                                                           *)
(***************************************************************************)
LEMMA LogInvariant == TaskLogPageSpec => [](LogInv /\ OffRowTimed /\ WaitInv)
<1>1. TaskLogPageInit => LogInv /\ OffRowTimed /\ WaitInv
  BY LogTypeInit, TimedInit, KeptInit, WaitInit DEF LogInv
<1>2. LogInv /\ OffRowTimed /\ WaitInv /\ [TaskLogPageNext]_tlVars
        => (LogInv /\ OffRowTimed /\ WaitInv)'
  BY LogTypeStep, TimedStep, WaitStep, PushesStep, EndsStep, KeptStep DEF LogInv
<1>3. QED
  BY <1>1, <1>2, PTL DEF TaskLogPageSpec

(* The variables of the running tab keep their types.                      *)
THEOREM TaskLogPageType == TaskLogPageSpec => []TaskLogPageTypeOK
<1>1. LogInv => TaskLogPageTypeOK
  BY DEF LogInv
<1>2. QED
  BY <1>1, LogInvariant, PTL

(* A closed row of a run that has ended goes: it has a timer, or the push    *)
(* that starts one is on its way, unless that push had come before the row   *)
(* was mounted or a list computed from an old one put the row back           *)
(* (TaskRunningLog.js).                                                      *)
THEOREM TaskLogPageTimers == TaskLogPageSpec => []EndedRowTimed
<1>1. LogInv /\ OffRowTimed /\ WaitInv => EndedRowTimed
  <2> SUFFICES ASSUME LogInv, OffRowTimed, WaitInv, NEW r \in seen, HasEnded(r),
                      r \notin rowOpen
               PROVE  \/ timers[r] > 0 \/ r \notin logList
                      \/ OffComing(r) \/ r \in late \/ collided
    BY DEF EndedRowTimed
  <2>1. r \in LogRuns /\ rowStatus[r] \in {"on", "off"}
    BY DEF LogInv, TaskLogPageTypeOK, WaitInv, RowsMounted, RowStatuses
  <2>2. QED
    BY <2>1 DEF OffRowTimed, WaitInv, OnRowTold
<1>2. QED
  BY <1>1, LogInvariant, PTL

(* A run the page was told of leaves the list only when it has ended, unless *)
(* a list was computed from an old one or the call for the list was late     *)
(* (TaskRunningLog.js).                                                      *)
THEOREM TaskLogPageRuns == TaskLogPageSpec => []RunKept
<1>1. LogInv => RunKept
  BY DEF LogInv
<1>2. QED
  BY <1>1, LogInvariant, PTL
=============================================================================
