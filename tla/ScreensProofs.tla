----------------------------- MODULE ScreensProofs -----------------------------
(***************************************************************************)
(* Theorems about the web client as a whole, and about its two smallest    *)
(* parts, Panels and Session.  One page is mounted at a time and the       *)
(* others are out of its reach, so a behaviour of the client is, for each  *)
(* page, a behaviour of that page: what is proved of a page holds of it in *)
(* the client.                                                             *)
(***************************************************************************)
EXTENDS Screens, TaskPageProofs, TaskLogPageProofs, NodePageProofs, PagedListProofs, TLAPS

(***************************************************************************)
(* Panels.                                                                 *)
(***************************************************************************)

USE PanelsAssumption

LEMMA PanelsStep == PanelsTypeOK /\ [PanelsNext]_pnVars => PanelsTypeOK'
<1> SUFFICES ASSUME PanelsTypeOK, [PanelsNext]_pnVars PROVE PanelsTypeOK'
  OBVIOUS
<1> USE DEF PanelsTypeOK
<1>1. ASSUME NEW p \in AllPanels, NEW refused \in BOOLEAN, GetInfo(p, refused)
      PROVE  PanelsTypeOK'
  BY <1>1 DEF GetInfo, CallStages
<1>2. ASSUME NEW p \in AllPanels, OnInfo(p) \/ OnRefused(p) PROVE PanelsTypeOK'
  BY <1>2 DEF OnInfo, OnRefused, ShowInfo, CallStages, Data
<1>3. ASSUME NEW p \in AllPanels, InfoFails(p) \/ OnReading(p) PROVE PanelsTypeOK'
  BY <1>3 DEF InfoFails, OnReading, ShowInfo, CallStages, Data
<1>4. ASSUME NEW c \in Charts, Tick(c) PROVE PanelsTypeOK'
  BY <1>4 DEF Tick
<1>5. CASE UNCHANGED pnVars
  BY <1>5 DEF pnVars
<1>6. QED
  BY <1>1, <1>2, <1>3, <1>4, <1>5 DEF PanelsNext

(* The panels keep their types, and no chart gets more than Window samples   *)
(* (useInterval in System.js and TaskInfo.js).                               *)
THEOREM PanelsType == PanelsSpec => []PanelsTypeOK
<1>1. ASSUME PanelsInit PROVE PanelsTypeOK
  <2>1. infoCall \in [AllPanels -> CallStages]
    BY <1>1 DEF PanelsInit, CallStages
  <2>2. info \in [AllPanels -> Data] /\ usedList \in [Charts -> 0..Window]
    BY <1>1 DEF PanelsInit, Data
  <2>3. QED
    BY <1>1, <2>1, <2>2 DEF PanelsInit, PanelsTypeOK
<1>2. QED
  BY <1>1, PanelsStep, PTL DEF PanelsSpec

(***************************************************************************)
(* Session.                                                                *)
(***************************************************************************)

USE SessionAssumption

(***************************************************************************)
(* Why the stored token is good.  Unless something spoiled it there is one *)
(* login under way at most.  A login that has its token has a valid one,   *)
(* which it will store; one that has not reached DeleteTokens, or never    *)
(* did, has left the stored token as it was.  Only between the two, at     *)
(* "cleared", is the stored token refused, and then a login is under way.  *)
(***************************************************************************)
OneLogin == \A c, d \in Submits : UnderWay(c) /\ UnderWay(d) => c = d
NewTokenValid == \A c \in Submits : login[c].stage = "done" => login[c].token \in valid
OldTokenValid ==
  (\A c \in Submits : login[c].stage \in {"none", "sent", "refused"})
    => stored = 0 \/ stored \in valid
TokenInv == spoiled \/ (OneLogin /\ NewTokenValid /\ OldTokenValid)
SessionInv == SessionTypeOK /\ TokenInv

LoginType == [stage : LoginStages, token : Token \cup {0}]
AskType == [stage : {"none", "sent", "done"}, token : Token \cup {0}, ok : BOOLEAN]

LEMMA EmptyCalls ==
  /\ NoLogin \in LoginType /\ NoAsk \in AskType
  /\ \A n \in Token \cup {0} : [NoAsk EXCEPT !.stage = "sent", !.token = n] \in AskType
  /\ NoLogin.stage = "none"
<1>1. NoLogin \in LoginType /\ NoLogin.stage = "none"
  BY DEF NoLogin, LoginType, LoginStages
<1>2. NoAsk \in AskType
  BY DEF NoAsk, AskType
<1>3. \A n \in Token \cup {0} : [NoAsk EXCEPT !.stage = "sent", !.token = n] \in AskType
  BY <1>2 DEF AskType
<1>4. QED
  BY <1>1, <1>2, <1>3

LEMMA SessionInitInv == SessionInit => SessionInv
<1> SUFFICES ASSUME SessionInit PROVE SessionInv
  OBVIOUS
<1>1. login \in [Submits -> LoginType] /\ ask \in [Tabs -> AskType]
  BY EmptyCalls DEF SessionInit
<1>2. valid \subseteq Token /\ nextToken \in 1..MaxTokens + 1
  BY DEF SessionInit
<1>3. SessionTypeOK
  BY <1>1, <1>2 DEF SessionInit, SessionTypeOK, LoginType, AskType
<1>4. TokenInv
  BY DEF SessionInit, TokenInv, OneLogin, UnderWay, NewTokenValid, OldTokenValid, NoLogin
<1>5. QED
  BY <1>3, <1>4 DEF SessionInv

LEMMA SessionTypeStep == SessionTypeOK /\ [SessionNext]_ssVars => SessionTypeOK'
<1> SUFFICES ASSUME SessionTypeOK, [SessionNext]_ssVars PROVE SessionTypeOK'
  OBVIOUS
<1> USE DEF SessionTypeOK
<1>a. login \in [Submits -> LoginType] /\ ask \in [Tabs -> AskType]
  BY DEF LoginType, AskType
<1>b. ASSUME login' \in [Submits -> LoginType], ask' \in [Tabs -> AskType],
             place' \in [Tabs -> {"login", "admin"}], valid' \subseteq Token,
             nextToken' \in 1..MaxTokens + 1, stored' \in Token \cup {0},
             spoiled' \in BOOLEAN
      PROVE  SessionTypeOK'
  BY <1>b DEF LoginType, AskType
<1>c. \A c \in Submits, stage \in LoginStages :
         [login EXCEPT ![c].stage = stage] \in [Submits -> LoginType]
  BY <1>a DEF LoginType
<1>1. ASSUME NEW c \in Submits,
             HandleLogin(c) \/ RefuseLogin(c) \/ DeleteTokens(c) \/ CreateFails(c)
      PROVE  SessionTypeOK'
  <2>1. login' \in [Submits -> LoginType]
    BY <1>1, <1>c DEF HandleLogin, RefuseLogin, DeleteTokens, CreateFails, LoginStages
  <2>2. QED
    BY <1>1, <1>a, <1>b, <2>1 DEF HandleLogin, RefuseLogin, DeleteTokens, CreateFails
<1>2. ASSUME NEW c \in Submits, CreateToken(c) PROVE SessionTypeOK'
  <2>1. login' \in [Submits -> LoginType]
    BY <1>2, <1>a DEF CreateToken, LoginType, LoginStages
  <2>2. nextToken' \in 1..MaxTokens + 1 /\ valid' \subseteq Token
    BY <1>2 DEF CreateToken, Token
  <2>3. QED
    BY <1>2, <1>a, <1>b, <2>1, <2>2 DEF CreateToken
<1>3. ASSUME NEW c \in Submits, OnLogin(c) PROVE SessionTypeOK'
  <2>1. login' \in [Submits -> LoginType] /\ login[c].token \in Token \cup {0}
    BY <1>3, <1>a, EmptyCalls DEF OnLogin, LoginType
  <2>2. QED
    BY <1>3, <1>a, <1>b, <2>1 DEF OnLogin
<1>4. ASSUME NEW c \in Submits, LoginFails(c) PROVE SessionTypeOK'
  BY <1>4, <1>a, <1>b, EmptyCalls DEF LoginFails
<1>5. ASSUME NEW t \in Tabs, OpenAdmin(t) \/ LoginOut(t) PROVE SessionTypeOK'
  BY <1>5, <1>a, <1>b DEF OpenAdmin, LoginOut
<1>6. ASSUME NEW t \in Tabs, Ask(t) PROVE SessionTypeOK'
  BY <1>6, <1>a, <1>b, EmptyCalls DEF Ask
<1>7. ASSUME NEW t \in Tabs, CheckToken(t) PROVE SessionTypeOK'
  <2>1. (ask[t].token \in valid) \in BOOLEAN
    OBVIOUS
  <2>2. ask' \in [Tabs -> AskType]
    BY <1>7, <1>a, <2>1 DEF CheckToken, AskType
  <2>3. QED
    BY <1>7, <1>a, <1>b, <2>2 DEF CheckToken
<1>8. ASSUME NEW t \in Tabs, OnAnswer(t) PROVE SessionTypeOK'
  <2>1. ask' \in [Tabs -> AskType] /\ login' \in [Submits -> LoginType]
    BY <1>8, <1>a, EmptyCalls DEF OnAnswer
  <2>2. QED
    BY <1>8, <1>b, <2>1 DEF OnAnswer
<1>9. CASE LoginElsewhere
  BY <1>9, <1>a, <1>b DEF LoginElsewhere, Token
<1>10. ASSUME NEW n \in Token, Expire(n) PROVE SessionTypeOK'
  BY <1>10, <1>a, <1>b DEF Expire
<1>11. CASE UNCHANGED ssVars
  BY <1>11 DEF ssVars
<1>12. QED
  BY <1>1, <1>2, <1>3, <1>4, <1>5, <1>6, <1>7, <1>8, <1>9, <1>10, <1>11 DEF SessionNext

LEMMA TokenStep == SessionInv /\ [SessionNext]_ssVars => TokenInv'
<1> SUFFICES ASSUME SessionInv, [SessionNext]_ssVars PROVE TokenInv'
  OBVIOUS
<1> USE DEF SessionInv, SessionTypeOK, TokenInv, OneLogin, UnderWay, NewTokenValid,
            OldTokenValid
<1>1. ASSUME NEW c \in Submits, HandleLogin(c) PROVE TokenInv'
  BY <1>1 DEF HandleLogin, Overlaps, LoginStages
<1>2. ASSUME NEW c \in Submits, RefuseLogin(c) PROVE TokenInv'
  BY <1>2 DEF RefuseLogin, LoginStages
<1>3. ASSUME NEW c \in Submits, DeleteTokens(c) PROVE TokenInv'
  BY <1>3 DEF DeleteTokens, LoginStages
<1>4. ASSUME NEW c \in Submits, CreateToken(c) PROVE TokenInv'
  BY <1>4 DEF CreateToken, LoginStages
<1>5. ASSUME NEW c \in Submits, OnLogin(c) PROVE TokenInv'
  BY <1>5 DEF OnLogin, NoLogin, LoginStages
<1>6. ASSUME NEW c \in Submits, CreateFails(c) \/ LoginFails(c) PROVE TokenInv'
  BY <1>6 DEF CreateFails, LoginFails
<1>7. ASSUME NEW t \in Tabs, OpenAdmin(t) \/ LoginOut(t) \/ Ask(t) \/ CheckToken(t)
      PROVE  TokenInv'
  BY <1>7 DEF OpenAdmin, LoginOut, Ask, CheckToken
<1>8. ASSUME NEW t \in Tabs, OnAnswer(t) PROVE TokenInv'
  <2>1. CASE ask[t].ok \/ ~\E c \in Submits : TabOf(c) = t /\ UnderWay(c)
    <3>1. UNCHANGED <<valid, stored>> /\ spoiled' = spoiled
      BY <1>8, <2>1 DEF OnAnswer
    <3>2. \A c \in Submits : login'[c].stage = login[c].stage
                             /\ (login'[c].stage = "done" => login'[c] = login[c])
      BY <1>8, <2>1, EmptyCalls DEF OnAnswer
    <3>3. QED
      BY <3>1, <3>2
  <2>2. CASE ~ask[t].ok /\ \E c \in Submits : TabOf(c) = t /\ UnderWay(c)
    BY <1>8, <2>2 DEF OnAnswer
  <2>3. QED
    BY <2>1, <2>2
<1>9. CASE LoginElsewhere \/ \E n \in Token : Expire(n)
  BY <1>9 DEF LoginElsewhere, Expire
<1>10. CASE UNCHANGED ssVars
  BY <1>10 DEF ssVars
<1>11. QED
  BY <1>1, <1>2, <1>3, <1>4, <1>5, <1>6, <1>7, <1>8, <1>9, <1>10 DEF SessionNext

LEMMA SessionInvariant == SessionSpec => []SessionInv
<1>1. SessionInv /\ [SessionNext]_ssVars => SessionInv'
  BY SessionTypeStep, TokenStep DEF SessionInv
<1>2. QED
  BY <1>1, SessionInitInv, PTL DEF SessionSpec

(* Every variable of a session keeps its type.                             *)
THEOREM SessionType == SessionSpec => []SessionTypeOK
<1>1. SessionInv => SessionTypeOK
  BY DEF SessionInv
<1>2. QED
  BY <1>1, SessionInvariant, PTL

(* The token a browser keeps is refused only while a login is under way, or  *)
(* after one that failed half way or overlapped another, a login elsewhere   *)
(* or the end of its 24 hours (GenerateToken, user_token.go:19-34).          *)
THEOREM SessionStoredToken == SessionSpec => []StoredTokenGood
<1>1. SessionInv => StoredTokenGood
  BY DEF SessionInv, TokenInv, OldTokenValid, StoredTokenGood, UnderWay
<1>2. QED
  BY <1>1, SessionInvariant, PTL

(***************************************************************************)
(* The client.                                                             *)
(***************************************************************************)
(* A behaviour of the client is one of every page: a page that is mounted  *)
(* takes its own steps, one that is not stutters (App.js:14-31).           *)
THEOREM ScreensPages ==
  ScreensSpec => /\ TaskPageSpec /\ TaskLogPageSpec /\ NodePageSpec
                 /\ PagedListSpec /\ PanelsSpec /\ SessionSpec
<1>1. ScreensInit => /\ TaskPageInit /\ TaskLogPageInit /\ NodePageInit
                     /\ PagedListInit /\ PanelsInit /\ SessionInit
  BY DEF ScreensInit
<1>2. ASSUME [ScreensNext]_screenVars
      PROVE  /\ [TaskPageNext]_tpVars /\ [TaskLogPageNext]_tlVars /\ [NodePageNext]_npVars
             /\ [PagedListNext]_plVars /\ [PanelsNext]_pnVars /\ [SessionNext]_ssVars
  BY <1>2 DEF ScreensNext, screenVars
<1>3. QED
  BY <1>1, <1>2, PTL
  DEF ScreensSpec, TaskPageSpec, TaskLogPageSpec, NodePageSpec, PagedListSpec, PanelsSpec,
      SessionSpec

LEMMA ScreensRoute == ScreensSpec => [](route \in Routes)
<1>1. ScreensInit => route \in Routes
  BY DEF ScreensInit
<1>2. route \in Routes /\ [ScreensNext]_screenVars => (route \in Routes)'
  BY DEF ScreensNext, screenVars
<1>3. QED
  BY <1>1, <1>2, PTL DEF ScreensSpec

(* Every page keeps the types that its handlers rely on (App.js:14-31).    *)
THEOREM ScreensType == ScreensSpec => []ScreensTypeOK
<1>1. /\ route \in Routes /\ TaskPageTypeOK /\ TaskLogPageTypeOK /\ NodePageTypeOK
      /\ PagedListTypeOK /\ PanelsTypeOK /\ SessionTypeOK
      => ScreensTypeOK
  BY DEF ScreensTypeOK
<1>2. QED
  BY <1>1, ScreensRoute, ScreensPages, TaskPageType, TaskLogPageType, NodePageType,
     PagedListType, PanelsType, SessionType, PTL

(* What each page promises holds in the client, whichever pages may be     *)
(* mounted (App.js:14-31).                                                 *)
THEOREM ScreensPromises ==
  ScreensSpec => /\ []EditSavesItsTask /\ []SpinnersExplained /\ []ButtonsExplained
                 /\ RefreshRenders
                 /\ []EndedRowTimed /\ []RunKept
                 /\ []DeployDialogHeld /\ []TestingExplained /\ []ChangesShown
                 /\ []AskedPageShown /\ []FooterFits
                 /\ []StoredTokenGood
BY ScreensPages, TaskPageEdit, TaskPageSpinners, TaskPageButtons, TaskPageRefresh,
   TaskLogPageTimers, TaskLogPageRuns, NodePageDeploy, NodePageTesting, NodePageChanges,
   PagedListAskedPage, PagedListFooter, SessionStoredToken, PTL
=============================================================================
