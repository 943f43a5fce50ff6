-------------------------------- MODULE Session --------------------------------
(* The session of a user: the login page (Login.js), the tabs of one browser, *)
(* which share the token in its localStorage, the interceptors that send it   *)
(* and that leave when it is refused (HttpRequest.js), and the server, which  *)
(* deletes the tokens of a user and makes a new one (user_token.go) and       *)
(* checks the token of every call (middleware.go).                            *)
EXTENDS Naturals, FiniteSets

CONSTANTS Tabs,
          MaxSubmits,   \* bound on the logins under way at once, in all tabs
          MaxTokens     \* bound on the tokens made

ASSUME SessionAssumption == MaxSubmits \in Nat /\ MaxTokens \in Nat

VARIABLES
    valid,          \* the tokens of the user in the table
    nextToken,      \* tokens are random: each is new
    stored,         \* localStorage, 0 for none
    place,          \* where each tab is
    login,          \* the login calls of the tabs
    ask,            \* a call of each tab to an admin page's handler
    spoiled         \* history: a reason for which the stored token may be refused

ssVars == <<valid, nextToken, stored, place, login, ask, spoiled>>

Token == 1..MaxTokens
LoginStages == {"none", "sent", "cleared", "done", "refused"}
Submits == Tabs \X (1..MaxSubmits)
TabOf(c) == c[1]
NoLogin == [stage |-> "none", token |-> 0]
NoAsk == [stage |-> "none", token |-> 0, ok |-> FALSE]

SessionInit ==
    /\ valid = {} /\ nextToken = 1 /\ stored = 0
    /\ place \in [Tabs -> {"login", "admin"}]
    /\ login = [c \in Submits |-> NoLogin] /\ ask = [t \in Tabs |-> NoAsk]
    /\ spoiled = FALSE

UnderWay(c) == login[c].stage # "none"
Overlaps(c) == \E d \in Submits \ {c} : UnderWay(d)

(* handleSubmit.  The form does not wait for its answer: it can be sent again *)
(* meanwhile, and another tab may log in at the same time.                    *)
HandleLogin(c) ==
    /\ place[TabOf(c)] = "login" /\ ~UnderWay(c)
    /\ Cardinality({d \in Submits : UnderWay(d)}) < MaxSubmits
    /\ login' = [login EXCEPT ![c].stage = "sent"]
    /\ spoiled' = (spoiled \/ Overlaps(c))
    /\ UNCHANGED <<valid, nextToken, stored, place, ask>>

(* UserLogin refuses, or GenerateToken deletes the old tokens ...             *)
RefuseLogin(c) ==
    /\ login[c].stage = "sent"
    /\ login' = [login EXCEPT ![c].stage = "refused"]
    /\ UNCHANGED <<valid, nextToken, stored, place, ask, spoiled>>
DeleteTokens(c) ==
    /\ login[c].stage = "sent"
    /\ login' = [login EXCEPT ![c].stage = "cleared"]
    /\ valid' = {}
    /\ UNCHANGED <<nextToken, stored, place, ask, spoiled>>
(* Mutant: the tokens of the user are deleted after the new one is made.      *)
CreateThenDelete(c) ==
    /\ login[c].stage = "cleared" /\ nextToken \in Token
    /\ login' = [login EXCEPT ![c] = [stage |-> "done", token |-> nextToken]]
    /\ valid' = {}
    /\ nextToken' = nextToken + 1
    /\ UNCHANGED <<stored, place, ask, spoiled>>

(* ... and makes a new one, which may fail.                                   *)
CreateToken(c) ==
    /\ login[c].stage = "cleared" /\ nextToken \in Token
    /\ login' = [login EXCEPT ![c] = [stage |-> "done", token |-> nextToken]]
    /\ valid' = valid \cup {nextToken}
    /\ nextToken' = nextToken + 1
    /\ UNCHANGED <<stored, place, ask, spoiled>>
CreateFails(c) ==
    /\ login[c].stage = "cleared"
    /\ login' = [login EXCEPT ![c].stage = "refused"]
    /\ spoiled' = TRUE
    /\ UNCHANGED <<valid, nextToken, stored, place, ask>>

(* The answer is stored and the tab goes on, also if it has left the login    *)
(* page since; a refusal changes nothing.                                     *)
OnLogin(c) ==
    /\ login[c].stage \in {"done", "refused"}
    /\ IF login[c].stage = "done"
       THEN stored' = login[c].token /\ place' = [place EXCEPT ![TabOf(c)] = "admin"]
       ELSE UNCHANGED <<stored, place>>
    /\ login' = [login EXCEPT ![c] = NoLogin]
    /\ UNCHANGED <<valid, nextToken, ask, spoiled>>

(* The answer does not come; the server may have changed the tokens.          *)
LoginFails(c) ==
    /\ UnderWay(c)
    /\ login' = [login EXCEPT ![c] = NoLogin]
    /\ spoiled' = TRUE
    /\ UNCHANGED <<valid, nextToken, stored, place, ask>>

(* The user logs in on another browser, or the 24 hours are over.             *)
LoginElsewhere ==
    /\ nextToken \in Token
    /\ valid' = {nextToken} /\ nextToken' = nextToken + 1
    /\ spoiled' = TRUE
    /\ UNCHANGED <<stored, place, login, ask>>
Expire(n) ==
    /\ n \in valid /\ valid' = valid \ {n}
    /\ spoiled' = TRUE
    /\ UNCHANGED <<nextToken, stored, place, login, ask>>

(* An admin page needs no token to be opened, and Logout only leaves it: the  *)
(* token stays where it is and stays valid.                                   *)
OpenAdmin(t) ==
    /\ place[t] = "login"
    /\ place' = [place EXCEPT ![t] = "admin"]
    /\ UNCHANGED <<valid, nextToken, stored, login, ask, spoiled>>
LoginOut(t) ==
    /\ place[t] = "admin"
    /\ place' = [place EXCEPT ![t] = "login"]
    /\ UNCHANGED <<valid, nextToken, stored, login, ask, spoiled>>

(* The request interceptor takes the token of this moment.                    *)
Ask(t) ==
    /\ place[t] = "admin" /\ ask[t].stage = "none"
    /\ ask' = [ask EXCEPT ![t] = [NoAsk EXCEPT !.stage = "sent", !.token = stored]]
    /\ UNCHANGED <<valid, nextToken, stored, place, login, spoiled>>
CheckToken(t) ==
    /\ ask[t].stage = "sent"
    /\ ask' = [ask EXCEPT ![t].stage = "done", ![t].ok = ask[t].token \in valid]
    /\ UNCHANGED <<valid, nextToken, stored, place, login, spoiled>>
(* Code 100001 loads the login page anew, with whatever was under way.        *)
OnAnswer(t) ==
    /\ ask[t].stage = "done"
    /\ ask' = [ask EXCEPT ![t] = NoAsk]
    /\ IF ask[t].ok THEN UNCHANGED <<place, login, spoiled>>
       ELSE /\ place' = [place EXCEPT ![t] = "login"]
            /\ login' = [c \in Submits |-> IF TabOf(c) = t THEN NoLogin ELSE login[c]]
            /\ spoiled' = (spoiled \/ \E c \in Submits : TabOf(c) = t /\ UnderWay(c))
    /\ UNCHANGED <<valid, nextToken, stored>>

SessionNext ==
    \/ LoginElsewhere \/ \E n \in Token : Expire(n)
    \/ \E c \in Submits :
          \/ HandleLogin(c) \/ RefuseLogin(c) \/ DeleteTokens(c) \/ CreateToken(c)
          \/ CreateFails(c) \/ OnLogin(c) \/ LoginFails(c)
    \/ \E t \in Tabs :
          \/ OpenAdmin(t) \/ LoginOut(t) \/ Ask(t) \/ CheckToken(t) \/ OnAnswer(t)

SessionSpec == SessionInit /\ [][SessionNext]_ssVars

-----------------------------------------------------------------------------
SessionTypeOK ==
    /\ valid \subseteq Token /\ nextToken \in 1..MaxTokens + 1
    /\ stored \in Token \cup {0}
    /\ place \in [Tabs -> {"login", "admin"}]
    /\ login \in [Submits -> [stage : LoginStages, token : Token \cup {0}]]
    /\ ask \in [Tabs -> [stage : {"none", "sent", "done"}, token : Token \cup {0},
                         ok : BOOLEAN]]
    /\ spoiled \in BOOLEAN

(* The token a browser keeps is good: only a login under way, one that failed *)
(* half way or overlapped another, a login elsewhere or the end of its 24     *)
(* hours can make the server refuse it (GenerateToken, user_token.go:19-34).  *)
StoredTokenGood ==
    spoiled \/ stored = 0 \/ stored \in valid \/ \E c \in Submits : UnderWay(c)
=============================================================================
