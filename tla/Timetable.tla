----------------------------- MODULE Timetable -----------------------------
(***************************************************************************)
(* What the schedule promises whoever keeps the task table, without the    *)
(* manager and the requests that maintain it.  A task is fired with the    *)
(* settings the table has for it; what is fired for a task changes while   *)
(* a request about that task is under way, when the server dies or when it *)
(* starts, and by nothing else; and no request is answered, and no start   *)
(* ends, before what is fired for the task is what the table asks for.     *)
(* Nothing is promised of a deleted task before the next start.            *)
(***************************************************************************)
CONSTANTS
  Tasks,
  Unsure   \* settings of tasks whose node is not found: fired or not

VARIABLES
  phase,    \* of the server: down, booting, up
  asked,    \* of each task: the settings the table asks for, or none
  fired,    \* of each task: the settings it is fired with
  gone,     \* the deleted tasks
  touched   \* the tasks a request is about

vars == <<phase, asked, fired, gone, touched>>

Nothing == [t \in Tasks |-> {}]
OnlyAskedAt(t) == \A u \in Tasks \ {t} : asked'[u] = asked[u]
OnlyFiredAt(t) == \A u \in Tasks \ {t} : fired'[u] = fired[u]

Right(t) ==
  \/ t \in gone
  \/ fired[t] = asked[t]
  \/ fired[t] = {} /\ asked[t] \subseteq Unsure

Init ==
  /\ phase = "down"
  /\ asked = Nothing /\ fired = Nothing
  /\ gone = {} /\ touched = {}

Boot ==
  /\ phase = "down" /\ phase' = "booting"
  /\ UNCHANGED <<asked, fired, gone, touched>>

Plan(t) ==
  /\ phase = "booting"
  /\ fired[t] = {} /\ fired' = [fired EXCEPT ![t] = asked[t]]
  /\ UNCHANGED <<phase, asked, gone, touched>>

Open ==
  /\ phase = "booting" /\ phase' = "up"
  /\ \A t \in Tasks : Right(t)
  /\ UNCHANGED <<asked, fired, gone, touched>>

(* A request begins; one that adds a task writes its row as it begins.     *)
Begin(t) ==
  /\ phase = "up"
  /\ t \notin touched /\ touched' = touched \cup {t}
  /\ asked' = asked \/ (asked[t] = {} /\ OnlyAskedAt(t))
  /\ UNCHANGED <<phase, fired, gone>>

Ask(t) ==
  /\ t \in touched /\ OnlyAskedAt(t)
  /\ UNCHANGED <<phase, fired, gone, touched>>

(* What is fired is taken away, or is what the table asks for just now.    *)
Change(t) ==
  /\ t \in touched /\ OnlyFiredAt(t)
  /\ fired'[t] = {} \/ fired'[t] = asked[t] \/ t \in gone
  /\ UNCHANGED <<phase, asked, gone, touched>>

(* A request is answered; one that stops a task writes the row last.       *)
Finish(t) ==
  /\ t \in touched /\ touched' = touched \ {t}
  /\ OnlyAskedAt(t) /\ Right(t)'
  /\ UNCHANGED <<phase, fired, gone>>

Delete(t) ==
  /\ phase = "up"
  /\ gone' = gone \cup {t} /\ asked' = [asked EXCEPT ![t] = {}]
  /\ UNCHANGED <<phase, fired, touched>>

Die ==
  /\ phase' = "down"
  /\ fired' = Nothing /\ touched' = {}
  /\ UNCHANGED <<asked, gone>>

Next ==
  \/ Boot \/ Open \/ Die
  \/ \E t \in Tasks : Plan(t) \/ Begin(t) \/ Ask(t) \/ Change(t) \/ Finish(t) \/ Delete(t)

Spec == Init /\ [][Next]_vars

=============================================================================
