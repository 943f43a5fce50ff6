-------------------------------- MODULE Http --------------------------------
(* The calls a screen of the web client has in flight                        *)
(* (src/web/client/src/common/request).  A screen keeps them in a function    *)
(* from Slots to call records; every call record has a field stage:           *)
(*   none    the slot is free,                                                *)
(*   sent    the request is on its way or being handled,                      *)
(*   done    the server has handled it and its answer is on its way back,     *)
(*   orphan  the client has given the call up after 30 s (or lost the         *)
(*           connection), the server may still handle it.                     *)
(* An answer has a code, 0 or not (field ok).  A call that fails in the       *)
(* transport does not reject: the interceptor returns the error as if it were *)
(* a response, so .then runs on undefined and throws at res.code.             *)
EXTENDS Naturals, FiniteSets

CONSTANT MaxCalls      \* how many calls of one screen may be in flight
ASSUME MaxCallsAssumption == MaxCalls \in Nat \ {0}

Slots == 1..MaxCalls
Stages == {"none", "sent", "done", "orphan"}

(* A new call takes the lowest free slot: slots carry no meaning.             *)
FreeSlot(wire, s) ==
    /\ wire[s].stage = "none"
    /\ \A r \in Slots : r < s => wire[r].stage # "none"

(* The handlers of a call run on its answer, ...                              *)
Answered(wire, s) == wire[s].stage = "done"

(* ... or on undefined: the answer is lost, the connection refused, or the    *)
(* 30 s are over while the server is still at work.                           *)
Failing(wire, s) == wire[s].stage \in {"sent", "done"}
=============================================================================
