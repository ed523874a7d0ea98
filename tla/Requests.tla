------------------------------ MODULE Requests ------------------------------
(***************************************************************************)
(* How a worker serves a request of the management API: it runs a method   *)
(* of an APIWorker (altrepo_api/api/base.py) from one statement of the     *)
(* database, or call of the Errata Server, to the next.  Between two of    *)
(* them other workers take steps.  The methods themselves are in the       *)
(* modules that extend this one.                                           *)
(***************************************************************************)
EXTENDS Naturals

CONSTANTS
    Workers,      \* the worker processes
    MaxRequests,  \* bound on the requests that are made
    None          \* Python's None

ASSUME MaxRequestsAssumption == MaxRequests \in Nat

VARIABLES
    place,      \* place[w]: the statement w is about to send, "idle" outside
    request,    \* request[w]: the method and payload w works on
    seen,       \* seen[w]: what w has read for it
    overtaken,  \* overtaken[w]: another worker has stored since w read
    left        \* how many more requests will be made

requestVars == <<place, request, seen, overtaken, left>>

RequestsInit ==
    /\ place = [w \in Workers |-> "idle"]
    /\ request = [w \in Workers |-> None]
    /\ seen = [w \in Workers |-> None]
    /\ overtaken = [w \in Workers |-> FALSE]
    /\ left = MaxRequests

Goto(w, p) == place' = [place EXCEPT ![w] = p]

(* run_worker: the parameters are valid and the method is called. *)
Begin(w, r, p) ==
    /\ place[w] = "idle"
    /\ left > 0
    /\ left' = left - 1
    /\ Goto(w, p)
    /\ request' = [request EXCEPT ![w] = r]
    /\ UNCHANGED <<seen, overtaken>>

(* The method returns and the worker object is dropped. *)
Answer(w) ==
    /\ Goto(w, "idle")
    /\ request' = [request EXCEPT ![w] = None]
    /\ seen' = [seen EXCEPT ![w] = None]
    /\ overtaken' = [overtaken EXCEPT ![w] = FALSE]
    /\ UNCHANGED left

(* w has read a value that lets it go on at p, or not. *)
ReadAndGo(w, value, p) ==
    /\ Goto(w, p)
    /\ seen' = [seen EXCEPT ![w] = value]
    /\ overtaken' = [overtaken EXCEPT ![w] = FALSE]
    /\ UNCHANGED <<request, left>>

ReadFor(w, value, mayGo, p) ==
    IF mayGo THEN ReadAndGo(w, value, p) ELSE Answer(w)

(* w has stored something and goes on at p, or is done: requests that are  *)
(* in progress have been overtaken.                                        *)
Overtake(w, self) ==
    overtaken' = [u \in Workers |-> IF u = w THEN self ELSE place[u] # "idle"]

StoreAndGo(w, p) ==
    /\ Goto(w, p)
    /\ Overtake(w, overtaken[w])
    /\ UNCHANGED <<request, seen, left>>

StoreAndAnswer(w) ==
    /\ Goto(w, "idle")
    /\ Overtake(w, FALSE)
    /\ request' = [request EXCEPT ![w] = None]
    /\ seen' = [seen EXCEPT ![w] = None]
    /\ UNCHANGED left

(* The request ends early: send_request has no connection after all its    *)
(* attempts, the statement fails, the object asked for is not there (404), *)
(* or gunicorn kills the worker.  What was stored before stays.            *)
Fail(w) == place[w] # "idle" /\ Answer(w)

RequestsTypeOK(places, requests, readings) ==
    /\ place \in [Workers -> {"idle"} \cup places]
    /\ request \in [Workers -> {None} \cup requests]
    /\ seen \in [Workers -> {None} \cup readings]
    /\ overtaken \in [Workers -> BOOLEAN]
    /\ left \in 0..MaxRequests
=============================================================================
