------------------------------ MODULE DeliveryPromise ------------------------------
(***************************************************************************)
(* What the webhook pipeline promises, without dispatchers, leases or      *)
(* transactions: a recorded event is news until it is fanned out, once;    *)
(* each delivery it is fanned out into is owed until its endpoint has been *)
(* told or the dispatcher gives up; only what was told counts as done.     *)
(*                                                                         *)
(* A delivery that is settled stays settled.  The one exception is a       *)
(* delivery whose lease has run out under the dispatcher working on it: it *)
(* is `doubled', and a late result may settle it again or owe it anew.     *)
(***************************************************************************)
EXTENDS Integers

CONSTANTS
    Events,
    Rows,           \* deliveries
    EventOf(_),     \* the event a delivery carries
    Copy(_)         \* its number among the deliveries of one event to one webhook, 0 for the fan-out's

VARIABLES
    news,           \* events recorded and not fanned out
    told,           \* deliveries whose endpoint has received the event
    state,          \* [Rows -> {"none", "owed", "done", "dropped", "forgotten"}]
    doubled         \* deliveries whose lease ran out under a dispatcher

vars == <<news, told, state, doubled>>

Init == news = {} /\ told = {} /\ doubled = {} /\ state = [r \in Rows |-> "none"]

\* A mutation commits an event with it.
Record(e) == e \notin news /\ news' = news \cup {e} /\ UNCHANGED <<told, state, doubled>>

\* Some news become deliveries, all of them in one step.
FanOut ==
    \E E \in SUBSET news, R \in SUBSET {r \in Rows : state[r] = "none"} :
        /\ E # {}
        /\ \A r \in R : EventOf(r) \in E /\ Copy(r) = 0
        /\ news' = news \ E
        /\ state' = [r \in Rows |-> IF r \in R THEN "owed" ELSE state[r]]
        /\ UNCHANGED <<told, doubled>>

\* A client asks for another delivery of the same event.
AskAgain(r) ==
    /\ state[r] = "none" /\ Copy(r) > 0
    /\ state' = [state EXCEPT ![r] = "owed"] /\ UNCHANGED <<news, told, doubled>>

\* The endpoint receives the event.
Tell(r) ==
    /\ \/ state[r] = "owed"
       \/ state[r] = "forgotten"    \* an attempt under way when its row was deleted
       \/ r \in doubled
    /\ told' = told \cup {r} /\ UNCHANGED <<news, state, doubled>>

\* A delivery is settled: done if its endpoint was told, or given up.
Settle(r) ==
    /\ state[r] = "owed" \/ (r \in doubled /\ state[r] \in {"done", "dropped"})
    /\ \/ r \in told /\ state' = [state EXCEPT ![r] = "done"]
       \/ state' = [state EXCEPT ![r] = "dropped"]
    /\ UNCHANGED <<news, told, doubled>>

Double(r) ==
    /\ state[r] = "owed"
    /\ doubled' = doubled \cup {r} /\ UNCHANGED <<news, told, state>>

OweAgain(r) ==
    /\ r \in doubled /\ state[r] \in {"done", "dropped"}
    /\ state' = [state EXCEPT ![r] = "owed"] /\ UNCHANGED <<news, told, doubled>>

\* Retention, or the deletion of a webhook.
Forget ==
    \E E \in SUBSET news, R \in SUBSET {r \in Rows : state[r] # "none"} :
        /\ news' = news \ E
        /\ state' = [r \in Rows |-> IF r \in R THEN "forgotten" ELSE state[r]]
        /\ UNCHANGED <<told, doubled>>

Next ==
    \/ \E e \in Events : Record(e)
    \/ FanOut \/ Forget
    \/ \E r \in Rows : AskAgain(r) \/ Tell(r) \/ Settle(r) \/ Double(r) \/ OweAgain(r)

Spec == Init /\ [][Next]_vars

\* Only what its endpoint has received is called done.
DoneWereTold == \A r \in Rows : state[r] = "done" => r \in told

\* A settled delivery is not settled otherwise nor owed again, unless its lease ran out under
\* a dispatcher; what is deleted does not come back.
Stands(r) ==
    /\ (state[r] \in {"done", "dropped"} /\ r \notin doubled) => state'[r] \in {state[r], "forgotten"}
    /\ state[r] = "forgotten" => state'[r] = "forgotten"

SettledForGood == [][\A r \in Rows : Stands(r)]_vars
================================================================================
