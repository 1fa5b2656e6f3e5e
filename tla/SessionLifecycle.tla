---------------------------- MODULE SessionLifecycle ----------------------------
(***************************************************************************)
(* What the timesheet promises about the life of a session, with times,    *)
(* evidence, transactions and clients taken away: at most one timer runs,  *)
(* a new timer takes over from the running one in a single step, and a     *)
(* deleted session never comes back.  WorkSessions implements this.        *)
(***************************************************************************)
CONSTANT Sids

VARIABLE life

Lives == {"absent", "running", "recorded", "deleted"}

TypeOK == life \in [Sids -> Lives]

Init == life = [s \in Sids |-> "absent"]

\* A timer starts; whichever one was running is recorded in the same step.
Start(s) ==
    /\ life[s] = "absent"
    /\ life' = [t \in Sids |-> IF t = s THEN "running"
                               ELSE IF life[t] = "running" THEN "recorded" ELSE life[t]]

Stop(s) ==
    /\ life[s] = "running"
    /\ life' = [life EXCEPT ![s] = "recorded"]

Reopen(s) ==
    /\ life[s] = "recorded"
    /\ \A t \in Sids : life[t] # "running"
    /\ life' = [life EXCEPT ![s] = "running"]

\* One session becomes two recorded ones.
Split(s, n) ==
    /\ life[s] \in {"running", "recorded"}
    /\ life[n] = "absent"
    /\ life' = [life EXCEPT ![s] = "recorded", ![n] = "recorded"]

Delete(s) ==
    /\ life[s] \in {"running", "recorded"}
    /\ life' = [life EXCEPT ![s] = "deleted"]

Next ==
    \/ \E s \in Sids : Start(s) \/ Stop(s) \/ Reopen(s) \/ Delete(s)
    \/ \E s, n \in Sids : Split(s, n)

Spec == Init /\ [][Next]_life

\* At most one session runs: the abstract form of one_open_session_per_user.
OneRunning == \A s, t \in Sids : life[s] = "running" /\ life[t] = "running" => s = t
=============================================================================
