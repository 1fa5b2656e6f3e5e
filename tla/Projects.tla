----------------------------------- MODULE Projects -----------------------------------
(***************************************************************************)
(* The projects of one account, the repositories linked to them, the       *)
(* sessions booked on them and the events that tell other clients, under   *)
(* concurrent requests that may carry an Idempotency-Key.                  *)
(*                                                                         *)
(* A handler authorises the project first and writes later: what it read   *)
(* may have changed.  So it does when it moves a session to another        *)
(* project; a cut takes the project from the session it read.  Creating    *)
(* and updating write their event in the same transaction; archiving and   *)
(* deleting write it in one of its own, after.                             *)
(*                                                                         *)
(* Of a session only its project and its life count here: when it runs,    *)
(* and whether its times allow a call, is WorkSessions'.                   *)
(*                                                                         *)
(* The middleware around a keyed POST looks the key up, runs the handler,  *)
(* answers, and stores the answer: three steps as well.                    *)
(***************************************************************************)
EXTENDS Integers, Sequences, FiniteSets

CONSTANTS
    ProjectIds,         \* projects that may come to exist
    Default,            \* the one the account was created with
    Names,
    DefaultName,
    Repos,
    Keys,               \* idempotency keys
    Reqs,               \* requests the server handles at a time
    Scenarios,          \* bound: how often each call is made
    MaxFaults,          \* bound: statements that fail and restarts
    MaxPurges,          \* bound: keys that reach their 24 hours
    None

Calls == {"CreateProject", "UpdateProject", "DeleteProject", "LinkRepo", "UnlinkRepo",
          "StartSession", "UpdateSession", "SplitSession", "DeleteSession"}
Posts == {"CreateProject", "LinkRepo", "StartSession"}

ASSUME ProjectsAssumption ==
    /\ Default \in ProjectIds /\ DefaultName \in Names
    /\ None \notin ProjectIds \cup Names \cup Repos \cup Keys
    /\ MaxFaults \in Nat /\ MaxPurges \in Nat
    /\ \A s \in Scenarios : DOMAIN s \subseteq Calls

VARIABLES
    projects,           \* projects
    links,              \* project_repos: <<project, repository>>
    sessions,           \* work_sessions
    feed,               \* events, in the order of their seq
    keys,               \* idempotency_keys
    req,                \* the requests under way
    left, faults, purges,   \* bounds
    past                \* history: what the properties are about

domain == <<projects, links, sessions, feed>>
bounds == <<left, faults, purges>>
vars   == <<domain, keys, req, bounds, past>>

-------------------------------------------------------------------------------
Project == [state : {"none", "live", "deleted"}, name : Names \cup {None}, archived : BOOLEAN]
Session == [p : ProjectIds, live : BOOLEAN, excused : BOOLEAN]
Event   == [type : {"created", "updated", "archived", "deleted"}, p : ProjectIds, row : Project]
Call    == [op : Calls \cup {"idle"}, p : ProjectIds \cup {None}, name : Names \cup {None},
            repo : Repos \cup {None}, s : Nat]
Answer  == {0, 200, 201, 404, 409, 500}
Stored  == [call : Call, status : Answer]
Request == [call : Call, key : Keys \cup {None}, pc : {"", "lookup", "run", "write", "count",
            "archive", "delete", "emit", "relist", "store"}, seen : SUBSET Nat, row : Project,
            from : ProjectIds \cup {None}, status : Answer]

NoCall    == [op |-> "idle", p |-> None, name |-> None, repo |-> None, s |-> 0]
NoProject == [state |-> "none", name |-> None, archived |-> FALSE]
Idle      == [call |-> NoCall, key |-> None, pc |-> "", seen |-> {}, row |-> NoProject,
              from |-> None, status |-> 0]
NoKey     == [call |-> NoCall, status |-> 0]

Live(p)      == projects[p].state = "live"
Named(n)     == {p \in ProjectIds : Live(p) /\ projects[p].name = n}
Recorded(s)  == s \in DOMAIN sessions /\ sessions[s].live
Booked(p)    == {s \in DOMAIN sessions : sessions[s].p = p /\ sessions[s].live}
Tell(t, p, row) == feed' = Append(feed, [type |-> t, p |-> p, row |-> row])
InFlight(k)  == {r \in Reqs : req[r].key = k /\ req[r].pc # "lookup"}

Init == \E s \in Scenarios :
    /\ projects = [p \in ProjectIds |-> IF p = Default
                     THEN [state |-> "live", name |-> DefaultName, archived |-> FALSE] ELSE NoProject]
    /\ links = {} /\ sessions = <<>> /\ feed = <<>>
    /\ keys = [k \in Keys |-> NoKey]
    /\ req = [r \in Reqs |-> Idle]
    /\ left = [o \in Calls |-> IF o \in DOMAIN s THEN s[o] ELSE 0]
    /\ faults = 0 /\ purges = 0
    /\ past = [untold |-> {}, ran |-> [k \in Keys |-> 0], lost |-> {}, overlapped |-> {}]

-------------------------------------------------------------------------------
(* The middleware. *)

At(r, op, pc) == req[r].call.op = op /\ req[r].pc = pc
Goto(r, pc)   == req' = [req EXCEPT ![r].pc = pc]
Fails         == faults < MaxFaults /\ faults' = faults + 1

\* A call with its arguments; a client that got no answer makes it again with the same key.
Receive(r, call, key) ==
    /\ req[r] = Idle /\ left[call.op] > 0
    /\ left' = [left EXCEPT ![call.op] = @ - 1]
    /\ key # None => call.op \in Posts
    /\ req' = [req EXCEPT ![r] = [Idle EXCEPT !.call = call, !.key = key,
                                    !.pc = IF key = None THEN "run" ELSE "lookup"]]
    /\ UNCHANGED <<domain, keys, faults, purges, past>>

\* A stored answer is replayed, or refused to another body; without one the handler runs,
\* and without a lookup too, unrecorded.
GetIdempotencyKey(r) ==
    /\ req[r].pc = "lookup"
    /\ LET k == req[r].key IN
       \/ /\ keys[k] # NoKey
          /\ req' = [req EXCEPT ![r] = Idle] /\ UNCHANGED <<faults, past>>
       \/ /\ keys[k] = NoKey
          /\ Goto(r, "run")
          /\ past' = IF InFlight(k) # {} THEN [past EXCEPT !.overlapped = @ \cup {k}] ELSE past
          /\ UNCHANGED faults
       \/ /\ Fails
          /\ req' = [req EXCEPT ![r].pc = "run", ![r].key = None] /\ UNCHANGED past
    /\ UNCHANGED <<domain, keys, left, purges>>

\* What is remembered of a request that has been answered: an answer to keep goes to "store".
Ran(r, status) ==
    IF req[r].key = None THEN past
    ELSE IF status = 500 THEN [past EXCEPT !.lost = @ \cup {req[r].key}]
    ELSE [past EXCEPT !.ran[req[r].key] = @ + 1]
Reply(r, status) ==
    req' = [req EXCEPT ![r] = IF req[r].key # None /\ status < 500
                                THEN [@ EXCEPT !.pc = "store", !.status = status, !.row = NoProject, !.seen = {}]
                                ELSE Idle]
Answered(r, status) == Reply(r, status) /\ past' = Ran(r, status)

\* Fault: only answers of success are kept.
StoreSuccessOnly(r) ==
    /\ req[r].pc = "store"
    /\ keys' = IF keys[req[r].key] = NoKey /\ req[r].status < 300
                 THEN [keys EXCEPT ![req[r].key] = [call |-> req[r].call, status |-> req[r].status]] ELSE keys
    /\ req' = [req EXCEPT ![r] = Idle]
    /\ UNCHANGED <<domain, bounds, past>>

\* ON CONFLICT DO NOTHING; a failure is only logged.
CreateIdempotencyKey(r) ==
    /\ req[r].pc = "store" /\ req' = [req EXCEPT ![r] = Idle]
    /\ \/ /\ keys' = IF keys[req[r].key] = NoKey
                       THEN [keys EXCEPT ![req[r].key] = [call |-> req[r].call, status |-> req[r].status]]
                       ELSE keys
          /\ UNCHANGED <<faults, past>>
       \/ /\ Fails /\ UNCHANGED keys
          /\ past' = [past EXCEPT !.lost = @ \cup {req[r].key}]
    /\ UNCHANGED <<domain, left, purges>>

DeleteExpiredIdempotencyKeys(k) ==
    /\ keys[k] # NoKey /\ purges < MaxPurges /\ purges' = purges + 1
    /\ keys' = [keys EXCEPT ![k] = NoKey]
    /\ past' = [past EXCEPT !.lost = @ \cup {k}]
    /\ UNCHANGED <<domain, req, left, faults>>

-------------------------------------------------------------------------------
(* Handlers. *)

\* Fault: the names are compared by nobody.
CreateProjectAnyName(r) ==
    /\ At(r, "CreateProject", "run")
    /\ \E p \in ProjectIds :
         /\ projects[p].state = "none"
         /\ projects' = [projects EXCEPT ![p] = [state |-> "live", name |-> req[r].call.name, archived |-> FALSE]]
         /\ Tell("created", p, projects'[p])
         /\ Answered(r, 201)
    /\ UNCHANGED <<links, sessions, keys, bounds>>

\* One project per name among those not deleted (unique index on owner_id, lower(name)).
CreateProject(r) ==
    /\ At(r, "CreateProject", "run")
    /\ LET n == req[r].call.name IN
       IF Named(n) # {}
         THEN Answered(r, 409) /\ UNCHANGED <<projects, feed>>
         ELSE \E p \in ProjectIds :
                /\ projects[p].state = "none"
                /\ projects' = [projects EXCEPT ![p] = [state |-> "live", name |-> n, archived |-> FALSE]]
                /\ Tell("created", p, projects'[p])
                /\ Answered(r, 201)
    /\ UNCHANGED <<links, sessions, keys, bounds>>

\* Every other handler of a project starts here; UpdateSession has found its session before.
authorizeProject(r) ==
    /\ req[r].pc = "run" /\ req[r].call.op \in Calls \ {"CreateProject", "SplitSession", "DeleteSession"}
    /\ IF ~Live(req[r].call.p) \/ (req[r].call.op = "UpdateSession" /\ ~Recorded(req[r].call.s))
         THEN Answered(r, 404)
         ELSE Goto(r, IF req[r].call.op = "DeleteProject" THEN "count" ELSE "write") /\ UNCHANGED past
    /\ UNCHANGED <<domain, keys, bounds>>

\* Fault: the event goes out although the name is taken.
UpdateProjectEventFirst(r) ==
    /\ At(r, "UpdateProject", "write")
    /\ LET p == req[r].call.p
           n == req[r].call.name
           taken == Named(n) \ {p} # {} IN
       /\ projects' = IF Live(p) /\ ~taken THEN [projects EXCEPT ![p].name = n] ELSE projects
       /\ Tell("updated", p, [projects[p] EXCEPT !.name = n])
       /\ Answered(r, 200)
    /\ UNCHANGED <<links, sessions, keys, bounds>>

UpdateProject(r) ==
    /\ At(r, "UpdateProject", "write")
    /\ LET p == req[r].call.p
           n == req[r].call.name IN
       IF ~Live(p) \/ Named(n) \ {p} # {}
         THEN Answered(r, IF Live(p) THEN 409 ELSE 404) /\ UNCHANGED <<projects, feed>>
         ELSE /\ projects' = [projects EXCEPT ![p].name = n]
              /\ Tell("updated", p, projects'[p])
              /\ Reply(r, 200) /\ past' = [past EXCEPT !.untold = @ \ {p}]
    /\ UNCHANGED <<links, sessions, keys, bounds>>

\* Fault: the running session is not counted.
CountFinishedSessions(p) == Cardinality({s \in Booked(p) : s # Len(sessions)})
CountSessionsForProject(p) == Cardinality(Booked(p))

\* DeleteProject decides on a count and then acts on it.
CountSessions(r) ==
    /\ At(r, "DeleteProject", "count")
    /\ LET p == req[r].call.p IN
       req' = IF CountSessionsForProject(p) > 0 THEN [req EXCEPT ![r].pc = "archive"]
              ELSE [req EXCEPT ![r].pc = "delete", ![r].seen = Booked(p)]
    /\ UNCHANGED <<domain, keys, bounds, past>>

ArchiveProject(r) ==
    /\ At(r, "DeleteProject", "archive")
    /\ LET p == req[r].call.p IN
       IF Live(p) /\ ~projects[p].archived
         THEN /\ projects' = [projects EXCEPT ![p].archived = TRUE]
              /\ req' = [req EXCEPT ![r].pc = "emit", ![r].row = projects'[p]]
              /\ UNCHANGED past
         ELSE Answered(r, 200) /\ UNCHANGED projects
    /\ UNCHANGED <<links, sessions, feed, keys, bounds>>

\* The rows affected are not looked at.  A session that came to the project since the count
\* goes under with it.
SoftDeleteProject(r) ==
    /\ At(r, "DeleteProject", "delete")
    /\ LET p == req[r].call.p IN
       /\ projects' = IF Live(p) THEN [projects EXCEPT ![p].state = "deleted"] ELSE projects
       /\ sessions' = [s \in DOMAIN sessions |->
                         IF sessions[s].p = p /\ s \notin req[r].seen
                           THEN [sessions[s] EXCEPT !.excused = TRUE] ELSE sessions[s]]
       /\ req' = [req EXCEPT ![r].pc = "emit", ![r].row = projects'[p]]
    /\ UNCHANGED <<links, feed, keys, bounds, past>>

\* emit: a transaction after the one it tells of, with the row that one returned.
emit(r) ==
    /\ req[r].pc = "emit"
    /\ LET p   == req[r].call.p
           row == req[r].row IN
       \/ /\ Tell(IF row.state = "live" THEN "archived" ELSE "deleted", p, row)
          /\ Reply(r, 200)
          /\ past' = [past EXCEPT !.untold = IF projects[p] = row THEN @ \ {p} ELSE @ \cup {p}]
          /\ UNCHANGED faults
       \/ /\ Fails /\ Reply(r, 500) /\ past' = [past EXCEPT !.untold = @ \cup {p}]
          /\ UNCHANGED feed
    /\ UNCHANGED <<projects, links, sessions, keys, left, purges>>

\* StartSession, after its authorisation: the row refers to the project, deleted or not.
StartSession(r) ==
    /\ At(r, "StartSession", "write")
    /\ sessions' = Append(sessions, [p |-> req[r].call.p, live |-> TRUE, excused |-> ~Live(req[r].call.p)])
    /\ Answered(r, 201)
    /\ UNCHANGED <<projects, links, feed, keys, bounds>>

\* UpdateSession moves a session to the project authorised before.
UpdateSession(r) ==
    /\ At(r, "UpdateSession", "write")
    /\ LET p == req[r].call.p
           s == req[r].call.s IN
       IF Recorded(s)
         THEN sessions' = [sessions EXCEPT ![s].p = p, ![s].excused = ~Live(p)] /\ Answered(r, 200)
         ELSE Answered(r, 404) /\ UNCHANGED sessions
    /\ UNCHANGED <<projects, links, feed, keys, bounds>>

\* SplitSession reads the session, then books the second half under the project it read:
\* the session may have moved since, and that project may be gone.
GetSession(r) ==
    /\ At(r, "SplitSession", "run")
    /\ LET s == req[r].call.s IN
       IF Recorded(s)
         THEN req' = [req EXCEPT ![r].pc = "write", ![r].from = sessions[s].p] /\ UNCHANGED past
         ELSE Answered(r, 404)
    /\ UNCHANGED <<domain, keys, bounds>>

SplitSession(r) ==
    /\ At(r, "SplitSession", "write")
    /\ IF Recorded(req[r].call.s)
         THEN /\ sessions' = Append(sessions, [p |-> req[r].from, live |-> TRUE,
                                              excused |-> ~Live(req[r].from)])
              /\ Answered(r, 201)
         ELSE Answered(r, 404) /\ UNCHANGED sessions
    /\ UNCHANGED <<projects, links, feed, keys, bounds>>

DeleteSession(r) ==
    /\ At(r, "DeleteSession", "run")
    /\ LET s == req[r].call.s IN
       IF Recorded(s) THEN sessions' = [sessions EXCEPT ![s].live = FALSE] /\ Answered(r, 200)
                      ELSE Answered(r, 404) /\ UNCHANGED sessions
    /\ UNCHANGED <<projects, links, feed, keys, bounds>>

\* ON CONFLICT DO NOTHING answers no row; the link is then looked for.
LinkRepo(r) ==
    /\ At(r, "LinkRepo", "write")
    /\ LET l == <<req[r].call.p, req[r].call.repo>> IN
       IF l \in links THEN Goto(r, "relist") /\ UNCHANGED <<links, past>>
                      ELSE links' = links \cup {l} /\ Answered(r, 201)
    /\ UNCHANGED <<projects, sessions, feed, keys, bounds>>

ListProjectRepos(r) ==
    /\ At(r, "LinkRepo", "relist")
    /\ Answered(r, IF <<req[r].call.p, req[r].call.repo>> \in links THEN 201 ELSE 500)
    /\ UNCHANGED <<domain, keys, bounds>>

\* The repository named may belong to another project of the owner.
UnlinkRepo(r) ==
    /\ At(r, "UnlinkRepo", "write")
    /\ \/ \E l \in links : links' = links \ {l} /\ Answered(r, 200)
       \/ Answered(r, 404) /\ UNCHANGED links
    /\ UNCHANGED <<projects, sessions, feed, keys, bounds>>

\* The requests under way end where they are.
Restart ==
    /\ Fails /\ \E r \in Reqs : req[r] # Idle
    /\ req' = [r \in Reqs |-> Idle]
    /\ past' = [past EXCEPT !.untold = @ \cup {req[r].call.p : r \in {q \in Reqs : req[q].pc = "emit"}},
                  !.lost = @ \cup {req[r].key : r \in {q \in Reqs : req[q].key # None /\ req[q].pc # "lookup"}}]
    /\ UNCHANGED <<domain, keys, left, purges>>

Arrive(r) == \E k \in Keys \cup {None} :
    \/ \E n \in Names : \/ Receive(r, [NoCall EXCEPT !.op = "CreateProject", !.name = n], k)
                        \/ \E p \in ProjectIds :
                             Receive(r, [NoCall EXCEPT !.op = "UpdateProject", !.p = p, !.name = n], k)
    \/ \E p \in ProjectIds :
         \/ \E op \in {"DeleteProject", "StartSession"} : Receive(r, [NoCall EXCEPT !.op = op, !.p = p], k)
         \/ \E s \in DOMAIN sessions : Receive(r, [NoCall EXCEPT !.op = "UpdateSession", !.p = p, !.s = s], k)
         \/ \E op \in {"LinkRepo", "UnlinkRepo"}, f \in Repos :
              Receive(r, [NoCall EXCEPT !.op = op, !.p = p, !.repo = f], k)
    \/ \E op \in {"SplitSession", "DeleteSession"}, s \in DOMAIN sessions :
         Receive(r, [NoCall EXCEPT !.op = op, !.s = s], k)

Next ==
    \/ \E r \in Reqs :
         \/ Arrive(r) \/ GetIdempotencyKey(r) \/ CreateIdempotencyKey(r)
         \/ CreateProject(r) \/ authorizeProject(r) \/ UpdateProject(r)
         \/ CountSessions(r) \/ ArchiveProject(r) \/ SoftDeleteProject(r) \/ emit(r)
         \/ StartSession(r) \/ UpdateSession(r) \/ GetSession(r) \/ SplitSession(r)
         \/ DeleteSession(r) \/ LinkRepo(r) \/ ListProjectRepos(r) \/ UnlinkRepo(r)
    \/ \E k \in Keys : DeleteExpiredIdempotencyKeys(k)
    \/ Restart

Spec == Init /\ [][Next]_vars

-------------------------------------------------------------------------------
(* Correctness. *)

\* The rows have their shape, and no two projects of the account share a name.
TypeOK ==
    /\ projects \in [ProjectIds -> Project] /\ links \subseteq ProjectIds \X Repos
    /\ \A s \in DOMAIN sessions : sessions[s] \in Session
    /\ \A e \in DOMAIN feed : feed[e] \in Event
    /\ keys \in [Keys -> Stored]
    /\ \A r \in Reqs : req[r] \in Request /\ (req[r].pc = "store" => req[r].key # None)
    /\ \A n \in Names : Cardinality(Named(n)) <= 1

\* A client that follows the events believes of a project what the last event about it says.
Believed(p, row) ==
    \/ /\ \A e \in DOMAIN feed : feed[e].p # p
       /\ row = IF p = Default THEN [state |-> "live", name |-> DefaultName, archived |-> FALSE]
                ELSE NoProject
    \/ \E e \in DOMAIN feed :
         /\ feed[e].p = p /\ feed[e].row = row
         /\ \A later \in DOMAIN feed : later > e => feed[later].p # p

\* A client that follows the events ends up with the projects the server has, whatever
\* requests interleave.  The exceptions are what emit's own transaction leaves: an archiving
\* or a deletion whose event was cut off or failed, or was written after a later change of
\* the project with the row from before it (projects.go:226-243, 311).
MirrorTrue ==
    \A p \in ProjectIds :
        (\A r \in Reqs : ~(req[r].pc = "emit" /\ req[r].call.p = p)) =>
            Believed(p, projects[p]) \/ p \in past.untold

\* No time is booked on a deleted project (projects.go:207 "would silently rewrite every
\* report that covered it"), except by a session that came to the project after the deletion
\* had counted: one started, moved (sessions_edit.go:39-43, 90-94) or cut off another
\* (157-160) between the count and the deletion, or after the deletion, when its project had
\* been authorised, or for a cut read from the session, before.
NoSessionStranded ==
    \A s \in DOMAIN sessions :
        sessions[s].live /\ projects[sessions[s].p].state = "deleted" => sessions[s].excused

\* A keyed request runs once: every answer the client may have got is there to be replayed,
\* errors below 500 included, and a key runs twice only if two requests overlapped or its
\* answer was never stored, or is gone after 24 hours (idempotency.go:15, 43-86).
RunsOnce ==
    \A k \in Keys :
        /\ past.ran[k] > 0 /\ InFlight(k) = {} => keys[k] # NoKey \/ k \in past.lost
        /\ past.ran[k] > 1 => k \in past.overlapped \cup past.lost

=======================================================================================
