------------------------------ MODULE WorkSessions ------------------------------
(***************************************************************************)
(* The timesheet of one user: the work_sessions table, the two filing      *)
(* tables that say which session a commit or an agent run belongs to, the  *)
(* HTTP handlers that change them and the commit scanner.                  *)
(*                                                                         *)
(* Every query of the code is scoped to one user_id, so one user is the    *)
(* whole system for these tables.  A handler is up to three steps:         *)
(*   - the checks it makes on rows read OUTSIDE its transaction;           *)
(*   - its transaction's statements, which see what is committed plus its  *)
(*     own writes, and lock the rows they write ("draft" below);           *)
(*   - the COMMIT that publishes the writes, or a rollback.                *)
(* Steps of different handlers, and of the scanner, interleave freely.     *)
(*                                                                         *)
(* Times are ticks of the smallest step a timestamptz can make, one        *)
(* microsecond.  0 is SQL's NULL, so a running session has endedAt = Null. *)
(***************************************************************************)
EXTENDS Integers, FiniteSets

CONSTANTS
    Sids,           \* ids work_sessions rows can be given
    Commits,        \* the user's commits on GitHub
    Runs,           \* the user's agent runs, by idempotency key
    Workers,        \* goroutines serving this user's requests
    CommittedAt,    \* [Commits -> Times]
    RunStartedAt,   \* [Runs -> Times]
    Edits,          \* corrections a client may send, as [at, to, setEnded]
    Windows,        \* clusters a client may turn into a session, as [from, to]
    MaxTime,        \* bound: the latest instant a request can name
    Now,            \* the server's clock, with the minute of skew a start may have
    MaxInFlight,    \* bound: transactions open at once (1: they run one at a time)
    Nobody,         \* not a worker: the row is not locked
    NoSid,          \* not a session id
    Unknown,        \* filing of a commit or run the server has no row for
    Unfiled         \* filing of a commit or run that belongs to no session

Times == 1 .. MaxTime
Null  == 0

ASSUME WorkSessionsAssumption ==
    /\ MaxTime \in Nat
    /\ Edits \subseteq [at : Times \cup {Null}, to : Times \cup {Null}, setEnded : BOOLEAN]
    /\ \A e \in Edits : e.at # Null \/ e.setEnded
    /\ Windows \subseteq [from : Times, to : Times]
    /\ Now \in Times
    /\ MaxInFlight \in Nat \ {0}
    /\ CommittedAt \in [Commits -> Times]
    /\ RunStartedAt \in [Runs -> Times]
    /\ Nobody \notin Workers
    /\ NoSid \notin Sids
    /\ Unknown \notin Sids /\ Unfiled \notin Sids /\ Unknown # Unfiled

VARIABLES
    sessions,       \* committed work_sessions rows
    runIn,          \* committed filing of each run
    commitIn,       \* committed filing of each commit
    draft,          \* uncommitted work_sessions rows, and the worker holding each
    draftRun,       \* uncommitted filing of runs
    draftCommit,    \* uncommitted filing of commits
    lone,           \* history: the worker whose transaction is open and has had no other
                    \* open beside it
    settled,        \* history: no transaction that had another open beside it has
                    \* committed since the last reconcile of one that had none
    req,            \* the request each worker is serving
    scan            \* the commit the scanner is about to attach, and to what

tables == <<sessions, runIn, commitIn>>
drafts == <<draft, draftRun, draftCommit, lone, settled>>
vars   == <<tables, drafts, req, scan>>

-------------------------------------------------------------------------------
(* Rows.                                                                   *)

SessionRow == [startedAt : Nat, endedAt : Nat, deleted : BOOLEAN]
Absent     == [startedAt |-> Null, endedAt |-> Null, deleted |-> FALSE]
Running(t) == [startedAt |-> t, endedAt |-> Null, deleted |-> FALSE]

\* Fault: "deleted_at IS NULL" forgotten.
IsStored(row) == row.startedAt # Null

IsLive(row)     == row.startedAt # Null /\ ~row.deleted
IsOpen(row)     == IsLive(row) /\ row.endedAt = Null
IsRecorded(row) == IsLive(row) /\ row.endedAt # Null

\* CONSTRAINT work_sessions_range.
RangeOK(row) == row.endedAt = Null \/ row.endedAt > row.startedAt

Later(a, b) == IF a >= b THEN a ELSE b

\* GREATEST(at, started_at + interval '1 microsecond').
Stopped(row, at) == [row EXCEPT !.endedAt = Later(at, row.startedAt + 1)]

\* A run belongs to [started_at, ended_at); a commit to [started_at, ended_at].
HoldsRun(row, r)     == /\ IsRecorded(row)
                        /\ row.startedAt <= RunStartedAt[r]
                        /\ RunStartedAt[r] < row.endedAt
CoversTime(row, t)   == /\ IsRecorded(row)
                        /\ row.startedAt <= t
                        /\ t <= row.endedAt

(* reconcileAgentRuns: release the runs whose session no longer covers     *)
(* them, then attach the ones nobody holds.  A run two sessions cover goes *)
(* to whichever row the join returns first.                                *)
Places == Sids \cup {Unknown, Unfiled}

\* Fault: no run is released.
DetachNothing(ws, ri) == ri

DetachUncovered(ws, ri) ==
    [r \in Runs |-> IF ri[r] \in Sids /\ ~HoldsRun(ws[ri[r]], r)
                    THEN Unfiled ELSE ri[r]]

AttachCovered(ws, ri) ==
    {f \in [Runs -> Places] :
        \A r \in Runs :
            LET holders == {s \in Sids : HoldsRun(ws[s], r)}
            IN  IF ri[r] = Unfiled /\ holders # {} THEN f[r] \in holders
                                                   ELSE f[r] = ri[r]}

\* Fault: attaching before releasing.
AttachedFirst(ws, ri) == {DetachUncovered(ws, f) : f \in AttachCovered(ws, ri)}

Reconciled(ws, ri) == AttachCovered(ws, DetachUncovered(ws, ri))

-------------------------------------------------------------------------------
(* Requests and transactions.                                              *)

Ops    == {"none", "start", "stop", "update", "split", "delete", "record",
           "recover", "recoverStop", "recoverAttach"}
Phases == {"idle", "checked", "executed", "failed"}

Request == [op : Ops, phase : Phases, sid : Sids \cup {NoSid}, at : Nat,
            to : Nat, setEnded : BOOLEAN, todo : SUBSET Commits]

Idle == [op |-> "none", phase |-> "idle", sid |-> NoSid, at |-> Null,
         to |-> Null, setEnded |-> FALSE, todo |-> {}]

Free(w)    == req[w].phase \in {"idle", "failed"}
Reply(w)   == req' = [req EXCEPT ![w] = Idle]
Checked(w, r) == req' = [req EXCEPT ![w] = [r EXCEPT !.phase = "checked"]]
Ready(w, op)  == req[w].phase = "checked" /\ req[w].op = op

\* The handler answers 500: the database rejected a statement and the whole
\* transaction is rolled back.
FailRaw(w, op) == /\ req' = [req EXCEPT ![w] = [Idle EXCEPT !.op = op, !.phase = "failed"]]
                  /\ UNCHANGED <<tables, drafts, scan>>

Unlocked(s) == draft[s].by = Nobody
InFlight    == {w \in Workers : req[w].phase = "executed"}
\* Fault: the id of a deleted row is given out again.
ReusableSids == {s \in Sids : ~IsLive(sessions[s]) /\ Unlocked(s)}

FreshSids   == {s \in Sids : sessions[s] = Absent /\ Unlocked(s)}

\* The requests whose transaction ends with reconcileAgentRuns.
Reconciling == {"stop", "update", "split", "record", "recoverStop", "recoverAttach"}

\* The statements of worker w's transaction: it writes the session rows in
\* `wrote', and its view goes from the committed tables to (ws, ri, ci).
\* Statements wait for rows another transaction holds.
Execute(w, r, wrote, ws, ri, ci) ==
    /\ Cardinality(InFlight) < MaxInFlight
    /\ \A s \in wrote : Unlocked(s)
    /\ \A x \in Runs : ri[x] # runIn[x] => draftRun[x].by = Nobody
    /\ \A c \in Commits : ci[c] # commitIn[c] => draftCommit[c].by = Nobody
    /\ draft' = [s \in Sids |-> IF s \in wrote
                                THEN [by |-> w, row |-> ws[s]] ELSE draft[s]]
    /\ draftRun' = [x \in Runs |-> IF ri[x] # runIn[x]
                                   THEN [by |-> w, in |-> ri[x]] ELSE draftRun[x]]
    /\ draftCommit' = [c \in Commits |-> IF ci[c] # commitIn[c]
                                         THEN [by |-> w, in |-> ci[c]] ELSE draftCommit[c]]
    /\ lone' = IF InFlight = {} THEN w ELSE Nobody
    /\ req' = [req EXCEPT ![w] = [r EXCEPT !.phase = "executed"]]
    /\ UNCHANGED <<tables, settled, scan>>

(* one_open_session_per_user, as the transaction that makes row s open in  *)
(* its view ws meets it.                                                   *)
OpenElsewhere(s, ws)   == \E o \in Sids \ {s} : IsOpen(ws[o])
OpenUncommitted(s)     == \E o \in Sids \ {s} :
                            ~Unlocked(o) /\ IsOpen(draft[o].row) /\ ~IsOpen(sessions[o])
\* Fault: a check in the code where the unique index is.
NoneOpenInView(s, ws)  == ~OpenElsewhere(s, ws)

IndexAllows(s, ws)     == ~OpenElsewhere(s, ws) /\ ~OpenUncommitted(s)
\* A conflict with a row another transaction is closing is waited for instead.
IndexRejects(s, ws)    == \/ \E o \in Sids \ {s} : IsOpen(ws[o]) /\ Unlocked(o)
                          \/ OpenUncommitted(s)

-------------------------------------------------------------------------------
(* StartSession.  Nothing it reads before its transaction is used in it.   *)

OpenSids == {o \in Sids : IsOpen(sessions[o])}

\* Fault: the nudged end is not read back.
StartAsAsked(at) == at

\* The new session starts where the stopped one really ended.
StartAfter(at) ==
    IF \E o \in OpenSids : Stopped(sessions[o], at).endedAt > at
    THEN LET o == CHOOSE o \in OpenSids : Stopped(sessions[o], at).endedAt > at
         IN  Stopped(sessions[o], at).endedAt
    ELSE at

\* The view after stopping whatever runs and opening n.
Replaced(n, at) ==
    [s \in Sids |-> IF s = n THEN Running(StartAfter(at))
                    ELSE IF IsOpen(sessions[s]) THEN Stopped(sessions[s], at)
                    ELSE sessions[s]]

StartTx(w, r, at) ==
    \E n \in FreshSids :
        /\ IndexAllows(n, Replaced(n, at))
        /\ Execute(w, [r EXCEPT !.sid = n], OpenSids \cup {n},
                   Replaced(n, at), runIn, commitIn)

\* stop_current = false answers 409 when a timer runs, and changes nothing.
StartSession(w) ==
    /\ Free(w)
    /\ \E at \in 1 .. Now :
        \E stopCurrent \in BOOLEAN :
            /\ stopCurrent \/ OpenSids = {}
            /\ StartTx(w, [Idle EXCEPT !.op = "start"], at)

\* Two starts at once: the loser read no open session, then met the index.
StartRejected(w) ==
    /\ \/ Free(w)
       \/ Ready(w, "recover")
    /\ OpenUncommitted(NoSid)
    /\ FailRaw(w, "start")

-------------------------------------------------------------------------------
(* StopSession.  An already-stopped session is returned as it is.          *)

CheckStop(w) ==
    /\ Free(w)
    /\ \E s \in Sids, at \in Times :
        /\ IsOpen(sessions[s])
        /\ Checked(w, [Idle EXCEPT !.op = "stop", !.sid = s, !.at = at])
    /\ UNCHANGED <<tables, drafts, scan>>

\* Fault: "ended_at IS NULL" forgotten.
StopAnyLive(w, r, at) ==
    LET ws == [sessions EXCEPT ![r.sid] = Stopped(@, at)] IN
    /\ IsLive(sessions[r.sid])
    /\ \E ri \in Reconciled(ws, runIn) : Execute(w, r, {r.sid}, ws, ri, commitIn)

\* StopWorkSession's WHERE: only a session that is still running is closed.
StopTx(w, r, at) ==
    LET ws == [sessions EXCEPT ![r.sid] = Stopped(@, at)] IN
    /\ IsOpen(sessions[r.sid])
    /\ \E ri \in Reconciled(ws, runIn) : Execute(w, r, {r.sid}, ws, ri, commitIn)

StopSession(w) ==
    /\ Ready(w, "stop")
    /\ StopTx(w, req[w], req[w].at)

\* The row was stopped or deleted after the check: no row comes back, 404.
StopNotFound(w) ==
    /\ Ready(w, "stop")
    /\ ~IsOpen(sessions[req[w].sid])
    /\ Reply(w)
    /\ UNCHANGED <<tables, drafts, scan>>

-------------------------------------------------------------------------------
(* UpdateSession: startedAt = Null leaves the start alone, ~setEnded leaves*)
(* the end alone, setEnded with to = Null reopens the session.  Changes of *)
(* project and note alone touch nothing kept here.                         *)

Corrected(row, r) ==
    [row EXCEPT !.startedAt = IF r.at # Null THEN r.at ELSE @,
                !.endedAt   = IF r.setEnded THEN r.to ELSE @]

CheckUpdate(w) ==
    /\ Free(w)
    /\ \E s \in Sids, e \in Edits :
        LET r   == [Idle EXCEPT !.op = "update", !.sid = s, !.at = e.at,
                                !.to = e.to, !.setEnded = e.setEnded]
            new == Corrected(sessions[s], r)
        IN  /\ IsLive(sessions[s])
            /\ RangeOK(new)
            /\ IsRecorded(sessions[s]) /\ IsOpen(new) => ~OpenElsewhere(s, sessions)
            /\ Checked(w, r)
    /\ UNCHANGED <<tables, drafts, scan>>

UpdateSession(w) ==
    /\ Ready(w, "update")
    /\ LET s   == req[w].sid
           new == Corrected(sessions[s], req[w])
           ws  == [sessions EXCEPT ![s] = new]
       IN  /\ IsLive(sessions[s]) /\ Unlocked(s)
           /\ RangeOK(new)
           /\ IsOpen(new) => IndexAllows(s, ws)
           /\ \E ri \in Reconciled(ws, runIn) : Execute(w, req[w], {s}, ws, ri, commitIn)

UpdateNotFound(w) ==
    /\ Ready(w, "update")
    /\ ~IsLive(sessions[req[w].sid])
    /\ Reply(w)
    /\ UNCHANGED <<tables, drafts, scan>>

\* The row moved after the check: the range CHECK or the index answers.
UpdateRejected(w) ==
    /\ Ready(w, "update")
    /\ LET s   == req[w].sid
           new == Corrected(sessions[s], req[w])
       IN  /\ IsLive(sessions[s]) /\ Unlocked(s)
           /\ \/ ~RangeOK(new)
              \/ IsOpen(new) /\ ~IsOpen(sessions[s]) /\ IndexRejects(s, sessions)
    /\ FailRaw(w, "update")

-------------------------------------------------------------------------------
(* SplitSession: `to' keeps the end the session had when it was checked.   *)

CheckSplit(w) ==
    /\ Free(w)
    /\ \E s \in Sids, at \in Times :
        /\ IsRecorded(sessions[s])
        /\ sessions[s].startedAt < at /\ at < sessions[s].endedAt
        /\ Checked(w, [Idle EXCEPT !.op = "split", !.sid = s, !.at = at,
                                   !.to = sessions[s].endedAt])
    /\ UNCHANGED <<tables, drafts, scan>>

\* Fault: every commit of s moves.
RefiledAll(s, n, at) == [c \in Commits |-> IF commitIn[c] = s THEN n ELSE commitIn[c]]

\* The commits filed under s from `at' on move to the second half.
Refiled(s, n, at) ==
    [c \in Commits |-> IF commitIn[c] = s /\ CommittedAt[c] >= at THEN n ELSE commitIn[c]]

SplitSession(w) ==
    /\ Ready(w, "split")
    /\ \E n \in FreshSids :
        LET s     == req[w].sid
            at    == req[w].at
            left  == [sessions[s] EXCEPT !.endedAt = at]
            right == [Running(at) EXCEPT !.endedAt = req[w].to]
            born  == [sessions EXCEPT ![s] = left, ![n] = Running(at)]
            ws    == [born EXCEPT ![n] = right]
        IN  /\ IsLive(sessions[s]) /\ Unlocked(s)
            /\ RangeOK(left)
            /\ IndexAllows(n, born)
            /\ \E ri \in Reconciled(ws, runIn) :
                Execute(w, req[w], {s, n}, ws, ri, Refiled(s, n, at))

\* Any failure inside the transaction is a 500: the session is gone or moved,
\* or the second half, born running, met a running timer.
SplitRejected(w) ==
    /\ Ready(w, "split")
    /\ LET s    == req[w].sid
           left == [sessions[s] EXCEPT !.endedAt = req[w].at]
       IN  /\ Unlocked(s)
           /\ \/ ~IsLive(sessions[s])
              \/ ~RangeOK(left)
              \/ IndexRejects(s, sessions)
    /\ FailRaw(w, "split")

-------------------------------------------------------------------------------
(* DeleteSession.                                                          *)

CheckDelete(w) ==
    /\ Free(w)
    /\ \E s \in Sids : /\ IsLive(sessions[s])
                       /\ Checked(w, [Idle EXCEPT !.op = "delete", !.sid = s])
    /\ UNCHANGED <<tables, drafts, scan>>

\* Fault: the filing is blanked instead of removed.
Blanked(f, s) == [x \in DOMAIN f |-> IF f[x] = s THEN NoSid ELSE f[x]]

Released(f, s) == [x \in DOMAIN f |-> IF f[x] = s THEN Unfiled ELSE f[x]]

DeleteSession(w) ==
    /\ Ready(w, "delete")
    /\ LET s == req[w].sid IN
        /\ IsLive(sessions[s])
        /\ Execute(w, req[w], {s}, [sessions EXCEPT ![s].deleted = TRUE],
                   Released(runIn, s), Released(commitIn, s))

DeleteNotFound(w) ==
    /\ Ready(w, "delete")
    /\ ~IsLive(sessions[req[w].sid])
    /\ Reply(w)
    /\ UNCHANGED <<tables, drafts, scan>>

-------------------------------------------------------------------------------
(* RecordAgentRuns.  A batch of runs all known already changes nothing.    *)

RecordAgentRuns(w) ==
    /\ Free(w)
    /\ \E batch \in SUBSET Runs :
        LET new      == {r \in batch : runIn[r] = Unknown}
            inserted == [r \in Runs |-> IF r \in new THEN Unfiled ELSE runIn[r]]
        IN  /\ new # {}
            /\ \E ri \in Reconciled(sessions, inserted) :
                Execute(w, [Idle EXCEPT !.op = "record"], {}, sessions, ri, commitIn)

-------------------------------------------------------------------------------
(* SessionFromCluster: a start, a stop, an attach per commit and a         *)
(* reconcile, each committed on its own.  req keeps the window in at..to.  *)

CheckRecover(w) ==
    /\ Free(w)
    /\ \E c \in Windows :
        /\ c.from < c.to
        /\ \A s \in Sids : ~CoversTime(sessions[s], c.from)
        /\ Checked(w, [Idle EXCEPT !.op = "recover", !.at = c.from, !.to = c.to])
    /\ UNCHANGED <<tables, drafts, scan>>

RecoverStart(w) ==
    /\ Ready(w, "recover")
    /\ req[w].at <= Now
    /\ StartTx(w, req[w], req[w].at)

RecoverStop(w) ==
    /\ Ready(w, "recoverStop")
    /\ StopTx(w, req[w], req[w].to)

\* ListCommitsInWindow over the range the stop returned.
InWindow(row) ==
    {c \in Commits : /\ commitIn[c] # Unknown
                     /\ row.startedAt <= CommittedAt[c]
                     /\ CommittedAt[c] <= row.endedAt}

\* Another client stopped it first: StopSession returns it as it is.
RecoverStopped(w) ==
    /\ Ready(w, "recoverStop")
    /\ IsRecorded(sessions[req[w].sid])
    /\ Checked(w, [req[w] EXCEPT !.op = "recoverAttach",
                                 !.todo = InWindow(sessions[req[w].sid])])
    /\ UNCHANGED <<tables, drafts, scan>>

RecoverNotFound(w) ==
    /\ Ready(w, "recoverStop")
    /\ ~IsOpen(sessions[req[w].sid])
    /\ Reply(w)
    /\ UNCHANGED <<tables, drafts, scan>>

\* AttachCommitToSession, ON CONFLICT DO NOTHING.
Attach(c, s) == commitIn' = IF commitIn[c] = Unfiled
                            THEN [commitIn EXCEPT ![c] = s] ELSE commitIn

RecoverAttach(w) ==
    /\ Ready(w, "recoverAttach")
    /\ \E c \in req[w].todo :
        /\ draftCommit[c].by = Nobody
        /\ Attach(c, req[w].sid)
        /\ Checked(w, [req[w] EXCEPT !.todo = @ \ {c}])
    /\ UNCHANGED <<sessions, runIn, drafts, scan>>

RecoverReconcile(w) ==
    /\ Ready(w, "recoverAttach")
    /\ req[w].todo = {}
    /\ \E ri \in Reconciled(sessions, runIn) :
        Execute(w, req[w], {}, sessions, ri, commitIn)

-------------------------------------------------------------------------------
(* The end of a transaction.                                               *)

Unlock(w) ==
    /\ draft' = [s \in Sids |-> IF draft[s].by = w
                                THEN [by |-> Nobody, row |-> Absent] ELSE draft[s]]
    /\ draftRun' = [x \in Runs |-> IF draftRun[x].by = w
                                   THEN [by |-> Nobody, in |-> Unknown] ELSE draftRun[x]]
    /\ draftCommit' = [c \in Commits |-> IF draftCommit[c].by = w
                                         THEN [by |-> Nobody, in |-> Unknown] ELSE draftCommit[c]]
    /\ lone' = IF lone = w THEN Nobody ELSE lone

Publish(w) ==
    /\ sessions' = [s \in Sids |-> IF draft[s].by = w THEN draft[s].row ELSE sessions[s]]
    /\ runIn' = [x \in Runs |-> IF draftRun[x].by = w THEN draftRun[x].in ELSE runIn[x]]
    /\ commitIn' = [c \in Commits |-> IF draftCommit[c].by = w
                                      THEN draftCommit[c].in ELSE commitIn[c]]

\* What the handler does once its transaction is committed.
Continue(w) ==
    CASE req[w].op = "recover"     -> Checked(w, [req[w] EXCEPT !.op = "recoverStop"])
      [] req[w].op = "recoverStop" -> Checked(w, [req[w] EXCEPT !.op = "recoverAttach",
                                                  !.todo = InWindow(draft[req[w].sid].row)])
      [] OTHER                     -> Reply(w)

Commit(w) ==
    /\ req[w].phase = "executed"
    /\ Publish(w)
    /\ Unlock(w)
    /\ Continue(w)
    /\ settled' = (lone = w /\ (settled \/ req[w].op \in Reconciling))
    /\ UNCHANGED scan

\* The client hangs up, the connection is lost or the server stops: the request
\* ends where it stands and an open transaction is rolled back.
Abandon(w) ==
    /\ req[w].phase \in {"checked", "executed"}
    /\ Unlock(w)
    /\ Reply(w)
    /\ UNCHANGED <<tables, settled, scan>>

-------------------------------------------------------------------------------
(* The scanner (storeCommits): an upsert, a lookup and an insert per       *)
(* commit, each a statement on its own.                                    *)

NoScan == [commit |-> Unknown, sid |-> NoSid]

UpsertCommit(c) ==
    /\ scan = NoScan
    /\ commitIn[c] = Unknown
    /\ commitIn' = [commitIn EXCEPT ![c] = Unfiled]
    /\ UNCHANGED <<sessions, runIn, drafts, req, scan>>

SessionCovering(c) ==
    /\ scan = NoScan
    /\ commitIn[c] # Unknown
    /\ \E s \in Sids : /\ CoversTime(sessions[s], CommittedAt[c])
                       /\ scan' = [commit |-> c, sid |-> s]
    /\ UNCHANGED <<tables, drafts, req>>

AttachCommitToSession ==
    /\ scan # NoScan
    /\ draftCommit[scan.commit].by = Nobody
    /\ Attach(scan.commit, scan.sid)
    /\ scan' = NoScan
    /\ UNCHANGED <<sessions, runIn, drafts, req>>

-------------------------------------------------------------------------------

Init ==
    /\ sessions = [s \in Sids |-> Absent]
    /\ runIn = [r \in Runs |-> Unknown]
    /\ commitIn = [c \in Commits |-> Unknown]
    /\ draft = [s \in Sids |-> [by |-> Nobody, row |-> Absent]]
    /\ draftRun = [r \in Runs |-> [by |-> Nobody, in |-> Unknown]]
    /\ draftCommit = [c \in Commits |-> [by |-> Nobody, in |-> Unknown]]
    /\ lone = Nobody
    /\ settled = TRUE
    /\ req = [w \in Workers |-> Idle]
    /\ scan = NoScan

Handler(w) ==
    \/ StartSession(w) \/ StartRejected(w)
    \/ CheckStop(w) \/ StopSession(w) \/ StopNotFound(w)
    \/ CheckUpdate(w) \/ UpdateSession(w) \/ UpdateNotFound(w) \/ UpdateRejected(w)
    \/ CheckSplit(w) \/ SplitSession(w) \/ SplitRejected(w)
    \/ CheckDelete(w) \/ DeleteSession(w) \/ DeleteNotFound(w)
    \/ RecordAgentRuns(w)
    \/ CheckRecover(w) \/ RecoverStart(w) \/ RecoverStop(w) \/ RecoverStopped(w)
    \/ RecoverNotFound(w) \/ RecoverAttach(w) \/ RecoverReconcile(w)
    \/ Commit(w) \/ Abandon(w)

Scanner == (\E c \in Commits : UpsertCommit(c) \/ SessionCovering(c)) \/ AttachCommitToSession

Next == (\E w \in Workers : Handler(w)) \/ Scanner

Spec == Init /\ [][Next]_vars
-------------------------------------------------------------------------------
(* Properties.                                                             *)

DraftRow    == [by : Workers \cup {Nobody}, row : SessionRow]
DraftFiling == [by : Workers \cup {Nobody}, in : Places]

\* Every variable has its type: rows, filings, drafts, requests and the scan.
TypeOK ==
    /\ sessions \in [Sids -> SessionRow]
    /\ runIn \in [Runs -> Places]
    /\ commitIn \in [Commits -> Places]
    /\ draft \in [Sids -> DraftRow]
    /\ draftRun \in [Runs -> DraftFiling]
    /\ draftCommit \in [Commits -> DraftFiling]
    /\ lone \in Workers \cup {Nobody}
    /\ settled \in BOOLEAN
    /\ req \in [Workers -> Request]
    /\ scan \in [commit : Commits, sid : Sids] \cup {NoScan}

\* One timer at a time, whatever starts, stops, reopens and splits race: what
\* one_open_session_per_user is there for (StartSession, UpdateSession, SplitSession).
AtMostOneOpen == \A s, t \in Sids : IsOpen(sessions[s]) /\ IsOpen(sessions[t]) => s = t

\* The life of every session follows SessionLifecycle: taking over from a running
\* timer is one step, and no race of a delete with an edit brings a session back.
LifeOf(row) == CASE row.startedAt = Null -> "absent"
                 [] row.startedAt # Null /\ row.deleted -> "deleted"
                 [] IsOpen(row)          -> "running"
                 [] OTHER                -> "recorded"

Lifecycle == INSTANCE SessionLifecycle WITH life <- [s \in Sids |-> LifeOf(sessions[s])]

LifecycleSpec == Lifecycle!Spec

\* A deleted row is history: an edit, stop or split whose checks ran before the
\* delete does not touch it afterwards.
TombstonesFrozen ==
    [][\A s \in Sids : sessions[s].deleted => sessions'[s] = sessions[s]]_vars

\* StopSession: stopping an already-stopped session does not move its end, even when
\* both stops passed the check while the timer ran.
StopNeverMovesEnd ==
    [][\A w \in Workers, s \in Sids :
        /\ Commit(w)
        /\ req[w].op \in {"start", "stop", "recover", "recoverStop"}
        /\ IsRecorded(sessions[s])
        => sessions'[s] = sessions[s]]_vars

\* StartSession: a timer that takes over from a running one starts no earlier than
\* the end the running one was given, also when that end was nudged past its start.
ReplacementAbuts ==
    [][\A o, n \in Sids :
        /\ IsOpen(sessions[o]) /\ ~IsOpen(sessions'[o])
        /\ ~IsOpen(sessions[n]) /\ IsOpen(sessions'[n])
        => sessions'[o].endedAt <= sessions'[n].startedAt]_vars

\* reconcileAgentRuns: a run is filed only under a recorded session whose range covers
\* its start.  Two transactions open at once each reconcile without the other's writes, so
\* their commits may break this; nothing else does, and it holds again from the next
\* reconcile by a transaction that had no other open beside it.
FiledRunsCovered ==
    settled => \A r \in Runs : runIn[r] \in Sids => HoldsRun(sessions[runIn[r]], r)

\* A stop, an edit, a split, a report of runs or a recovered session whose transaction had
\* no other open beside it leaves no run a session covers unfiled, and no run filed where
\* it is not covered, whatever overlapping transactions left behind: releasing comes
\* before attaching, so a run can change session.
ReconcileComplete ==
    [][\A w \in Workers :
        Commit(w) /\ lone = w /\ req[w].op \in Reconciling
        => \A r \in Runs :
            /\ runIn'[r] \in Sids => HoldsRun(sessions'[runIn'[r]], r)
            /\ runIn'[r] = Unfiled => \A s \in Sids : ~HoldsRun(sessions'[s], r)]_vars

\* A filed commit leaves its session in two ways only: the session is deleted and the
\* commit is unmatched again, or it is cut and the commit follows the clock into the half
\* that begins at or before it.
CommitsFollowTheClock ==
    [][\A c \in Commits : LET s == commitIn[c]
                              n == commitIn'[c] IN
        s \in Sids /\ n # s =>
            \/ n = Unfiled /\ sessions'[s].deleted
            \/ /\ n \in Sids
               /\ sessions[n] = Absent
               /\ sessions'[n].startedAt = sessions'[s].endedAt
               /\ sessions'[n].startedAt <= CommittedAt[c]]_vars


(* What the repository says and the code does not do.                      *)

\* The comments on one_open_session_per_user and SessionCovering: recorded ranges do
\* not overlap, so that a commit falls in at most one session.
RangesDisjoint ==
    \A s, t \in Sids :
        s # t /\ IsRecorded(sessions[s]) /\ IsRecorded(sessions[t])
        => \/ sessions[s].endedAt <= sessions[t].startedAt
           \/ sessions[t].endedAt <= sessions[s].startedAt

\* DeleteSession: the evidence of a deleted session is unmatched again, never attached
\* to something invisible.
DeletedHoldsNothing ==
    /\ \A c \in Commits : commitIn[c] \in Sids => ~sessions[commitIn[c]].deleted
    /\ \A r \in Runs : runIn[r] \in Sids => ~sessions[runIn[r]].deleted

\* SessionFromCluster "records a session over a cluster's window".
RecoveredOverWindow ==
    [][\A w \in Workers :
        Commit(w) /\ req[w].op = "recoverStop"
        => /\ sessions'[req[w].sid].startedAt = req[w].at
           /\ sessions'[req[w].sid].endedAt = req[w].to]_vars

\* A split whose point was accepted answers with two halves, or with one of the errors the
\* route declares: not with a database error.
NoRawFailure == \A w \in Workers : req[w].phase # "failed"
=============================================================================
