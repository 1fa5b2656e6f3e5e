# Punchcard: models and proofs

Punchcard is a time tracker. A user starts and stops sessions; the server files the commits it
finds on GitHub, and the turns of coding agents it is told about, under the session that was
running at the time. This directory holds TLA+ modules of its core, the TLC runs that check them
on small instances, and proofs, checked by TLAPS, that hold for every instance. `PROJECT.json`
lists for each definition the lines of `src/` it models.

    tlc -workers 2 -config MCWorkSessionsRaces.cfg MCWorkSessions    # a run
    tlapm WorkSessionsProofs.tla                                     # the proofs of a module

## The system

The server (`src/cmd/punchcard`) is one Go process: HTTP handlers, a webhook dispatcher, a commit
scanner and a retention janitor, each in goroutines of their own. All their state is in Postgres
and they meet only there, at READ COMMITTED, so what can go wrong between them is decided by which
reads sit inside a transaction and which row locks and indexes stand in the way. The command line
program on the user's machine shares no memory with anything either: its processes meet in a
queue file.

| Component | State | Operations | Hard behaviour | What makes it correct |
|---|---|---|---|---|
| Timesheet (`service/sessions.go`, `sessions_edit.go`) | `work_sessions` | start (with or without stopping the running one), stop, edit, cut in two, delete | checks made before the transaction; two timers started at once; a delete under an edit; the nudged end of a session that is stopped before it began | one timer runs; deleted is deleted; a recorded end is moved by an edit only; a session that takes over starts where the other ended |
| Agent run filing (`service/agent_runs.go`) | `agent_runs.session_id` | record a batch, detach uncovered, attach covered | every boundary that moves must re-file | a run is filed exactly under a session that covers its start |
| Commit filing (`service/github_scan.go`, `unmatched.go`) | `commits`, `session_commits` | upsert, find the covering session, attach; recover a session from a cluster of commits | lookup and insert are separate statements; a recovery is four separately committed steps | a filed commit leaves its session only with the clock or with the session |
| Scan queue (`service/github_scan.go`, `scanner.go`, `github_link.go`) | `sync_state`, `sync_attempts`, `sync_next_at`, `github_connections` | claim due, scan, ok, retry, give up, park, re-queue the last week, rescan | outcomes written over newer requests; backoff; parking a whole account | every stopped session is scanned or given up with a reason |
| Run queue of the CLI (`cli/hook.go`, `autosync.go`) | `queue.jsonl` and claimed batches | append, claim, send, put back, recover orphans | several processes and kills between any two system calls; lost answers | no recorded turn is lost; it reaches the server and counts once |
| Outbox and webhooks (`events`, `webhooks`, `service/webhooks.go`) | `events.processed_at`, `webhooks`, `webhook_deliveries` | write with the change, fan out, claim, attempt, retry, disable, redeliver, purge | leases that expire under a slow batch; crashes; lost answers; webhooks that change under an attempt | an event reaches every subscribed endpoint or is given up after bounded attempts |
| Event feed (`http/sse_handler.go`, `db/queries/events.sql`) | `events.seq`, a cursor and a place in the hub per connection | connect, resume, poll behind a grace window, purge | number, time and visibility of an event are three orders; connections break | a reader sees events in order and none twice; what it misses has a reason |
| Idempotent requests (`http/idempotency.go`) | `idempotency_keys` | look up, run, store, expire | two requests with one key at once | one key executes once |
| Projects (`service/projects.go`) | `projects`, `project_repos` | create, update, archive, delete, link, unlink | checks before writes; the event of an archiving or deletion in a transaction of its own | a client that follows the events has the server's projects; no time on a deleted project but what came after its deletion had counted |
| Attribution and reports (`service/attribution.go`, `reports.go`, `unmatched.go`) | none stored | resolve a place to a project, apportion a session, group unmatched work, summarise, export | rounding, overlaps, reads of several statements under changes; projects deleted under what names them; names compared with case here and without there | all of the time is handed out, none twice; two reports differ for named reasons only |
| Accounts (`service/auth*.go`, `totp.go`, `native_code.go`) | users, sessions, tokens, letters, recovery codes; challenges and exchange codes in memory | sign up and in, second factor, tokens, reset, change of address or password, social identities, deletion | single use under concurrency; checks before transactions | what is good once is honoured once; a change of password ends sessions; an identity has one account |
| Everything else | | rate limit, backfill, CLI commands, the providers' protocols, email, web and menu bar clients | little that is concurrent | see `components` in `PROJECT.json` |

Components interact by calls (handler to service to store), by shared rows (everything reads
`work_sessions`), by the outbox (a change and its event commit together; the dispatcher and the
feed read them later) and by requests from the CLI queue (`POST /v1/agent-runs`).

## The modules

| Module | Models |
|---|---|
| `SessionLifecycle` | What the timesheet promises about a session's life: absent, running, recorded, deleted. |
| `WorkSessions` | Sessions of one user, filing of commits and runs, the handlers and the scanner. |
| `MCWorkSessions` | Instances of it for TLC. |
| `CliQueue` | The queue file, hooks, flushes and kills, one system call per action. |
| `MCCliQueue` | Instances of it for TLC. |
| `ScanQueue` | The queue of commit scans in the `sync_*` columns, the GitHub connections and the scanner's passes. |
| `MCScanQueue` | Instances of it for TLC. |
| `DeliveryPromise` | What the webhook pipeline promises, without dispatchers, leases or transactions. |
| `Deliveries` | Outbox, fan-out, claims, leases, attempts, disabling; clients and retention. Implements `DeliveryPromise`. |
| `EventFeed` | Sequence numbers, commits, the grace window, cursors and reconnections of the live feed. |
| `Accounts` | Accounts and every way into them. |
| `Projects` | Projects, links, sessions booked on them, their events, and the idempotency middleware around it all. |
| `Attribution` | The algorithms over evidence: resolving, apportioning, union, clusters. |
| `Reports` | The requests that run those algorithms while others change what they read. |
| `MCDeliveries`, `MCEventFeed`, `MCAccounts`, `MCProjects`, `MCReports` | Instances of them for TLC. |
| `WorkSessionsProofs`, `CliQueueProofs`, `ScanQueueProofs`, `DeliveriesProofs`, `EventFeedProofs`, `AccountsProofs`, `ProjectsProofs`, `ReportsProofs` | The theorems about each module and their proofs. |

### WorkSessions

Every query is scoped to one user, so the module has one user. A worker is a goroutine that serves
one request; `req[w]` is the request and how far it got. A request goes through

1. the checks on rows read before its transaction (`CheckStop`, `CheckUpdate`, `CheckSplit`,
   `CheckDelete`, `CheckRecover`), which keep what the handler keeps in local variables: of a
   cut, the end the session had;
2. the statements of its transaction (`Execute`), one action for all of them. They see the
   committed tables and their own writes. The rows they write are locked until the end: another
   transaction's `Execute` is not enabled while it needs one, which is the wait in Postgres.
   The writes live in `draft`, `draftRun` and `draftCommit`. Row locks are taken in the first
   statements and READ COMMITTED re-reads a row after waiting for it, so executing them
   at once loses no outcome but one: a start whose read found no timer and whose
   insert meets one that was committed between the two, which is `StartRejected`;
3. `Commit`, which publishes the drafts, or `Abandon`: a client gone, a lost connection, a
   stopped server.

`IndexAllows` and `IndexRejects` are the unique index `one_open_session_per_user`, which sees
uncommitted rows; `RangeOK` is the range CHECK. A rejected statement is answered as a database
error (`FailRaw`), except where the code maps it. `Reconciled` is the pair of UPDATEs of
`reconcileAgentRuns`; a run two sessions cover goes to either. The scanner's steps are
single statements outside any transaction. `SessionFromCluster` is a chain of actions, each
committed on its own. `lone` and `settled` are history: they say which transactions had another open beside them
and guide no step.

Time is a small integer and one tick is one microsecond, the step by which `GREATEST(at,
started_at + interval '1 microsecond')` nudges an end. `Now` bounds the start of a timer, `MaxTime`
any other instant of a request.

Definitions under a comment `Fault:` are used by nothing. Each is a plausible mistake in the
definition below it, and replacing that definition by it must break a property: `mutants` in
`PROJECT.json` says which.

### CliQueue

A file is an inode: a rename moves its name and a process that opened it before goes on writing to
it. `where` is the name, `lines` the content as a set of external ids (the server takes each once,
so order and repetition do not matter), `stale` whether the last write is older than `orphanAfter`.
A hook is `OpenQueue` then `AppendLine`. A flush (`sync[p]`) lists the claimed batches, puts the
stale ones back (`ReadOrphan`, `RemoveOrphan`, `Merge`, `Truncate`, `WriteLines`), claims the queue
by renaming it, reads it, sends it in batches and removes it; a failed batch goes back with all
that follow it. A send that fails may have reached the server. `Kill` ends a flush between any two
calls. A write that starts at the front of a file over lines appended after it was truncated keeps
some subset of them, never all.

`exposed` is a history variable: the turns that met one of four windows the code leaves open.
(1) The hook appends to a file that was claimed since it opened it. (2) A put-back has read the
queue and not yet written it: an append, or a claim of the truncated file, falls in between.
(3) Two put-backs overlap. (4) A flush is killed while it holds the only copy: an orphan it has
removed, or the text it is writing. `LossesExplained` says that these are all.

### ScanQueue

`row[s]` is what the queue knows of a session: whether it is running, ended or deleted, and its
`sync_*` columns (`next_at` is NULL, a deadline ahead, or a deadline that passed). Stops, boundary
edits, reopenings and rescans write it; so does the hourly `RequeueRecentSessions`. A pass of the
scanner is `Claim`, then for each user `OpenClient`, a fetch, `MarkScan` and one `Settle` per
claimed session (or one `Park` for the whole user), then `ClaimAccounts` and the same for each
account without the settling. The claim's row locks end with its statement, so every other action
may fall between any two of these, and `scan` keeps what the pass carries along from rows that may
have changed: who was claimed, with how many attempts (`seen`) and whose window held the commit
(`holds`). `Restart` drops the pass and keeps the rows.

Users are several here, since they share a pass. Of the commits there is one per session: GitHub
has it or not (`pushed`), the session's range holds it or not (`covered`), and a fetch whose window
it is in attaches it if the session covers it then. A fetch is one step with three outcomes: all,
a part and a failure that is retried, a part and one that parks the account. A cut is not an action
of its own: for the queue it is a boundary edit and a stop. `order` lists the users ever scanned by
`last_scan_at`; a failed scan does not move it.

### Deliveries and DeliveryPromise

A dispatcher's cycle is `ProcessOutbox` (the transaction claims events with SKIP LOCKED and lists the
account's active webhooks), `CommitOutbox` (the deliveries are created and the events marked; a
webhook deleted since the list breaks a foreign key and rolls everything back), `ProcessDeliveries`
(due deliveries are claimed and leased in one statement) and then, per delivery, `LoadAttempt`, `Send`,
`WriteResult` and one or two `CountResult`, each a statement or the request itself. `job[d]` holds the
goroutines, `Slots` the semaphore. Two dispatchers stand for the old and the new process of a
deployment. `Crash` forgets `cycle` and `job`; `LoseResult` is an UPDATE that failed and whose
error the code drops. An answer that is lost or late is a `Send` that was received and is not ok.

Of time there is what the queries test: `next_retry_at` has passed, or is a lease, a backoff or NULL
away. A lease may end under a dispatcher that still works on the delivery: a claim of four times
`maxConcurrency` runs in four waves of up to ten seconds, and the fourth starts when the thirty
seconds may be over. `doubled` remembers the deliveries this happened to. A backoff lasts a
minute and does not end under an attempt. The quota of webhooks is counted before the row is
inserted, so two requests can pass it together; the dispatcher lists no more webhooks than the
quota, and `crowded` remembers the events an active webhook was left out of. A webhook may be
disabled by an attempt that failed before its owner reactivated it: the counting statements are
apart, and the model has that.

`DeliveryPromise` has news, deliveries that are owed, done, dropped or forgotten, and who was told:
an event is fanned out once and all at once; done means told; settled is for good, unless the
delivery is `doubled`. `Promise` maps the tables onto it.

### EventFeed

A mutation is `Begin` (which fixes `created_at`), `InsertEvent` (which draws `seq`) and `End`; the
three orders are free of each other. `Poll` reads past the cursor what is older than the grace
window, up to a limit, writes what the stream's project filter lets through and moves the cursor past
all of it. `Disconnect` loses what is in `wire`; `Connect` resumes after the last event the client
got, by number or, from older clients, by id, which is ignored when the query for the event fails: because
the event is purged, or with the database. A stream that has no place to resume at starts at the head. The table
holds the events of every account: a stream reads those of its own (`Own`), but the head it may start from
is that of the whole table (`MaxEventSeq`). The
query for the head may fail too, and the code then starts at 0. Time is real here, since `created_at` and the
window are compared. `skipped`, `jumped` and `rewound` are history: what each cursor passed unread in polling or
in resuming at a known place; what it passed by starting at the head for want of one, which a client that
has read nothing yet, or whose id is not found, misses for good; and the streams
that started over at 0 because the event their client names was not found and the head unknown, which are
the ones `InOrder` leaves out.

### Accounts

A request is `req[r]`; each step of it is a statement, or a transaction that locks the row it decides
on. Sign-ins by password, by provider and by second factor, web or native, end in `issueSession`
or in the minting of a device token (`CountActiveTokens`, `ListTokens`, `PruneToken`,
`CreateAPIToken`), which makes room by revoking the oldest. `newEmailToken` is `DeleteUserEmailTokens` and
`CreateEmailToken`, two statements; a letter is looked up (`GetValidEmailToken`) outside the
transaction that consumes it. Enrolment checks, then writes (`SetupTOTP`/`SetTOTPSecret`,
`EnableTOTP`/`SetTOTPEnabled`). Challenges and exchange codes live in the process and go with
`Restart`. `Lapse` is the expiry of anything that expires.

Passwords, secrets and sets of recovery codes are numbers in the order they were made; whether a
password or a code is right is the requester's choice. Of a session, `proven` is the password
its account had when the sign-in proved whose it is (for a provider, when it found the account; for a second factor,
when the challenge was drawn), and `opened` the one it had when the row was written: between the two are statements,
and a change of password may fall there. `SessionsFollowPassword` then calls the session `Overtaken`, and allows it:
the change revokes the sessions there are, and this one is not there yet. `past` is history for the properties: what was spent how often, which
address was proven by whom, and the exceptions the statements leave, each named (`slipped`,
`overtaken`, `unlinked`, `excused` tokens). `Scenarios` bounds which operations meet: eleven groups that
compete for one piece of state, rather than every operation at once.

### Projects

Around a keyed POST the middleware is `GetIdempotencyKey`, the handler, the answer, and
`CreateIdempotencyKey` (ON CONFLICT DO NOTHING). Every handler but creation starts with
`authorizeProject` and writes later. `DeleteProject` counts the sessions, then archives or deletes,
then writes the event in `emit`, a transaction of its own with the row the first one returned; creation
and update write theirs in the same transaction. `Believed` is what a client that follows the
events believes.

Time comes to a project in three ways: `StartSession` (which recovering a window calls too),
`UpdateSession`, which moves a session to the project it authorised before, and `SplitSession`, whose
second half goes to the project that `GetSession` read with the session, without authorising it. A
session is *excused* when it came to its project after the deletion had counted: between
the count and the deletion (`seen` is what the count saw), or later still, on an authorisation or a
reading from before the deletion. Times are left to `WorkSessions`: here any session that is there may be
cut.

### Attribution and Reports

`Attribution` has no state. `Resolve` is the ladder of the resolver (a link to the repository, a
link to a place of that name, a project of that name; more than one is nobody). `Apportion` cuts a
session at the boundaries of its evidence, splits each segment evenly among the projects active in it,
gives the quiet rest to the declared project and rounds to seconds by largest remainder. The code's
sort is not stable there, but the only parts it can swap belong to one project, so no project's
total depends on it. The resolver compares the names of repositories without case; the table's unique
index and `ProjectsForRepo`, which suggests a project, compare them as they are spelled. So `Repos` are
spelled names and `Lower` gives what the resolver makes of one. `UnionMicros` and `Clusters` are folds that take the spans and the items in the
order of their starts, as the loops do over sorted slices; those that start together in any order.
A place whose name is empty is left out.

`Reports` runs them as requests do: a report reads the sessions, the projects, the links and then
each session's evidence, one statement each, and edits, links, renames, deletions and recoveries fall
between. The modes are the summary and the CSV export of evidence. `Scopes` are the projects a token
may be good for: both modes list the sessions of those only, the summary leaves out the lines of
others (`attribution.go:484`), the export does not (`reports.go:203`), and evidence may give a listed
session's time to any project. A deletion counts and marks in two steps, as in `Projects`, and
what is booked, moved, linked or recovered in between names a deleted project; worlds start with
such rows too. The resolver does not read deleted projects or their links (`LiveLinks`), the declared
totals read their sessions. Two reads list what no
session covers, `UnmatchedClusters` groups it, and `SessionFromCluster` records a session over a
cluster and learns a link, here in one step (`WorkSessions` has its four commits apart). Evidence is
filed under the session that covers its start, which is what `WorkSessions` keeps up. A window
offered for recovery can be refused: the lead-in before its first commit may reach into a
recorded session (409), or have no length, when a run took no time (422). A commit at the very instant a
session ends, which `SessionCovering` takes for covered, is left to `WorkSessions`. `Whole` is the unit in which the properties compare shares of a tick, a common
multiple of the numbers of projects that may share one; the code has no such thing.

## What the runs show

| Run | Shows | Instance |
|---|---|---|
| `session_races` | One timer, the life cycle, frozen tombstones, ends that stand, take-overs that abut; runs are filed where they are covered, and a reconcile with no transaction beside it repairs what overlapping ones left | 2 workers with 2 overlapping transactions, 2 sessions, 1 run, 3 instants, 4 edits, 2 windows (0.7 million states) |
| `session_filing` | Commits follow the clock | 2 workers with 2 overlapping transactions and the scanner, 2 sessions, 1 commit, 4 instants, 3 edits, 1 window (1.1 million states) |
| `ranges_overlap` | Recorded ranges can overlap (finding) | 2 workers, transactions one at a time (checks still race), otherwise as `session_filing` |
| `cli_queue` | Turns are lost in the named windows only | 2 turns, 2 flushes, batches of 1, 1 kill, 4 files |
| `cli_queue_live` | Every turn reaches the server | 1 turn, 2 flushes, 1 kill, 4 files |
| `scan_queue` | A commit pushed late is attached in the end, no session waits for ever, a scan revives no connection | 1 session, 1 user, 2 tokens, 1 step of backoff, 2 requests |
| `accounts_starved` | Accounts that fail can take every slot of the account scan (finding) | 2 users, no session, 1 slot per pass, one unreadable token |
| `deliveries` | Claims exclude each other, attempts are counted and bounded, no steady subscriber is forgotten, the promise is kept, everything is settled | 2 dispatchers, 1 event, 2 webhooks with a quota of 1, 2 attempts, 1 redelivery, 1 edit, crash or lost write (0.4 million states) |
| `feed` | Events arrive in order and once; what polling or a resume skips overlapped what was read; a stream that stays reads everything | 2 mutations, 2 streams (one filtered), 1 connection, window 1, transactions up to 2 long, 2 drops |
| `accounts` | Single use, sessions follow the password, addresses are proven, enrolment is confirmed, quotas, one account per identity | 3 accounts, 2 addresses, 2 identities, 2 requests at a time, eleven scenarios, 1 fault, 1 lapse (1.1 million states) |
| `projects` | Events mirror the projects, no session is stranded, a key runs once | 3 projects, 2 names, 1 repository, 1 key, 3 requests, five scenarios, 1 fault, 1 purge (0.4 million states) |
| `reports` | Shares are exact, reports add up and differ for named reasons only, clusters are stretches, suggestions hold, a link settles what it names and nothing else | 3 projects (one deleted, or counted for deletion, in half of the settings), a token for all or for one, 4 repositories, two of them one but for case, and a directory; 40 worlds of sessions, links and evidence, 1 change (0.6 million states) |

Why the bounds are enough to be interesting: two sessions are the least that can overlap, replace
each other or be the halves of a cut; three instants let a session begin before, at and after
another, four let a cut leave a commit in either half. Two workers give every pairing of handlers
with a step of one between any two of the other. Overlapping transactions really do
misfile runs: a reconcile in one does not see the boundary another is moving, and both commit. So
`FiledRunsCovered` and `ReconcileComplete` are about transactions that had no other open beside them,
which two history variables keep: `lone`, the worker whose transaction is such a one, and `settled`, that
no other kind has committed since the last reconcile by one. A run misfiled by an overlap and filed rightly by the
next lone reconcile is among the states of `session_races`.
In `cli_queue`, a fifth file adds about one percent of states and changes nothing. In `scan_queue`
one session meets all that can happen to it between claim and outcome; the claim's limit matters
for accounts, where one slot and two users stand for ten slots and eleven users.

In `deliveries` one event is enough because nothing but the batch joins events; two webhooks
with a quota of one show the race for the quota; two attempts give a first failure, a retry and a
dead letter, and a threshold of two is reached by them. With one request or fault, every pairing of
one disturbance with every step of two dispatchers is covered, two disturbances are not. In `feed`,
two mutations are the least that can overlap, and a transaction may outlast the window by one. Both are
the account's; that events of other accounts lie between them is left to the proofs, where `Own` is any
part of the transactions. The
scenarios of `accounts` and `projects` are chosen by the state the operations share; operations of
different groups touch different rows. In `reports` the worlds combine a commit or a run of
each place with each kind of neighbour, so that segments have one, two or three active projects,
remainders tie, items overlap and silences fall just inside and just past the gap; sessions lie on a
deleted project and evidence names one the token is not good for, so that both causes of a missing line
occur; and two projects hold one repository under two spellings. A change falls at every
point of a request.

`WorkSessions` has no liveness property: every step in it is asked for by a client, and nothing
promises that a client finishes. `CliQueue` has one. Its fairness: a flush keeps being started (the
hook spawns one at most two minutes after a turn, commands do it on the side), a started flush or
append runs on, ten minutes pass over an orphan; a batch that is offered for ever is taken at some
time (strong fairness of `SendBatch`), and a flush that renames the queue for ever reads it at some
time before another takes the file for an orphan. Without the last, two flushes on a queue nobody
appends to can hand one stale file to each other for ever, winning the same race each time.
Strong fairness of `SendBatch` excludes a turn the server refuses on its merits; see `hazards`.

`ScanQueue` assumes that the scanner's ticker keeps starting passes and a pass runs on (weak
fairness of `Pass`: one goroutine, every call with a timeout), that time passes over deadlines and
scan times, and that an account's own scan succeeds at some time if it is tried for ever with a
good token (strong fairness of `FetchAll` in mode "accounts"). Scans for sessions may fail for ever
and the hourly re-queueing may never come: `Settled` and `FoundInTheEnd` do not need them. What
`FoundInTheEnd` rests on is the account scan: a session parked as 'skipped' is not re-queued by
anything but a client. `AccountsScanned` fails for more than one account although time, passes and
fetches are fair, which is why `FoundInTheEnd` is checked for one account: with ten broken
connections beside it, it falls with `AccountsScanned`.

`Deliveries` assumes that each dispatcher keeps taking steps (a loop with a timeout on every request
it makes; an attempt always returns) and that time passes over leases and backoffs. Nothing is
assumed of endpoints, clients or retention. Crashes and lost writes are bounded by `MaxFaults`, which
is what lets the queue drain between them. `EventFeed` assumes that transactions end (the server cancels
them), that the clock runs, that the handler of an open stream polls (its ticker; a failed poll is
repeated) and that its client reads. The last is asked of the client, not of the code: the handler
clears the write deadline, so it waits for a client that keeps the connection and reads nothing.
Nothing promises that anybody connects.

`Accounts`, `Projects` and `Reports` are requests, and nothing promises that a client makes one; they
have safety properties only, and stop when the scenario is used up, so their runs and those
of `deliveries` and `feed` do not check for deadlock.

`PromiseKept` is a refinement: `Deliveries` implements `DeliveryPromise`, as `WorkSessions` implements
`SessionLifecycle` (`LifecycleSpec`).

## Where the repository says otherwise

Two disagreements are runs of their own: `ranges_overlap` and `accounts_starved`. The others are
definitions that no run checks because the code does not keep them. Each is refuted by TLC within
seconds when it is given as the only INVARIANT (or PROPERTY) of the configuration named, with
CHECK_DEADLOCK FALSE:

| Definition | What is said | What happens | To see it |
|---|---|---|---|
| `DeletedHoldsNothing` | a deleted session's evidence is unmatched again, "never attached to something invisible" | the scanner looks up the covering session and inserts later; a delete in between leaves the commit on a tombstone | INVARIANT in `MCWorkSessionsFiling.cfg` |
| `NoRawFailure` | a cut answers with two halves or a declared error | the second half is born running and then closed, so while any timer runs a cut of a recorded session meets the unique index, and the answer is a database error | INVARIANT in `MCWorkSessionsFiling.cfg` with `Workers = {w1}` (with two, a start that loses the race for the index comes first) |
| `RecoveredOverWindow` | `SessionFromCluster` "records a session over a cluster's window" | the start takes over a running timer and moves behind the end that one is given; or another request edits or stops the session before the recovery does | PROPERTY in `MCWorkSessionsFiling.cfg` |
| `AppendsKept` | "there is no window where an append can be lost" | a hook that opened the queue before it was claimed and read appends to a file nobody will read again | INVARIANT in `MCCliQueue.cfg` |
| `RequestsHonoured` | a rescan "puts one session back in the queue" | a scan under way writes its outcome over the newer request | INVARIANT in `MCScanQueue.cfg` |
| `NothingSkipped` | "excluding very fresh rows keeps a forward-only cursor from skipping them permanently" | `created_at` is when the transaction began: one that outlasts the window, or began first and inserted second, is passed over | INVARIANT in `MCEventFeed.cfg` |
| `DeviceTokensUncounted` | device tokens are "not counted against the per-user PAT quota" (`auth.go:205`) | the count is of all active tokens, so a device token takes a personal token's place | INVARIANT in `MCAccounts.cfg` |

Smaller ones, which the properties' comments name: the summary by evidence rounds per session, the
declared summary per project and the declared CSV truncates, so "the same totals" (`attribution.go:449`)
holds up to half a second per session and project, and only for a token good for all projects and without
time on deleted ones, which the declared summary counts and the other has no line for (`TotalsAgree`
gives the bound and the causes); a repository linked to two projects under two spellings gets a suggestion
for a cluster of it (`unmatched.go:201`) while the resolver gives its time to neither (`SuggestionsHold`);
the summary by day
files a clipped session under the day of its unclipped start.

## What is proved

Each theorem below holds for every value of the constants, so for any number of sessions, users,
webhooks, transactions, requests, processes and faults, from the `...Assumption` of its module alone.
Those say that the constants have their types, that special values (`NoSid`, `None`, `Nobody`) are
none of the ordinary ones, and that limits are not zero. Two have content. By `EventFeedAssumption`
events are kept longer than two transactions and the grace window last (30 days against
seconds). By `AttributionAssumption` and `ReportsAssumption` an account has finitely many projects and
sessions, and the worlds a run may start from are what the tables can hold: a session ends after it
starts (`work_sessions_range`), its project and those of links may be deleted, an agent's turn does not end
before it starts, and the ranges asked for are not empty (`defaultRange` refuses the others); names that
are one but for case have one last segment but for case. Nothing is assumed about scheduling:
the theorems are about `Spec`, without its fairness. Every invariant and every action property
checked by a passing run is among them, and so are the two refinements.

| Module | Theorem | Statement |
|---|---|---|
| `WorkSessionsProofs` | `TypeCorrect` | `Spec => [](TypeOK /\ RequestsNamed)` |
| | `NeverTwoTimers` | `Spec => []AtMostOneOpen` |
| | `DeletedForGood` | `Spec => TombstonesFrozen` |
| | `EndsStand` | `Spec => StopNeverMovesEnd` |
| | `TimersAbut` | `Spec => ReplacementAbuts` |
| | `FollowsLifecycle` | `Spec => LifecycleSpec` (refinement) |
| | `CommitsKept` | `Spec => CommitsFollowTheClock` |
| | `RunsCovered` | `Spec => []FiledRunsCovered` |
| | `NoneLeftUnfiled` | `Spec => ReconcileComplete` |
| `CliQueueProofs` | `TypeCorrect` | `Spec => []TypeOK` |
| | `LossesNamed` | `Spec => []LossesExplained` |
| `ScanQueueProofs` | `TypeCorrect` | `Spec => []TypeOK` |
| | `GivenUpForCause` | `Spec => []GivenUpTried` |
| `DeliveriesProofs` | `TypeCorrect` | `Spec => [](TypeOK /\ AttemptsLeft)` |
| | `ExclusiveClaims` | `Spec => []OneSender` |
| | `RequestsCounted` | `Spec => []AttemptsCounted` |
| | `SubscribersServed` | `Spec => []NoneForgotten` |
| | `KeepsPromise` | `Spec => PromiseKept` (refinement) |
| | `SuccessWasReceived` | `Spec => []Promise!DoneWereTold` |
| | `OutcomesStand` | `Spec => Promise!SettledForGood` |
| `EventFeedProofs` | `TypeCorrect` | `Spec => []TypeOK` |
| | `EventsInOrder` | `Spec => []InOrder` |
| | `SkipsAreExplained` | `Spec => []SkipsExplained` |
| `AccountsProofs` | `TypeCorrect` | `Spec => []TypeOK` |
| | `UsedOnce` | `Spec => []SpentOnce` |
| | `PasswordsEndSessions` | `Spec => []SessionsFollowPassword` |
| | `AddressesVouched` | `Spec => []VerifiedByOwner` |
| | `SecretsWereConfirmed` | `Spec => []EnrolmentConfirmed` |
| | `OneHome` | `Spec => []SameAccount` |
| | `QuotaKept` | `Spec => []TokensBounded` |
| `ProjectsProofs` | `TypeCorrect` | `Spec => []TypeOK` |
| | `NobodyStranded` | `Spec => []NoSessionStranded` |
| | `KeysRunOnce` | `Spec => []RunsOnce` |
| | `EventsMirror` | `Spec => []MirrorTrue` |
| `ReportsProofs` | `NewLinksSettle` | `Spec => LinksSettle` |
| | `SuggestionsAgree` | `Spec => [](unmatched.pc = "answered" => SuggestionsHold)` |
| | `ClustersHold` | `Spec => []ClustersAreStretches` |
| | `ReportsAddUp` | `Spec => []TotalsAgree` |
| | `SharesHold` | `Spec => []SharesExact` |

The proofs share a plan. A lemma per writing action says once what the action leaves in the rows
(`ExecuteEffect`, `GotoEffect`, `TouchOrder`, ...); a frame lemma says which changes cannot disturb an
invariant (`SkipFrame`, `MovingFrame`, `SameOrder`, ...); the step lemma of the invariant then has one case per
action of `Next`; and the theorem puts initial states, steps and consequence together. Few of the
properties are inductive, and what has to be added says why the code is right:

**WorkSessions.** `AtMostOneOpen` is not inductive: an open row in a draft becomes visible by a commit that checks
nothing. `TimerInv` adds `Locks` (a locked row belongs to a worker whose transaction is
executing, so each row has one writer) and `OneTimer`: at most one committed row is open; two open
drafts are the same row; and an open draft beside an open committed row of another session means
that the transaction of the draft has locked that row as well, so that committing it closes the
one as it opens the other. The unique index gives it at `Execute`, the row locks keep it
until `Commit`. The action properties need to know what a draft may hold when it is published;
`ShapeInv` adds `Shapes`: for each operation, how the drafts of its transaction differ from the
committed rows, which is stable because a locked row is not written by anybody else.
`FollowsLifecycle` maps each commit to the life-cycle step of its operation (`LifeOf` is the mapping) and
everything else to a stutter. `CommitsKept` rests on `ClockInv`: a commit held by a transaction
lies in a session that the transaction deletes or cuts, and moves to nowhere but the half after the cut. For
the runs, what a commit publishes was filed before it, so `LoneInv` says of the view of the `lone`
transaction (`RowsOf`, `RunsOf`: the tables under its drafts) what the properties say of the tables
once it commits. The tables do not move under that transaction, because no other is open; one that
has an other beside it is promised nothing, and its commit takes `settled` back.

**CliQueue.** `HandsInv` says which file each process has in hand: a claimed batch is not the queue, and a file
that is opened for writing is in nobody's list. `RewriteInv` is about the put-backs, which replace the
queue by a text they hold: two at once hold exposed lines only (`TextsShared`), the queue has
nothing that is not in that text or exposed (`QueueHeld`), nor has the file that was truncated (`FileHeld`). With
these, `SafeInv` is inductive: every appended turn is on the server, in the queue, in a claimed batch
that its holder or a later flush will send, in the hands of a flush, or exposed.

**ScanQueue.** `OrderInv` is the part of `TypeOK` that could be wrong: `order` holds connected accounts,
each once, and all that are fresh, although a scan's end writes it for an account that may have
been disconnected since (`Touch` finds no row then). `WithoutFacts` is about the sequence, `PassInv`
about what a pass carries. `GivenUpTried` needs to know what a pass counts by, attempts it read when it
claimed: `CauseInv` says that they are those of the row, and the entry still pending, unless the
session was asked for again since. No run has `GivenUpTried`; it holds in the instance of `scan_queue` too.

**Deliveries.** `TypeInv` has `AttemptsLeft` with the types: what may be attempted has an attempt left. `OutboxInv`
says that an event is in one transaction, which fans out that event only. `LeaseInv` says that what a
dispatcher works on is not due, for it is leased or has a result, unless its lease ran out; that makes
`OneSender` inductive. `CountInv` says that until its result is written an attempt knows its delivery
as the row has it; then a request is counted unless a crash or a lost write took the count. `FanOutInv`
says that a steady webhook is in the list of the transaction that holds the event. `KeepsPromise`
maps each of the dispatcher's steps to a step of `DeliveryPromise` or a stutter, from those. What the promise
implies by itself then holds of the pipeline: `SuccessWasReceived` and `OutcomesStand` are proved of
`DeliveryPromise` in a few lines and say nothing of leases, crashes or slots.

**EventFeed.** `NumbersInv`: numbers are drawn one after the other and never given back. `TimesInv` bounds how far the
order of numbers may be from that of the times: the transaction of a smaller number began before that
of a greater one had drawn its own. `OrderInv` places each cursor: what a stream has still to read has a greater
number than all its client was sent, and all it was sent is older than the window. A client whose last event
is not found resumes at the head of the table. If the event is still there (the query failed), the head is not before it; if
it was purged, what lies beyond the head is too recent to have a smaller number than an event old enough to be purged, which
is where retention being long is used. `SkipInv` keeps, for a passed event, the one that overtook it; `SkipConnect` is
that resuming at a known place passes nothing.

**Accounts.** `TypeInv` includes what a request holds between its statements (each sort of request has the
row it names) and the unique indexes. `OnceInv`: what was spent is spent once and is not in a stash to be
spent again. `SessionsInv`: a live session was opened under the present password of a live account, and proven under
none later; its first part, `SawInv`, says the last of what sign-ins under way and challenges saw. `AddressInv`:
a letter still good goes to a live account, and to its address unless the address changed. `EnrolInv`: codes exist
with two-factor on only. `HomesInv`: the first account of an identity keeps it while it lives. `QuotaInv`: a request
that is about to create a token has room for it or is excused.

**Projects.** `StrandInv` adds that a deletion goes ahead only when it has counted no session: whatever it
strands came to the project later. `SessionEffects` says of every request about sessions that a session stays on
its project, or has come to it and is excused if that is gone.
`KeysInv` says what a key's row, its requests in flight and the number of executions have to do with each
other. `MirrorTrue` is inductive on well-typed states.

**Reports.** `LinksSettle` follows from the ladder, spelled out rung by rung in `Rungs`: a link adds one
project to the first rung of one repository, in all its spellings, and to the second of the places of its
name, unless its project is deleted: then the resolver does not read it (`ReadOfOneMore`). `SuggestInv`
says that until something changes the answer holds what the links say, and a link as spelled stands on the
resolver's first rung, alone or beside one that differs in case (`SuggestHolds`).

The other three are about folds and sums over finite sets, which the library's theorems reach only
through an operator parameter. The proofs go round it: `SetInduction` is induction over the subsets of a
finite set for a family of sets, not for a formula; a fold is a function on those subsets (`FoldExists`), a sum is
(`SumExists`), and each fact about them is the set of subsets it holds of. `SumSwap` exchanges two sums.

`ClustersHold`: with the items taken in the order of their starts, what has been built is `Sound`, the items so
far cut into stretches of which only the last is open, and one item more leaves it so (`ClustersSound`);
`ClusterInv` says that an answer holds the clusters of what it read, whatever changed since.
`ReportsAddUp`: `SecondsOf` and `ApportionAddsUp` say that one session's parts, rounded by largest remainder,
add up to its rounded length. `WorldInv` keeps the rows well-formed under every change and `ReportInv` says
what a report under way holds: shares of sessions it listed (`ShapeOk`), each as `Apportion` makes them
(`SharesOk`), and, as long as `quiet`, made of what the tables still hold (`QuietInv`). `SumSwap` turns lines
into columns, and half a second per rounding is the bound. `WhyUnshown`: a part with evidence belongs to a
project the resolver knew, one without to a project the token is good for (`AllocProjects`), so in an undisturbed report
only the other reason is left for either. `SharesHold` compares two ways to count: segments
with an even split each, and ticks. `TicksBySegments` says that a sum over ticks is one over segments if a
segment is busy with the same projects throughout, which `ActiveAt` says, and `EvenSplit` that splitting one
evenly is off by less than a tick; and since every busy segment begins at a boundary of a span, there are at
most two per span to round, which is where the slack in the property comes from. `UnionCounts` says that the
fold of `UnionMicros` counts the ticks of the union.

Only model-checked, because it is out of the provers' reach: liveness under fairness. These are `Delivered`
(`CliQueue`), `FoundInTheEnd` and `Settled` (`ScanQueue`), `EventuallySettled` (`Deliveries`) and
`EventuallyRead` (`EventFeed`).

## What is left out

In `WorkSessions`: notes, projects and the events a change writes (they commit with it); the request
decoding, scopes and lengths that are checked before anything is read. `CheckRecover` takes windows
from a fixed set; `Reports` has the grouping. Repeatable listings have no state. In `CliQueue`: the
markers a turn's start leaves, the two-minute throttle, unreadable lines (dropped when read), errors of
the disk. In `ScanQueue`: which repositories and branches a fetch looks at (at most 25, `pushed_at`, the
branch cache, extra author addresses), the event a scan emits, database errors of the scanner, which
leave a row as it was, and commits of sessions that were not claimed but lie inside the window of two
that were. In `Deliveries`: secrets, signatures, the check of an endpoint's address and bodies; an
unreadable secret or a refused address is a failed attempt. In `EventFeed`: heartbeats and polls
that fail. In `Accounts`: profile, time zone, avatar, the sliding of a session's expiry, the queue of
the mailer (a letter is written when its token is) and the stream of the data export. In `Projects`:
colours, rates, codes, working directories and the branches of a linked repository. In `Reports`: the
totals by day, money, and the declared rows, which are arithmetic on one row each; suggested notes.

Not modelled at all: the rate limiter (arithmetic on one bucket under one mutex), the backfill of old
transcripts and the CLI's other commands (requests and printing; their server side is
`RecordAgentRuns`), decoding, status mapping and headers of the HTTP layer, the protocols and
cryptography of sign-in providers (what a proven identity does is in `Accounts`), email, audit,
configuration and observability (formatting, logging, parsing), the web client and the Mac's menu bar
app. Of the last only the shared queue file would matter; it replaces the queue by an atomic rename
where the CLI truncates it. The retention janitor is the purge actions of the modules whose rows it
deletes.

## Plan

The invariants, the action properties and the refinements that the runs check are proved. What is left:

1. `ScanQueue`: the safety steps under `FoundInTheEnd`: a claim that ends in "ok" has had a fetch after it.
2. The windows that `hazards` lists without a property: a turn the server refuses, which blocks a
   batch for good, and a 403 of one repository, which parks an account.
3. What is not modelled for its size: the limiter, as arithmetic on one bucket, and the backfill.
