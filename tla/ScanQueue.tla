-------------------------------- MODULE ScanQueue --------------------------------
(***************************************************************************)
(* When GitHub is asked for commits: the sync_* columns of work_sessions,  *)
(* the connections of the users and the scanner goroutine that drains both.*)
(*                                                                         *)
(* Every ended session is a queue entry.  A pass claims the due ones, asks *)
(* GitHub once per user for the window they span, and writes each entry's  *)
(* outcome; then it asks for the last week of the accounts scanned longest *)
(* ago.  Claims change nothing, so a pass that dies loses nothing, but     *)
(* what it writes at its end rests on rows it read at its start.           *)
(*                                                                         *)
(* Of the commits, one per session matters: `covered' says whether the     *)
(* session's range holds it, `pushed' whether GitHub has it, `attached'    *)
(* whether it is attached to the session.  Of time, whether a backoff has  *)
(* passed (next_at), whether a session is inside RescanWindow (recent) and *)
(* whether an account was scanned within the hour (fresh).                 *)
(***************************************************************************)
EXTENDS Integers, Sequences, FiniteSets

CONSTANTS
    Sids,           \* sessions
    Users,
    Owner,          \* [Sids -> Users]
    Tokens,         \* GitHub tokens users may connect with
    Unreadable,     \* tokens sealed with a key the deployment no longer has
    Steps,          \* len(backoff)
    ScanBatch,      \* scanBatch: sessions one pass claims
    ConnectionBatch,\* connectionBatch: accounts one pass scans
    MaxRequests,    \* bound: requests of clients
    NoToken,        \* no connection
    Nobody          \* not a user

ASSUME ScanQueueAssumption ==
    /\ Owner \in [Sids -> Users]
    /\ Steps \in Nat \ {0} /\ MaxRequests \in Nat
    /\ ScanBatch \in Nat \ {0} /\ ConnectionBatch \in Nat \ {0}
    /\ NoToken \notin Tokens /\ Unreadable \subseteq Tokens
    /\ Nobody \notin Users

VARIABLES
    row,            \* the queue entry of each session
    covered,        \* sessions whose range holds their commit
    recent,         \* sessions that ended within RescanWindow
    pushed, attached, \* sessions whose commit is on GitHub, and attached to them
    token,          \* the token of each user's connection
    rejected,       \* tokens GitHub does not take (any more)
    order,          \* the users ever scanned, by last_scan_at
    fresh,          \* users scanned within connectionScanEvery
    scan,           \* the scanner's pass
    asked,          \* history: sessions asked to be scanned since a pass last claimed them
    requests        \* number of requests of clients so far

clock  == <<recent, fresh>>
github == <<pushed, rejected>>
vars   == <<row, covered, recent, pushed, attached, token, rejected, order, fresh, scan, asked, requests>>

-------------------------------------------------------------------------------
Entry == [phase : {"running", "ended", "deleted"}, sync : {"pending", "ok", "error", "skipped"},
          attempts : 0 .. Steps + 1, next_at : {"null", "later", "passed"}]

Born  == [phase |-> "running", sync |-> "pending", attempts |-> 0, next_at |-> "null"]

\* MarkSessionSyncPending, and what a stop writes.
Marked(e) == [e EXCEPT !.sync = "pending", !.attempts = 0, !.next_at = "null"]

\* sync_attempts + 1.  Past the last step its value makes no difference.
OneMore(n) == IF n > Steps THEN n ELSE n + 1

NoScan == [pc |-> "idle", mode |-> "sessions", claimed |-> {}, seen |-> [s \in Sids |-> 0],
           holds |-> {}, todo |-> {}, user |-> Nobody, token |-> NoToken, result |-> "none"]

Request ==
    /\ requests < MaxRequests
    /\ requests' = requests + 1

-------------------------------------------------------------------------------
(* Clients.                                                                *)

StopSession(s) ==
    /\ row[s].phase = "running"
    /\ row' = [row EXCEPT ![s] = [Marked(@) EXCEPT !.phase = "ended"]]
    /\ asked' = asked \cup {s}
    /\ UNCHANGED <<covered, clock, github, attached, token, order, scan, requests>>

\* UpdateSession of a boundary, which may take in the commit or leave it out.
UpdateSession(s) ==
    /\ row[s].phase = "ended"
    /\ Request
    /\ row' = [row EXCEPT ![s] = Marked(@)]
    /\ covered' \in {covered \cup {s}, covered \ {s}}
    /\ asked' = asked \cup {s}
    /\ UNCHANGED <<clock, github, attached, token, order, scan>>

\* UpdateSession that clears ended_at.
Reopen(s) ==
    /\ row[s].phase = "ended"
    /\ Request
    /\ row' = [row EXCEPT ![s] = [Marked(@) EXCEPT !.phase = "running"]]
    /\ UNCHANGED <<covered, clock, github, attached, token, order, scan, asked>>

RescanSession(s) ==
    /\ row[s].phase = "ended"
    /\ Request
    /\ row' = [row EXCEPT ![s] = Marked(@)]
    /\ asked' = asked \cup {s}
    /\ UNCHANGED <<covered, clock, github, attached, token, order, scan>>

DeleteSession(s) ==
    /\ row[s].phase # "deleted"
    /\ Request
    /\ row' = [row EXCEPT ![s].phase = "deleted"]
    /\ attached' = attached \ {s}
    /\ UNCHANGED <<covered, clock, github, token, order, scan, asked>>

\* The accounts by last_scan_at without u, who is among them once at most.
Without(u) ==
    IF \E i \in DOMAIN order : order[i] = u
    THEN LET n == CHOOSE i \in DOMAIN order : order[i] = u
         IN  SubSeq(order, 1, n - 1) \o SubSeq(order, n + 1, Len(order))
    ELSE order

\* A new token for an old connection keeps its last_scan_at.
ConnectGitHub(u) ==
    /\ Request
    /\ \E k \in Tokens \ (Unreadable \cup {token[u]}) : token' = [token EXCEPT ![u] = k]
    /\ UNCHANGED <<row, covered, clock, github, attached, order, scan, asked>>

DisconnectGitHub(u) ==
    /\ token[u] # NoToken
    /\ Request
    /\ token' = [token EXCEPT ![u] = NoToken]
    /\ order' = Without(u)
    /\ fresh' = fresh \ {u}
    /\ UNCHANGED <<row, covered, recent, github, attached, scan, asked>>

-------------------------------------------------------------------------------
(* GitHub and the clock.                                                   *)

Push(s) ==
    /\ s \notin pushed
    /\ pushed' = pushed \cup {s}
    /\ UNCHANGED <<row, covered, clock, attached, token, rejected, order, scan, asked, requests>>

Revoke(k) ==
    /\ k \notin rejected
    /\ rejected' = rejected \cup {k}
    /\ UNCHANGED <<row, covered, clock, pushed, attached, token, order, scan, asked, requests>>

BackoffPasses(s) ==
    /\ row[s].next_at = "later"
    /\ row' = [row EXCEPT ![s].next_at = "passed"]
    /\ UNCHANGED <<covered, clock, github, attached, token, order, scan, asked, requests>>

WeekPasses(s) ==
    /\ s \in recent
    /\ recent' = recent \ {s}
    /\ UNCHANGED <<row, covered, fresh, github, attached, token, order, scan, asked, requests>>

HourPasses(u) ==
    /\ u \in fresh
    /\ fresh' = fresh \ {u}
    /\ UNCHANGED <<row, covered, recent, github, attached, token, order, scan, asked, requests>>

-------------------------------------------------------------------------------
(* The scanner.                                                            *)

At(pc) == scan.pc = pc

\* RequeueRecentSessions: not what waits for its backoff, not what is parked.
Requeued == {s \in recent : row[s].phase = "ended" /\ row[s].sync \in {"ok", "error"}}

RequeueRecentSessions ==
    /\ At("idle")
    /\ Requeued # {}
    /\ row' = [s \in Sids |-> IF s \in Requeued
                              THEN [row[s] EXCEPT !.sync = "pending", !.next_at = "null"] ELSE row[s]]
    /\ UNCHANGED <<covered, clock, github, attached, token, order, scan, asked, requests>>

Due == {s \in Sids : row[s].phase = "ended" /\ row[s].sync = "pending" /\ row[s].next_at # "later"}

\* ClaimPendingSyncSessions, NULLS FIRST: the locks of FOR UPDATE end with the statement.
Claim ==
    /\ At("idle")
    /\ \E c \in SUBSET Due :
        /\ Cardinality(c) <= ScanBatch
        /\ c # Due => Cardinality(c) = ScanBatch
        /\ \A s \in c, d \in Due \ c : row[d].next_at = "null" => row[s].next_at = "null"
        /\ scan' = [NoScan EXCEPT !.pc = "next", !.claimed = c, !.holds = c \cap covered,
                                  !.seen = [s \in Sids |-> IF s \in c THEN row[s].attempts ELSE 0],
                                  !.todo = {Owner[s] : s \in c}]
        /\ asked' = asked \ c
    /\ UNCHANGED <<row, covered, clock, github, attached, token, order, requests>>

\* githubClientFor: with no connection, or a token that does not decrypt, there is nothing
\* to do, and nothing failed.
OpenClient ==
    /\ At("next")
    /\ \E u \in scan.todo :
        scan' = [scan EXCEPT !.todo = @ \ {u}, !.user = u, !.token = token[u],
                    !.pc = IF token[u] \in Tokens \ Unreadable THEN "fetch"
                           ELSE IF scan.mode = "sessions" THEN "settle" ELSE "next",
                    !.result = "ok"]
    /\ UNCHANGED <<row, covered, clock, github, attached, token, order, asked, requests>>

\* The commits of the user inside the window: those of the claimed sessions' ranges, or of
\* the last week.
InWindow == {s \in pushed : /\ Owner[s] = scan.user
                            /\ IF scan.mode = "sessions" THEN s \in scan.holds ELSE s \in recent}

\* SessionCovering: a commit is attached to the session whose range has it by now.
Covering(commits) == {s \in commits \cap covered : row[s].phase = "ended"}

FetchAll ==
    /\ At("fetch")
    /\ scan.token \notin rejected
    /\ attached' = attached \cup Covering(InWindow)
    /\ scan' = [scan EXCEPT !.pc = "mark", !.result = "ok"]
    /\ UNCHANGED <<row, covered, clock, github, token, order, asked, requests>>

\* A repository fails after others were stored.  classifyGitHubError takes a 403 of one
\* repository for a rejected token.
FetchFails ==
    /\ At("fetch")
    /\ \E part \in SUBSET Covering(InWindow), result \in {"transient", "permanent"} :
        /\ scan.token \in rejected => part = {} /\ result = "permanent"
        /\ attached' = attached \cup part
        /\ scan' = [scan EXCEPT !.pc = "mark", !.result = result]
    /\ UNCHANGED <<row, covered, clock, github, token, order, asked, requests>>

\* Fault: the scan time is written with an upsert, which brings back a connection deleted
\* during the scan.
TouchUpserting(u) ==
    /\ order' = Append(Without(u), u)
    /\ fresh' = fresh \cup {u}

\* TouchGitHubScan; an error is noted on the connection without touching last_scan_at.
Touch(u) ==
    IF token[u] = NoToken THEN UNCHANGED <<order, fresh>>
    ELSE /\ order' = Append(Without(u), u)
         /\ fresh' = fresh \cup {u}

MarkScan ==
    /\ At("mark")
    /\ IF scan.result = "ok" THEN Touch(scan.user) ELSE UNCHANGED <<order, fresh>>
    /\ scan' = [scan EXCEPT !.pc = IF scan.mode = "sessions" THEN "settle" ELSE "next"]
    /\ UNCHANGED <<row, covered, recent, github, attached, token, asked, requests>>

(* recordScanOutcome, on the rows as they are now, by what was claimed.    *)
Mine == {s \in scan.claimed : Owner[s] = scan.user}

SetSessionSyncOK(s) == [row EXCEPT ![s].sync = "ok", ![s].attempts = 0, ![s].next_at = "null"]

\* Fault: a retry does not count the attempt, so no attempt is the last.
SetFailureUncounted(s) ==
    [row EXCEPT ![s].sync = IF scan.seen[s] >= Steps THEN "error" ELSE "pending",
                ![s].next_at = IF scan.seen[s] >= Steps THEN "null" ELSE "later"]

\* SetSessionSyncRetry while there is a step left, SetSessionSyncFailed after.
SetFailure(s) ==
    [row EXCEPT ![s].sync = IF scan.seen[s] >= Steps THEN "error" ELSE "pending",
                ![s].attempts = OneMore(@),
                ![s].next_at = IF scan.seen[s] >= Steps THEN "null" ELSE "later"]

Settle(s) ==
    /\ At("settle")
    /\ s \in Mine
    /\ scan.result \in {"ok", "transient"}
    /\ row' = IF scan.result = "ok" THEN SetSessionSyncOK(s) ELSE SetFailure(s)
    /\ scan' = [scan EXCEPT !.claimed = @ \ {s}, !.seen[s] = 0, !.holds = @ \ {s}]
    /\ UNCHANGED <<covered, clock, github, attached, token, order, asked, requests>>

\* SetSessionSyncSkipped parks whatever of the user's is pending.
Parked == {s \in Sids : Owner[s] = scan.user /\ row[s].sync = "pending"}

Park ==
    /\ At("settle")
    /\ scan.result = "permanent"
    /\ row' = [s \in Sids |-> IF s \in Parked
                              THEN [row[s] EXCEPT !.sync = "skipped", !.next_at = "null"] ELSE row[s]]
    /\ scan' = [scan EXCEPT !.claimed = @ \ Mine, !.holds = @ \ Mine, !.result = "ok",
                            !.seen = [s \in Sids |-> IF s \in Mine THEN 0 ELSE @[s]]]
    /\ UNCHANGED <<covered, clock, github, attached, token, order, asked, requests>>

NextUser ==
    /\ At("settle")
    /\ scan.result # "permanent"
    /\ Mine = {}
    /\ scan' = [scan EXCEPT !.pc = "next"]
    /\ UNCHANGED <<row, covered, clock, github, attached, token, order, asked, requests>>

\* ClaimStaleGitHubConnections: what was never scanned, then what was scanned longest ago.
Unscanned == {u \in Users : token[u] # NoToken /\ \A i \in DOMAIN order : order[i] # u}

\* Fault: an account scanned once is not claimed again.
StaleNever(n) == {}

\* The n that were scanned longest ago, among those not scanned within the hour.
Stale(n) ==
    {order[i] : i \in {k \in DOMAIN order :
                        /\ order[k] \notin fresh
                        /\ Cardinality({j \in 1 .. k - 1 : order[j] \notin fresh}) < n}}

ClaimAccounts ==
    /\ At("next")
    /\ scan.mode = "sessions"
    /\ scan.todo = {}
    /\ \E c \in SUBSET Unscanned :
        /\ Cardinality(c) <= ConnectionBatch
        /\ c # Unscanned => Cardinality(c) = ConnectionBatch
        /\ scan' = [NoScan EXCEPT !.pc = "next", !.mode = "accounts",
                        !.todo = c \cup Stale(ConnectionBatch - Cardinality(c))]
    /\ UNCHANGED <<row, covered, clock, github, attached, token, order, asked, requests>>

EndPass ==
    /\ At("next")
    /\ scan.mode = "accounts"
    /\ scan.todo = {}
    /\ scan' = NoScan
    /\ UNCHANGED <<row, covered, clock, github, attached, token, order, asked, requests>>

\* The server is restarted; the queue is in the rows.
Restart ==
    /\ ~At("idle")
    /\ Request
    /\ scan' = NoScan
    /\ asked' = asked \cup scan.claimed
    /\ UNCHANGED <<row, covered, clock, github, attached, token, order>>

-------------------------------------------------------------------------------
Init ==
    /\ row = [s \in Sids |-> Born]
    /\ covered \in SUBSET Sids
    /\ recent = Sids
    /\ pushed = {} /\ attached = {}
    /\ token \in [Users -> Tokens \cup {NoToken}]
    /\ rejected \in SUBSET Tokens
    /\ order = <<>>
    /\ fresh = {}
    /\ scan = NoScan
    /\ asked = {}
    /\ requests = 0

Client ==
    \/ \E s \in Sids : \/ StopSession(s) \/ UpdateSession(s) \/ Reopen(s)
                       \/ RescanSession(s) \/ DeleteSession(s)
    \/ \E u \in Users : ConnectGitHub(u) \/ DisconnectGitHub(u)

World ==
    \/ \E s \in Sids : Push(s) \/ BackoffPasses(s) \/ WeekPasses(s)
    \/ \E k \in Tokens : Revoke(k)
    \/ \E u \in Users : HourPasses(u)

Pass ==
    \/ Claim \/ OpenClient \/ FetchAll \/ FetchFails \/ MarkScan
    \/ \E s \in Sids : Settle(s)
    \/ Park \/ NextUser \/ ClaimAccounts \/ EndPass

Next == Client \/ World \/ Pass \/ RequeueRecentSessions \/ Restart

Spec == Init /\ [][Next]_vars

\* The scanner's ticker, time, and a GitHub that answers an account's own scan now and then.
Fairness ==
    /\ WF_vars(Pass)
    /\ \A u \in Users : SF_vars(scan.mode = "accounts" /\ scan.user = u /\ FetchAll)
    /\ \A s \in Sids : WF_vars(BackoffPasses(s))
    /\ \A u \in Users : WF_vars(HourPasses(u))

FairSpec == Spec /\ Fairness

-------------------------------------------------------------------------------
(* Properties.                                                             *)

\* Every variable has its type.  A scan that ends after its account was disconnected does
\* not bring the account back, and last_scan_at orders the accounts.
TypeOK ==
    /\ row \in [Sids -> Entry]
    /\ covered \subseteq Sids /\ recent \subseteq Sids
    /\ pushed \subseteq Sids /\ attached \subseteq pushed
    /\ token \in [Users -> Tokens \cup {NoToken}]
    /\ rejected \subseteq Tokens
    /\ fresh \subseteq {order[i] : i \in DOMAIN order}
    /\ \A i \in DOMAIN order : token[order[i]] # NoToken /\ \A j \in DOMAIN order : order[j] = order[i] => i = j
    /\ scan.claimed \subseteq Sids /\ scan.holds \subseteq scan.claimed
    /\ scan.pc \in {"fetch", "mark", "settle"} => scan.user \in Users
    /\ asked \subseteq Sids

Connected(u) == token[u] \in Tokens \ (Unreadable \cup rejected)

\* The second trap of github_scan.go: a commit pushed hours after its session is attached in
\* the end, whatever failed, was parked or was asked for meanwhile, if the session keeps it
\* and stays inside RescanWindow and the account is connected with a token GitHub takes.
FoundInTheEnd ==
    \A s \in Sids :
        (<>[](s \in recent \cap covered /\ row[s].phase = "ended" /\ Connected(Owner[s])))
            => ((s \in pushed) ~> (s \in attached))

\* A queue entry does not wait for ever: the backoff ends, and so does a session whose scans
\* never succeed.
Settled ==
    \A s \in Sids : (row[s].phase = "ended" /\ row[s].sync = "pending")
                        ~> (row[s].phase # "ended" \/ row[s].sync # "pending")

\* RescanSession "puts one session back in the queue": a session of a connected account is
\* not taken for scanned until a scan that began after the request.
RequestsHonoured ==
    \A s \in Sids : (row[s].phase = "ended" /\ row[s].sync = "ok" /\ Connected(Owner[s]))
                        => s \notin asked

\* RunConnectionScans is "the floor under accounts that are not recording any": an account
\* that was scanned before and stays connected keeps being scanned.
AccountsScanned ==
    \A u \in Users :
        (<>[](Connected(u) /\ \E i \in DOMAIN order : order[i] = u)) => []<>(u \in fresh)

\* A session is given up (sync 'error') only when a scan failed past every step of the
\* backoff, however often it was claimed, edited or rescanned, unless it was asked for again
\* while the scan that gave it up was under way: that one counts by the row it had read.
GivenUpTried ==
    \A s \in Sids : (row[s].phase = "ended" /\ row[s].sync = "error" /\ s \notin asked)
                        => row[s].attempts > Steps

===============================================================================
