------------------------------------ MODULE Reports ------------------------------------
(***************************************************************************)
(* Reports of one account, and the recovery of time nobody recorded: the   *)
(* requests that read sessions, projects, links and evidence one statement *)
(* after the other while other requests change them.                       *)
(*                                                                         *)
(* The breakdown is never stored: each request resolves the evidence anew, *)
(* so a link or a new name shows at the next read, and a request that is   *)
(* under way sees part of a change.                                        *)
(***************************************************************************)
EXTENDS Attribution, Sequences

CONSTANTS
    Sids,               \* sessions
    Worlds,             \* bound: [name, links, session, evidence, counted] at the start
    Ranges,             \* bound: the ranges asked for
    Scopes,             \* bound: the sets of projects a token may be good for
    Edits,              \* bound: [Sids -> SUBSET rows an edit may make of a session]
    Relinks,            \* bound: <<repository, project>> the user may link
    Renames,            \* bound: <<project, name>>
    MaxChanges,         \* bound: changes
    Whole               \* parts of a tick, so many that any number of projects can share it exactly

NoRange == [from |-> 0, to |-> 0]

TimeRanges  == [from : Int, to : Int]
SessionRows == [p : Projects \cup {None}, from : Int, to : Int]

IsRange(r) == r \in TimeRanges /\ r.from < r.to
IsItem(i)  == /\ i.kind \in {"commit", "run"} /\ i.place \in Places
              /\ i.at \in Int /\ i.end \in Int /\ i.at <= i.end

\* A session has a length (work_sessions' check).  Its project may be deleted, and so may a
\* link's: deletion is a mark on the row, which no foreign key sees.
IsWorld(w) ==
    /\ w.name \in [Projects -> Keys \cup {None}] /\ w.links \subseteq Repos \X Projects
    /\ w.session \in [Sids -> SessionRows]
    /\ \A s \in Sids : w.session[s].p # None => w.session[s].from < w.session[s].to
    /\ w.counted \subseteq Projects
    /\ IsFiniteSet(w.evidence) /\ \A i \in w.evidence : IsItem(i)

\* A range asked for or edited to is not empty (defaultRange, UpdateSession).
ASSUME ReportsAssumption ==
    /\ IsFiniteSet(Sids) /\ \A w \in Worlds : IsWorld(w)
    /\ \A r \in Ranges : IsRange(r)
    /\ \A S \in Scopes : S \subseteq Projects
    /\ \A s \in Sids : \A r \in Edits[s] : r \in SessionRows /\ r.p # None /\ r.from < r.to
    /\ Whole \in Nat \ {0} /\ \A k \in 1 .. Cardinality(Projects) : Whole % k = 0
    /\ Relinks \subseteq Repos \X Projects /\ Renames \subseteq Projects \X Keys /\ MaxChanges \in Nat

VARIABLES
    name,               \* [Projects -> Keys, None: deleted]
    links,              \* project_repos
    session,            \* the recorded sessions: [p, from, to]; p = None: not recorded
    evidence,           \* commits and agent runs: [kind, place, at, end]
    counted,            \* projects a deletion under way has found without sessions
    report,             \* the report request under way
    unmatched,          \* the request for unmatched clusters under way, or its answer
    changes             \* bound

stored == <<name, links, session, evidence, counted>>
vars   == <<stored, report, unmatched, changes>>

-------------------------------------------------------------------------------
Recorded  == {s \in Sids : session[s].p # None}
NoSession == [p |-> None, from |-> 0, to |-> 0]
Covers(s, t) == s \in Recorded /\ session[s].from <= t /\ t < session[s].to

\* What the filing of evidence keeps up: an item belongs to the session over its start.
FiledUnder(i)   == {s \in Sids : Covers(s, i.at)}
EvidenceOf(s)   == {i \in evidence : Covers(s, i.at)}
Unfiled(r)      == {i \in evidence : FiledUnder(i) = {} /\ r.from <= i.at /\ i.at <= r.to}

\* ListReposForUser and ProjectsForRepo pass over deleted projects.
LiveLinks == {l \in links : name[l[2]] # None}

NoReport    == [pc |-> "idle", mode |-> "summary", range |-> NoRange, allowed |-> Projects, listed |-> [s \in Sids |-> NoSession],
                names |-> [p \in Projects |-> None], links |-> {}, todo |-> {}, shares |-> <<>>, quiet |-> TRUE]
NoClusters  == [pc |-> "idle", range |-> NoRange, items |-> {}, clusters |-> {}, suggested |-> <<>>]

Init == \E w \in Worlds :
    /\ name = w.name /\ links = w.links /\ session = w.session /\ evidence = w.evidence
    /\ counted = w.counted
    /\ report = NoReport /\ unmatched = NoClusters /\ changes = 0

-------------------------------------------------------------------------------
(* A report: SummaryByProjectEvidenced, or the rows of ExportCSV in its evidence mode. *)

\* The sessions in the range whose projects the caller's token is good for.
Listed(r, allowed) ==
    [s \in Sids |-> IF /\ s \in Recorded /\ session[s].p \in allowed
                       /\ session[s].from < r.to /\ session[s].to > r.from
                    THEN session[s] ELSE NoSession]

\* The request, in either mode, and its first statement.
ListSessions(mode, r, allowed) ==
    /\ report.pc = "idle"                               \* bound: asked once
    /\ report' = [NoReport EXCEPT !.pc = "projects", !.mode = mode, !.range = r, !.allowed = allowed,
                    !.listed = Listed(r, allowed), !.todo = {s \in Sids : Listed(r, allowed)[s].p # None}]
    /\ UNCHANGED <<stored, unmatched, changes>>

\* newResolver, in two statements.
ListProjects ==
    /\ report.pc = "projects"
    /\ report' = [report EXCEPT !.pc = "links", !.names = name]
    /\ UNCHANGED <<stored, unmatched, changes>>

ListReposForUser ==
    /\ report.pc = "links"
    /\ report' = [report EXCEPT !.pc = "spans", !.links = LiveLinks]
    /\ UNCHANGED <<stored, unmatched, changes>>

\* sessionSpans: a run is an interval, a commit vouches for the time that led to it.
SpansOf(items) ==
    {[project |-> Resolve(report.names, report.links, i.place), key |-> KeyOf[i.place],
      from |-> IF i.kind = "commit" THEN i.at - LeadIn ELSE i.at, to |-> i.end] : i \in items}

\* Fault: what lies outside the range is counted.
UnclippedRange(s) == [from |-> s.from, to |-> s.to]

\* The summary counts what lies inside the range; an export tells whole sessions.
ClippedRange(s) ==
    IF report.mode = "csv" THEN [from |-> s.from, to |-> s.to]
    ELSE [from |-> Larger(s.from, report.range.from), to |-> Smaller(s.to, report.range.to)]

\* One session's evidence is read and its time apportioned.
SessionAttribution(s) ==
    /\ report.pc = "spans" /\ s \in report.todo
    /\ LET span == ClippedRange(report.listed[s])
           read == SpansOf(EvidenceOf(s))
       IN  report' = [report EXCEPT !.todo = @ \ {s},
                        !.shares = Append(@, [session |-> s, declared |-> report.listed[s].p,
                            from |-> span.from, to |-> span.to, spans |-> read,
                            allocs |-> Apportion(report.listed[s].p, span.from, span.to, read),
                            places |-> Unresolved(span.from, span.to, read)])]
    /\ UNCHANGED <<stored, unmatched, changes>>

\* A project that was gone when the projects were read gets no line; nor, in a summary, does
\* one the token is not good for.
Respond ==
    /\ report.pc = "spans" /\ report.todo = {}
    /\ report' = [report EXCEPT !.pc = "answered"]
    /\ UNCHANGED <<stored, unmatched, changes>>

ToProject(p, h) == SumFunction([a \in h.allocs |-> IF a.project = p THEN a.seconds ELSE 0])
Shown(p) == report.names[p] # None /\ (report.mode = "summary" => p \in report.allowed)
\* The lines of the answer: each project's seconds.
Line(p) == IF Shown(p) THEN SumFunction([n \in DOMAIN report.shares |-> ToProject(p, report.shares[n])])
           ELSE 0

\* SummaryByProject: the declared totals, one statement, which passes over no project, deleted or
\* not; ExportCSV's declared rows truncate instead.
SummaryByProject(p, r) ==
    LET rows == {s \in Recorded : session[s].p = p /\ session[s].from < r.to /\ session[s].to > r.from}
    IN  Rounded(SumFunction([s \in rows |-> Smaller(session[s].to, r.to) - Larger(session[s].from, r.from)]))

-------------------------------------------------------------------------------
(* Unmatched clusters, and a session recovered from one. *)

ListUnmatchedCommits(r) ==
    /\ unmatched.pc = "idle" /\ report.pc = "idle"     \* bound: asked once, and first
    /\ unmatched' = [NoClusters EXCEPT !.pc = "runs", !.range = r,
                     !.items = {i \in Unfiled(r) : i.kind = "commit"}]
    /\ UNCHANGED <<stored, report, changes>>

\* The clusters, each with a suggestion if its repository has one project.
UnmatchedClusters ==
    /\ unmatched.pc = "runs"
    /\ LET items == unmatched.items \cup {i \in Unfiled(unmatched.range) : i.kind = "run"}
       IN  unmatched' = [unmatched EXCEPT !.pc = "answered", !.items = items, !.clusters = Clusters(items),
                           !.suggested = [c \in Clusters(items) |-> SuggestedProject(LiveLinks, c)]]
    /\ UNCHANGED <<stored, report, changes>>

Change == /\ changes < MaxChanges /\ changes' = changes + 1
          /\ report' = [report EXCEPT !.quiet = FALSE]

\* What the recovered window names: its commits, filed or not, and the runs filed under the session.
LearnedFrom(w) ==
    {i.place : i \in {x \in evidence : \/ x.kind = "commit" /\ w.from <= x.at /\ x.at <= w.to
                                       \/ x.kind = "run" /\ w.from <= x.at /\ x.at < w.to}} \cap Repos

\* SessionFromCluster, its four commits as one: the session, and the link it teaches when the
\* window names one repository, if that write succeeds.  Its project was there when the request
\* was authorised, and may be deleted by now; so in LinkRepo and EditSession.
SessionFromCluster(c, p) ==
    /\ unmatched.pc = "answered" /\ c \in unmatched.clusters
    /\ LET w == WindowOf(c) IN
         /\ w.to > w.from
         /\ ~\E s \in Recorded : session[s].from <= w.from /\ w.from <= session[s].to
         /\ \E s \in Sids \ Recorded : session' = [session EXCEPT ![s] = [p |-> p, from |-> w.from, to |-> w.to]]
         /\ links' \in {links} \cup
                 {links \cup (learned \X {p}) : learned \in {LearnedFrom(w)} \cap {{f} : f \in Repos}}
    /\ unmatched' = NoClusters /\ Change
    /\ UNCHANGED <<name, evidence, counted>>

-------------------------------------------------------------------------------
(* Changes by other requests. *)

LinkRepo(f, p) ==
    /\ <<f, p>> \notin links
    /\ links' = links \cup {<<f, p>>} /\ Change
    /\ UNCHANGED <<name, session, evidence, counted, unmatched>>

RenameProject(p, k) ==
    /\ name[p] # None /\ \A q \in Projects : name[q] # k
    /\ name' = [name EXCEPT ![p] = k] /\ Change
    /\ UNCHANGED <<links, session, evidence, counted, unmatched>>

\* DeleteProject, in two statements.  A project with sessions is archived instead, which changes
\* nothing here; one they are booked on after the count is deleted all the same.
CountSessionsForProject(p) ==
    /\ name[p] # None /\ \A s \in Recorded : session[s].p # p
    /\ counted = {} /\ changes < MaxChanges            \* bound: one deletion, if one may follow
    /\ counted' = {p}
    /\ UNCHANGED <<name, links, session, evidence, report, unmatched, changes>>

SoftDeleteProject(p) ==
    /\ p \in counted /\ name[p] # None
    /\ name' = [name EXCEPT ![p] = None] /\ counted' = counted \ {p} /\ Change
    /\ UNCHANGED <<links, session, evidence, unmatched>>

\* UpdateSession: another range, or another project.
EditSession(s, r) ==
    /\ s \in Recorded /\ r \in Edits[s]
    /\ session' = [session EXCEPT ![s] = r] /\ Change
    /\ UNCHANGED <<name, links, evidence, counted, unmatched>>

DeleteSession(s) ==
    /\ s \in Recorded
    /\ session' = [session EXCEPT ![s] = NoSession] /\ Change
    /\ UNCHANGED <<name, links, evidence, counted, unmatched>>

Next ==
    \/ \E mode \in {"summary", "csv"}, r \in Ranges, S \in Scopes : ListSessions(mode, r, S)
    \/ ListProjects \/ ListReposForUser \/ Respond
    \/ \E s \in Sids : SessionAttribution(s) \/ DeleteSession(s) \/ \E r \in Edits[s] : EditSession(s, r)
    \/ \E r \in Ranges : ListUnmatchedCommits(r)
    \/ UnmatchedClusters
    \/ \E c \in unmatched.clusters, p \in Projects : SessionFromCluster(c, p)
    \/ \E l \in Relinks : LinkRepo(l[1], l[2])
    \/ \E n \in Renames : RenameProject(n[1], n[2])
    \/ \E p \in Projects : CountSessionsForProject(p) \/ SoftDeleteProject(p)

Spec == Init /\ [][Next]_vars

-------------------------------------------------------------------------------
(* Correctness. *)

\* Who a tick of a session belongs to, and how much of it in parts of `Whole'.
At(spans, t)   == {s.project : s \in {x \in spans : x.from <= t /\ t < x.to /\ x.project # None}}
Due(h, p, evidenced) ==
    SumFunction([t \in h.from .. h.to - 1 |->
        LET a == At(h.spans, t) IN
        IF evidenced THEN (IF p \in a THEN Whole \div Cardinality(a) ELSE 0)
                     ELSE (IF a = {} /\ p = h.declared THEN Whole ELSE 0)])

\* Apportioning hands out a session's rounded length, all of it and none twice; each project
\* gets what a tick-by-tick count gives it, up to a second and a tick per boundary; nobody is
\* given a second without evidence, and the quiet time is the declared project's
\* (attribution.go:172-178 "sums exactly to the clipped duration in seconds").
SharesExact ==
    \A n \in DOMAIN report.shares : LET h == report.shares[n] IN
        /\ SumFunction([a \in h.allocs |-> a.seconds]) = IF h.to > h.from THEN Rounded(h.to - h.from) ELSE 0
        /\ \A a \in h.allocs :
              LET due   == Due(h, a.project, a.evidenced)
                  given == a.seconds * Second * Whole
                  slack == Whole * (Second + 2 * Cardinality(h.spans))
              IN  due > 0 /\ given - due < slack /\ due - given < slack
        /\ \A p \in Projects, e \in BOOLEAN :
              Due(h, p, e) >= Whole * (Second + 2 * Cardinality(h.spans)) =>
                  \E a \in h.allocs : a.project = p /\ a.evidenced = e
        /\ \A q \in h.places : q.seconds =
              Rounded(Cardinality({t \in h.from .. h.to - 1 :
                  \E s \in h.spans : s.project = None /\ s.key = q.key /\ s.from <= t /\ t < s.to}))

\* The report's lines add up to the listed sessions inside the range, whatever changes while it
\* is put together, but for what went to projects without a line.  Undisturbed, lines and
\* what went without differ from the declared totals by the rounding of sessions here and of
\* projects there; and a project goes without a line only if it is deleted and declared, or
\* evidenced and none of the token's.  "Same totals" (attribution.go:449) so needs a token good
\* for all projects and no time on a deleted one, which SummaryByProject counts.
TotalsAgree ==
    report.pc = "answered" =>
        LET lines     == SumFunction([p \in Projects |-> Line(p)])
            inside(s) == IF report.mode = "csv" THEN report.listed[s].to - report.listed[s].from
                         ELSE Smaller(report.listed[s].to, report.range.to)
                                - Larger(report.listed[s].from, report.range.from)
            listed    == {s \in Sids : report.listed[s].p # None}
            dropped   == SumFunction([n \in DOMAIN report.shares |->
                             SumFunction([p \in {q \in Projects : ~Shown(q)} |->
                                 ToProject(p, report.shares[n])])])
            declared  == SumFunction([p \in report.allowed |-> SummaryByProject(p, report.range)])
        IN  /\ lines + dropped = SumFunction([s \in listed |-> Rounded(inside(s))])
            /\ report.quiet /\ report.mode = "summary" =>
                 /\ 2 * (lines + dropped - declared) <= Cardinality(listed) + Cardinality(Projects)
                 /\ 2 * (declared - lines - dropped) <= Cardinality(listed) + Cardinality(Projects)
            /\ report.quiet => \A n \in DOMAIN report.shares : \A a \in report.shares[n].allocs :
                 ~Shown(a.project) => IF a.evidenced THEN a.project \notin report.allowed
                                      ELSE report.names[report.shares[n].declared] = None

\* A suggested project is the one attribution gives the cluster's time to, except where the
\* repository is linked elsewhere under another spelling: that link ProjectsForRepo passes over,
\* while the resolver sees two and gives the time to neither.
SuggestionsHold ==
    changes = 0 => \A c \in unmatched.clusters : unmatched.suggested[c] # None =>
                      \A f \in ReposOf(c) : Resolve(name, LiveLinks, f) =
                          IF \E l \in LiveLinks : Lower[l[1]] = Lower[f] /\ l[2] # unmatched.suggested[c]
                          THEN None ELSE unmatched.suggested[c]

Near(i, j) == i.at <= j.at /\ j.at - i.end <= Gap

\* Unmatched evidence falls into clusters as its silences say: no silence longer than Gap
\* inside a cluster, whatever runs overlap, and one between any two; so their windows are
\* disjoint (unmatched.go:81-105).  While links and names stay, what is suggested is where the
\* time would go, or would but for a link that differs in case (unmatched.go:201-214).
ClustersAreStretches ==
    unmatched.pc = "answered" =>
        /\ UNION unmatched.clusters = unmatched.items
        /\ \A c \in unmatched.clusters : \A part \in (SUBSET c) \ {{}, c} :
              \E i \in part, j \in c \ part : Near(i, j) \/ Near(j, i)
        /\ \A c, d \in unmatched.clusters : c # d =>
              /\ \A i \in c, j \in d : ~Near(i, j) /\ ~Near(j, i)
              /\ WindowOf(c).to < WindowOf(d).from \/ WindowOf(d).to < WindowOf(c).from
        /\ SuggestionsHold

Says(place) == Resolve(name, LiveLinks, place)

\* A new link, asked for or learned, settles its repository for its project unless the
\* repository is linked elsewhere too, in whatever case, and moves nothing it does not name: no
\* place of another name, and no repository with a link of its own (attribution.go:34-38 "an
\* explicit link breaks the tie").  One written for a project deleted meanwhile does nothing.
LinksSettle ==
    [][\A l \in links' \ links :
          /\ name[l[2]] # None =>
               Says(l[1])' = IF ByFullName(LiveLinks, l[1]) \subseteq {l[2]} THEN l[2] ELSE None
          /\ \A place \in Places :
               Says(place)' # Says(place) =>
                   /\ name[l[2]] # None
                   /\ KeyOf[place] = KeyOf[l[1]]
                   /\ \/ place \notin Repos
                      \/ Lower[place] = Lower[l[1]]
                      \/ ByFullName(LiveLinks, place) = {}]_vars
=======================================================================================
