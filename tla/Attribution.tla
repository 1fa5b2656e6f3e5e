--------------------------------- MODULE Attribution ---------------------------------
(***************************************************************************)
(* The algorithms that read evidence: which project a place of work        *)
(* belongs to, how a session's wall-clock is apportioned to projects, and  *)
(* which stretches of work no session covers.  Nothing here is stored.     *)
(*                                                                         *)
(* Times are whole ticks; a tick stands for a microsecond and `Second' of  *)
(* them make a second.  Projects are numbers, in the order of their ids.   *)
(***************************************************************************)
EXTENDS Integers, FiniteSets, FiniteSetsExt, Functions

CONSTANTS
    Projects,
    Repos, Dirs,        \* full names of repositories as they are spelled, working directories
    Lower,              \* [Repos -> lowercased full names]
    Keys,               \* canonical names of places, and of projects
    KeyOf,              \* [Repos \cup Dirs -> Keys]: the last path segment, lowercased
    Second,             \* ticks in a second, an even number
    LeadIn,             \* clusterLeadIn
    Gap,                \* clusterGap
    None

Places == Repos \cup Dirs

ASSUME AttributionAssumption ==
    /\ Projects \subseteq Nat /\ IsFiniteSet(Projects)
    /\ Repos \cap Dirs = {} /\ KeyOf \in [Places -> Keys]
    /\ \A f, g \in Repos : Lower[f] = Lower[g] => KeyOf[f] = KeyOf[g]
    /\ Second \in Nat \ {0} /\ Second % 2 = 0
    /\ LeadIn \in Nat /\ Gap \in Nat /\ LeadIn < Gap
    /\ None \notin Projects \cup Places \cup Keys

Larger(a, b)  == IF a > b THEN a ELSE b
Smaller(a, b) == IF a < b THEN a ELSE b
Rounded(t)    == (t + Second \div 2) \div Second

-------------------------------------------------------------------------------
(* The ladder: a link to the repository itself, a link to a place of that name, a project of   *)
(* that name.  `names' gives each project its name, None once it is deleted.                   *)

Claim(S, other) == IF \E p \in S : S = {p} THEN CHOOSE p \in S : TRUE ELSE other

\* The resolver compares names without case, the table and its queries as they are spelled.
ByFullName(links, f)     == {l[2] : l \in {k \in links : Lower[k[1]] = Lower[f]}}
ProjectsForRepo(links, f) == {l[2] : l \in {k \in links : k[1] = f}}
ByLinkKey(links, key)    == {l[2] : l \in {k \in links : KeyOf[k[1]] = key}}
ByName(names, key)       == {p \in Projects : names[p] = key}

\* Fault: a project's own name goes before the links of others.
ResolveNameFirst(names, links, place) ==
    LET key   == KeyOf[place]
        rungs == <<ByName(names, key), IF place \in Repos THEN ByFullName(links, place) ELSE {},
                   ByLinkKey(links, key)>>
        hits  == {i \in 1 .. 3 : rungs[i] # {}}
    IN  IF hits = {} THEN None ELSE Claim(rungs[CHOOSE i \in hits : \A j \in hits : i <= j], None)

\* The first rung that anybody stands on decides; more than one there is nobody.
Resolve(names, links, place) ==
    LET key   == KeyOf[place]
        rungs == <<IF place \in Repos THEN ByFullName(links, place) ELSE {},
                   ByLinkKey(links, key), ByName(names, key)>>
        hits  == {i \in 1 .. 3 : rungs[i] # {}}
    IN  IF hits = {} THEN None ELSE Claim(rungs[CHOOSE i \in hits : \A j \in hits : i <= j], None)

-------------------------------------------------------------------------------
(* Apportioning [lo, hi) to spans [project, key, from, to].                                     *)

Clipped(spans, lo, hi) ==
    {s \in {[x EXCEPT !.from = Larger(@, lo), !.to = Smaller(@, hi)] : x \in spans} : s.to > s.from}

Segments(spans, lo, hi) ==
    LET cuts == {lo, hi} \cup {s.from : s \in spans} \cup {s.to : s \in spans}
    IN  {g \in cuts \X cuts : g[1] < g[2] /\ ~\E c \in cuts : g[1] < c /\ c < g[2]}

Active(spans, g) == {s.project : s \in {x \in spans : x.from <= g[1] /\ g[2] <= x.to}}
Length(g)        == g[2] - g[1]

\* Fault: an overlap is counted for each of its projects.
FullShare(active, p, n) == n

\* An even split; what is left over goes to the first ids.
ShareOf(active, p, n) ==
    n \div Cardinality(active)
      + (IF Cardinality({q \in active : q < p}) < n % Cardinality(active) THEN 1 ELSE 0)

Evidenced(spans, segs, p) ==
    SumFunction([g \in segs |-> LET a == Active(spans, g) IN IF p \in a THEN ShareOf(a, p, Length(g)) ELSE 0])

\* Whole seconds by largest remainder: parts are <<project, evidenced>>, micros their ticks.
Leftover(parts, micros, total) == Rounded(total) - SumFunction([x \in parts |-> micros[x] \div Second])

Before(x, y, micros) ==
    LET rx == micros[x] % Second
        ry == micros[y] % Second
    IN  rx > ry \/ (rx = ry /\ (x[1] < y[1] \/ (x[1] = y[1] /\ x[2] /\ ~y[2])))

WholeSeconds(parts, micros, total) ==
    [x \in parts |->
        micros[x] \div Second
          + (IF Cardinality({y \in parts \ {x} : Before(y, x, micros)}) < Leftover(parts, micros, total)
               THEN 1 ELSE 0)]

\* The allocations: seconds per part, parts without a second left out.
Apportion(declared, lo, hi, spans) ==
    IF hi <= lo THEN {}
    ELSE LET clipped == {s \in Clipped(spans, lo, hi) : s.project # None}
             segs    == Segments(clipped, lo, hi)
             parts   == {<<s.project, TRUE>> : s \in clipped} \cup {<<declared, FALSE>>}
             quiet   == SumFunction([g \in {x \in segs : Active(clipped, x) = {}} |-> Length(g)])
             micros  == [x \in parts |-> IF x[2] THEN Evidenced(clipped, segs, x[1]) ELSE quiet]
             secs    == WholeSeconds(parts, micros, hi - lo)
         IN  {[project |-> x[1], evidenced |-> x[2], seconds |-> secs[x]] : x \in {y \in parts : secs[y] > 0}}

-------------------------------------------------------------------------------
(* The places nobody claims: how long somebody was active there.                                *)

\* The sorts order by the start alone: of those that start together any may come last.
UnionMicros(spans) ==
    LET add(s, acc) == IF s.from > acc.to
                         THEN [total |-> acc.total + acc.to - acc.from, from |-> s.from, to |-> s.to]
                         ELSE [acc EXCEPT !.to = Larger(@, s.to)]
        last(S) == CHOOSE s \in S : \A x \in S : x.from <= s.from
        first   == Min({s.from : s \in spans})
        acc     == MapThenFoldSet(add, [total |-> 0, from |-> first, to |-> first], LAMBDA s : s, last, spans)
    IN  IF spans = {} THEN 0 ELSE acc.total + acc.to - acc.from

Unresolved(lo, hi, spans) ==
    LET lost == {s \in Clipped(spans, lo, hi) : s.project = None}
        seconds(k) == Rounded(UnionMicros({s \in lost : s.key = k}))
    IN  {p \in {[key |-> s.key, seconds |-> seconds(s.key)] : s \in lost} : p.seconds > 0}

-------------------------------------------------------------------------------
(* Clusters of evidence items [kind, place, at, end].                                          *)

\* Fault: the gap is measured from where the last item began.
ReachOfLast(reach, item) == item.at
ReachWith(reach, item)   == Larger(reach, item.end)

\* Items in the order of their start; a silence longer than Gap ends a cluster.
Clusters(items) ==
    LET add(i, acc) ==
            IF acc.current # {} /\ i.at - acc.reach > Gap
              THEN [done |-> acc.done \cup {acc.current}, current |-> {i}, reach |-> ReachWith(i.at, i)]
              ELSE [acc EXCEPT !.current = @ \cup {i}, !.reach = ReachWith(@, i)]
        last(S) == CHOOSE i \in S : \A j \in S : j.at <= i.at
        first   == Min({i.at : i \in items})
        acc     == MapThenFoldSet(add, [done |-> {}, current |-> {}, reach |-> first], LAMBDA i : i, last, items)
    IN  IF items = {} THEN {} ELSE acc.done \cup {acc.current}

\* A commit says when work ended, so the window begins a lead-in before it; a run knows.
WindowOf(cluster) ==
    [from |-> Min({IF i.kind = "commit" THEN i.at - LeadIn ELSE i.at : i \in cluster}),
     to   |-> Max({i.end : i \in cluster})]

ReposOf(cluster) == {i.place : i \in cluster} \cap Repos

\* One repository, linked to one project as it is spelled; anything else is left to the user.
SuggestedProject(links, cluster) ==
    LET f == Claim(ReposOf(cluster), None)
    IN  IF f = None THEN None ELSE Claim(ProjectsForRepo(links, f), None)
=====================================================================================
