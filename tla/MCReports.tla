---------------------------------- MODULE MCReports ----------------------------------
(***************************************************************************)
(* A small account for TLC: two repositories and a directory of one name,  *)
(* a repository of another name in two spellings, three projects.          *)
(***************************************************************************)
EXTENDS Reports

CONSTANTS ax, bx, cy, cY, x, kx, ky, kz, kw, s1, s2, s3

MCKeyOf == [f \in Places |-> IF f \in {cy, cY} THEN ky ELSE kx]
MCLower == [f \in Repos |-> IF f = cY THEN cy ELSE f]

Row(p, from, to) == [p |-> p, from |-> from, to |-> to]
Commit(f, t)     == [kind |-> "commit", place |-> f, at |-> t, end |-> t]
Run(f, t, l)     == [kind |-> "run", place |-> f, at |-> t, end |-> t + l]

\* The first session alone, or followed by one of another project; evidence inside and after.
Booked == {<<Row(1, 1, 11), Row(None, 0, 0)>>, <<Row(1, 1, 8), Row(2, 8, 14)>>}
Worked == {{Commit(ax, 4), Run(bx, 2, 7), Run(cY, 3, 6)}, {Commit(ax, 4), Run(bx, 2, 7), Run(ax, 6, 4)},
           {Commit(ax, 4), Run(x, 16, 3), Run(cy, 15, 2)}, {Commit(bx, 9), Run(x, 2, 7), Commit(cy, 18)},
           {Commit(cy, 18), Run(bx, 2, 7), Run(cy, 15, 2)}}

\* Links and names: nobody's, with a project named for the place; one; one, with the second
\* project deleted whatever was booked on it; one for each; and two that differ in case, while a
\* deletion has counted the second project.
World(l, two, three, n) == [links |-> l, two |-> two, three |-> three, counted |-> n]
Settings == {World({}, kx, ky, {}), World({<<ax, 3>>}, None, kw, {}),
             World({<<ax, 3>>, <<bx, 2>>, <<cy, 1>>}, kx, kw, {}),
             World({<<cy, 1>>, <<cY, 3>>}, kx, kw, {2})}

MCWorlds ==
    {[name |-> [p \in Projects |-> CASE p = 1 -> kz [] p = 2 -> w.two [] p = 3 -> w.three],
      links |-> w.links, counted |-> w.counted,
      session |-> [s \in Sids |-> IF s = s1 THEN b[1] ELSE IF s = s2 THEN b[2] ELSE Row(None, 0, 0)],
      evidence |-> items] : w \in Settings, b \in Booked, items \in Worked}

MCRanges  == {[from |-> 0, to |-> 24], [from |-> 3, to |-> 9]}
MCScopes  == {Projects, {1}}
MCEdits   == [s \in Sids |-> IF s = s1 THEN {Row(1, 2, 6), Row(2, 1, 8)} ELSE {}]
MCRelinks == {<<bx, 1>>, <<ax, 2>>, <<cY, 2>>}
MCRenames == {<<2, kw>>, <<3, ky>>}
=======================================================================================
