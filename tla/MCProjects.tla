--------------------------------- MODULE MCProjects ---------------------------------
EXTENDS Projects, TLC

CONSTANTS p1, p2, p3, n1, n2, f1, k1, r1, r2, r3

MCScenarios == {
    [UpdateProject |-> 2, DeleteProject |-> 2, StartSession |-> 1, DeleteSession |-> 1],
    [CreateProject |-> 3, UpdateProject |-> 1],
    [CreateProject |-> 1, StartSession |-> 2, DeleteProject |-> 1],
    [CreateProject |-> 1, StartSession |-> 1, UpdateSession |-> 1, SplitSession |-> 1,
     DeleteProject |-> 1],
    [LinkRepo |-> 2, UnlinkRepo |-> 2, DeleteProject |-> 1]}

Symmetry == Permutations({p2, p3}) \cup Permutations({r1, r2, r3})
=====================================================================================
