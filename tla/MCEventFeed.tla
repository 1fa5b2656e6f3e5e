--------------------------------- MODULE MCEventFeed ---------------------------------
EXTENDS EventFeed

CONSTANTS m1, m2, m3, s1, s2

\* The second stream filters on a project.
MCWants == [s \in Streams |-> IF s = s1 THEN Own ELSE Own \ {m2}]
================================================================================
