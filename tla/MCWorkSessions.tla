----------------------------- MODULE MCWorkSessions -----------------------------
(***************************************************************************)
(* Small instances of WorkSessions for TLC.                                *)
(***************************************************************************)
EXTENDS WorkSessions, TLC

\* The single run starts and the single commit is written at the second instant, so
\* that a session can begin before, at or after either, and a cut can leave the commit
\* in either half.
MCRunStartedAt == [r \in Runs |-> 2]
MCCommittedAt  == [c \in Commits |-> 2]

Move(t)       == [at |-> t, to |-> Null, setEnded |-> FALSE]
End(t)        == [at |-> Null, to |-> t, setEnded |-> TRUE]
Reopen        == [at |-> Null, to |-> Null, setEnded |-> TRUE]
MCEdits       == {Move(1), Move(3), End(2), Reopen}
MCFewEdits    == {Move(3), End(2), Reopen}
MCWindows     == {[from |-> 1, to |-> 2], [from |-> 2, to |-> 3]}

MCOneWindow   == {[from |-> 1, to |-> 3]}

MCSymmetry == Permutations(Workers) \cup Permutations(Sids)
=============================================================================
