------------------------------- MODULE MCCliQueue -------------------------------
(***************************************************************************)
(* Small instances of CliQueue for TLC.                                    *)
(***************************************************************************)
EXTENDS CliQueue, TLC

\* Which unused inode a new file gets does not matter: any, or, where symmetry cannot be
\* used, the lowest (files are numbers then).
MCAnyFile    == {}
MCLowestFile == {<<g, f>> \in Files \X Files : g < f}

MCSymmetry == Permutations(Turns) \cup Permutations(Syncers) \cup Permutations(Files)
=============================================================================
