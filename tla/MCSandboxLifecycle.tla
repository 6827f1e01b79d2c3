------------------------- MODULE MCSandboxLifecycle -------------------------
EXTENDS SandboxLifecycle, TLC
Symm == Permutations(Ids)

\* Two of the worker, the tool, the reaper and the archiver are at work at a time:
\* a third waits until one of them is done.
AtWork == {c \in Callers : doing[c] # "none"}
TwoAtWork == Cardinality(AtWork') > Cardinality(AtWork) => Cardinality(AtWork') <= 2
=============================================================================
