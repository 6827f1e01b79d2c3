------------------------------ MODULE MCDeputies ------------------------------
EXTENDS Deputies

CONSTANTS c1, c2

\* The second child is there for the budget only: nobody works on it, writes to it
\* or archives it.  Nor does a call of the tool overlap with the runs of the first.
SecondIsIdle ==
    /\ active'[c2] = None /\ status'[c2] # "archived"
    /\ \A u \in Requests : request'[u].session \in {c1, None}
    /\ \A k \in Calls : call'[k].step # "idle" =>
          /\ call'[k].notify <=> call'[k].child = c1
          /\ \A r \in Runs : run'[r].session # c1
=============================================================================
