---------------------------- MODULE MCArchiveEngine ----------------------------
(* Small instances of ArchiveEngine for TLC.                               *)
EXTENDS ArchiveEngine, TLC

\* A behaviour fills one of the two stores, which share no rows and no archives;
\* a run still goes through the other, and finds it empty.
OneStore ==
    \/ \A x \in Logs : ts'[x] = -1
    \/ \A x \in Spans : ts'[x] = -1

MCSpec == Init /\ [][Next /\ OneStore]_vars

Symmetry ==
    Permutations(Spans) \cup Permutations(Logs) \cup Permutations(Runs)
      \cup Permutations(Hydrators)
===============================================================================
