--------------------------- MODULE MCSessionJobs ---------------------------
EXTENDS SessionJobs
CONSTANTS j1, j2, m, q1, q2

\* The first canvas again, and one that needs a model besides.
MCWant == [j \in {j1, j2} |-> IF j = j1 THEN {} ELSE {m}]
=============================================================================
