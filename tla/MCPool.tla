---- MODULE MCPool ----
EXTENDS Pool

\* One job, fewer jobs than workers, and more.
SomeRuns == {1, 2, 4}
====
