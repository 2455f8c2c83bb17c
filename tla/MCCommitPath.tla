---- MODULE MCCommitPath ----
EXTENDS CommitPath

CorrectPath(d, s) == [wp |-> FALSE, dv |-> TRUE, d |-> d, s |-> s]
WrongPath(d, s)   == [wp |-> TRUE, dv |-> TRUE, d |-> d, s |-> s]

\* Writers of two architectural registers, each reading the other one, and a
\* wrong-path writer.
TwoWriters == {CorrectPath(1, 2), CorrectPath(2, 1), WrongPath(1, 1)}

\* One register written and read on both paths, a uop that names x0 as its
\* destination and one that has none.
OneWriter == {CorrectPath(1, 1), CorrectPath(0, 1), WrongPath(1, 0),
              [wp |-> FALSE, dv |-> FALSE, d |-> 1, s |-> 1]}
====
