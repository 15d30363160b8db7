---------------------------- MODULE MCMlsGroups ----------------------------
EXTENDS MlsGroups, TLC

\* Tasks are interchangeable in every safety property.
Interchangeable == Permutations(Tasks)
====
