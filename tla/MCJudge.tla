------------------------------ MODULE MCJudge ------------------------------
EXTENDS Judge

\* The goroutines that serve Send are interchangeable.
Perms == Permutations(Senders)
=============================================================================
