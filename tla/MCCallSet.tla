------------------------------- MODULE MCCallSet -------------------------------
\* CallSet on small sets, as TLC runs it.
EXTENDS CallSet, TLC

CONSTANTS c1, c2, c3, s1, s2, o1, o2, o3

MCCalls == {c1, c2, c3}
MCServers == {s1, s2}
MCObjects == {o1, o2, o3}

\* Calls, servers and objects are interchangeable.
Symm == Permutations(MCCalls) \cup Permutations(MCServers) \cup Permutations(MCObjects)
=============================================================================
