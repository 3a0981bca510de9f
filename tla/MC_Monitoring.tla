---------------------------- MODULE MC_Monitoring ----------------------------
EXTENDS Monitoring
CONSTANTS p1, p2
\* Two steps finishing at once.
MCProcs == {p1, p2}
====
