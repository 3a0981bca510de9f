----------------------------- MODULE MC_Flush -----------------------------
EXTENDS Flush

\* A directory "d", a file "d/a" in it and a file "dx" beside it whose name
\* starts with "d": sort.Strings order is d < d/a < dx ('/' < 'x').
PathD == <<"d">>
PathDA == <<"d", "/", "a">>
PathDX == <<"d", "x">>

MCPaths == {PathD, PathDA, PathDX}
MCOrder == <<PathD, PathDA, PathDX>>
MCArgChoices == {<<PathD>>, <<PathDA, PathDX>>, <<PathDX, PathD>>}

\* Disk mtimes older than, equal to and newer than the recorded one.
MCTimes == {1, 2, 3}

====
