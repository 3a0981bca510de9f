------------------------------- MODULE MC_Query -------------------------------
EXTENDS Query

\* One target, and two targets where the second is an input of nothing
\* the first reaches.
MCArgChoices == {<<1>>, <<2, 1>>}

====
