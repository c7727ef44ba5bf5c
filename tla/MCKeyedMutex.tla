---------------------------- MODULE MCKeyedMutex ----------------------------
\* Two users; three calls for one of them race with one for the other.
EXTENDS KeyedMutex

CONSTANTS u1, u2, c1, c2, c3, c4

MCCall == {c1, c2, c3, c4}
MCKey == {u1, u2}
MCKeyOf == [c \in MCCall |-> IF c \in {c1, c2, c3} THEN u1 ELSE u2]
=============================================================================
