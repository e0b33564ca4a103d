------------------------------ MODULE MCDaemon ------------------------------
EXTENDS Properties

CONSTANTS c1, c2

\* Two contents of different length.
MCSizeOf == [c \in Contents |-> IF c = c1 THEN 1 ELSE 2]
=============================================================================
