----------------------------- MODULE MCTransfer -----------------------------
EXTENDS Transfer

CONSTANTS f1, f2, d1

MCSize == [f \in Files |-> IF f = f1 THEN 3 ELSE 1]
MCDcOf == [f \in Files |-> d1]
=============================================================================
