-------------------------- MODULE MCKrpingConnection -------------------------
EXTENDS KrpingConnection

LowerListens == [e \in End |-> e[1] < e[2]]
=============================================================================
