-------------------------- MODULE MCDirtyThrottle --------------------------
EXTENDS DirtyThrottle, TLC

CONSTANTS task1, r1

MCFractions == {<<0, 1>>, <<1, 1>>}
MCPeriods == {<<2, 0, 8>>, <<2, 8, 2>>}
=============================================================================
