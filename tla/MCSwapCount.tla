---------------------------- MODULE MCSwapCount ----------------------------
EXTENDS SwapCount

CONSTANTS o1, o2, t1, t2

MCOffsets == {o1, o2}
MCThreads == {t1, t2}
==============================================================================
