------------------------------ MODULE MCKswapd ------------------------------
EXTENDS Kswapd, TLC

CONSTANT t1

MCManaged == (0 :> 2) @@ (1 :> 2)
MCMin     == (0 :> 0) @@ (1 :> 1)
MCLow     == (0 :> 0) @@ (1 :> 1)
MCHigh    == (0 :> 0) @@ (1 :> 1)
MCRequests == {<<0, 1>>, <<1, 0>>}
=============================================================================
