---------------------------- MODULE MCKrpingVerbs ----------------------------
EXTENDS KrpingVerbs, TLC

CONSTANTS t1, t2

(* Two senders and two writers, one of which also reads.                    *)
MixedOps == (t1 :> {"send", "write"}) @@ (t2 :> {"send", "write", "read"})
=============================================================================
