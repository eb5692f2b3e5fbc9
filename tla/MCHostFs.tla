------------------------------ MODULE MCHostFs ------------------------------
(* Two threads for TLC: one makes every call, one prints and sends bulk.    *)
EXTENDS HostFs

CONSTANTS t1, t2
AllAndOutput == [t \in Threads |-> IF t = t1 THEN Kinds ELSE {"async", "bulk"}]
=============================================================================
