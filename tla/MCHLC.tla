--------------------------------- MODULE MCHLC ---------------------------------
EXTENDS HLC

CONSTANTS th1, th2

(* In budget of wall 0, at the counter's limit, and out of budget. *)
RemoteStamps == {[wall |-> 1, ctr |-> 0], [wall |-> 1, ctr |-> 2], [wall |-> 3, ctr |-> 0]}
===============================================================================
