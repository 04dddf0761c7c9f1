------------------------------- MODULE MCDelivery -------------------------------
EXTENDS Delivery

CONSTANTS p1, q1, t1

RemoteRecords == {[slot |-> "b", hlc |-> 1], [slot |-> "b", hlc |-> 2]}
===============================================================================
