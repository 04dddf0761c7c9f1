------------------------------ MODULE MCSimulator ------------------------------
EXTENDS Simulator

FullMesh == {e \in Node \X Node : e[1] # e[2]}
Published == {[node |-> 1, hlc |-> 1], [node |-> 1, hlc |-> 2], [node |-> 2, hlc |-> 1]}
===============================================================================
