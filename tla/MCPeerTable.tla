------------------------------ MODULE MCPeerTable ------------------------------
EXTENDS PeerTable, TLC

CONSTANTS n1, n2, n3, n4, h1, h2

Equal == [p \in Peer |-> 0]
Perms == Permutations(Peer) \cup Permutations(Handler)
===============================================================================
